------------------------------- MODULE Stack -------------------------------
(***************************************************************************)
(* The segmented stack of a thread (stack.c, runtime.c).                   *)
(*                                                                         *)
(* A continuation makes sure there is space before it pushes a frame;      *)
(* otherwise chiYield allocates a larger stack object, to which only the   *)
(* frames on top are copied: at its base is a frame that leads back to the *)
(* old stack object and shrinks the stack when it is returned to.          *)
(* Exceptions unwind the frames through all stack objects.  chiYield may   *)
(* also save the continuation in a restore frame and run an interrupt      *)
(* handler on top of it.  Sizes are in words.                              *)
(***************************************************************************)
EXTENDS Naturals, Sequences, SequencesExt

CONSTANTS
  StackInit, StackStep, StackHot, StackLimit,  \* rt->option.stack
  FrameSizes,                                  \* sizes of frames
  MaxFrames, MaxSize                           \* bounds on the frames and on stackSize

(* What the options are checked for (rtoption.c).                          *)
OptionsValid ==
  /\ {StackInit, StackStep, StackLimit} \subseteq Nat \ {0} /\ StackHot \in Nat
  /\ StackInit < StackLimit /\ StackInit < StackStep /\ StackStep < StackLimit
  /\ StackHot < StackStep \div 2

Overhead == 1    \* CHI_STACK_OVERHEAD
GrowSize == 2    \* the frame of chiStackGrowCont
RestoreSize == 3 \* the frame of chiRestoreCont, for a continuation without arguments
CatchSize == 2   \* the frame of chiExceptionCatchCont

VARIABLES
  segments,       \* stack objects of the thread, the current one last
  stackSize,      \* thread->stackSize
  interruptible,  \* chiThreadInterruptible
  pushing,        \* the frame a continuation is about to push, if any
  calls           \* the frames the program has pushed and not popped

vars == <<segments, stackSize, interruptible, pushing, calls>>

MaxOf(a, b) == IF a > b THEN a ELSE b
MinOf(a, b) == IF a < b THEN a ELSE b

Fn(n) == [kind |-> "fn", size |-> n, then |-> <<>>]
Catch == [kind |-> "catch", size |-> CatchSize, then |-> <<>>]
GrowFrame == [kind |-> "grow", size |-> GrowSize, then |-> <<>>]
Restore(f) == [kind |-> "restore", size |-> RestoreSize, then |-> f]

Words(frames) == FoldLeft(LAMBDA n, f : n + f.size, 0, frames)
Current == Last(segments)
TopIs(kind) == Current.frames # <<>> /\ Last(Current.frames).kind = kind
SpaceFor(s, n) == Words(s.frames) + n <= s.size - Overhead

Init ==
  /\ segments = <<[size |-> StackInit, frames |-> <<>>]>>
  /\ stackSize = StackInit
  /\ interruptible \in BOOLEAN
  /\ pushing = <<>>
  /\ calls = <<>>

(* A continuation runs that will push a frame: LIMITS.                     *)
Enter(f) ==
  /\ pushing = <<>> /\ ~TopIs("grow")
  /\ Len(calls) < MaxFrames
  /\ pushing' = <<f>>
  /\ UNCHANGED <<segments, stackSize, interruptible, calls>>

PushOn(chain, f) == [chain EXCEPT ![Len(chain)].frames = Append(@, f)]

Push ==
  /\ pushing # <<>>
  /\ SpaceFor(Current, pushing[1].size)
  /\ segments' = PushOn(segments, pushing[1])
  /\ calls' = Append(calls, pushing[1])
  /\ pushing' = <<>>
  /\ UNCHANGED <<stackSize, interruptible>>

-----------------------------------------------------------------------------
(* Broken: the frame below a restore frame is left behind.                 *)
Copied_restore ==
  LET frames == Current.frames
      Enough(k) == k > 0 /\ Words(SubSeq(frames, Len(frames) - k + 1, Len(frames))) >= StackHot
  IN  CHOOSE k \in 0 .. Len(frames) :
        /\ Enough(k) \/ k = Len(frames)
        /\ \A j \in 0 .. k - 1 : ~Enough(j)

(* How many frames are copied: as many as are hot, at least one, and never *)
(* a restore frame without the one below it.                               *)
Copied ==
  LET frames == Current.frames
      Enough(k) == /\ k > 0
                   /\ frames[Len(frames) - k + 1].kind # "restore"
                   /\ Words(SubSeq(frames, Len(frames) - k + 1, Len(frames))) >= StackHot
  IN  CHOOSE k \in 0 .. Len(frames) :
        /\ Enough(k) \/ k = Len(frames)
        /\ \A j \in 0 .. k - 1 : ~Enough(j)

(* chiStackTryGrow for n words: the grown stack.  If everything has been   *)
(* copied the old stack object is no longer referenced.                    *)
Hot == SubSeq(Current.frames, Len(Current.frames) - Copied + 1, Len(Current.frames))
Cold == SubSeq(Current.frames, 1, Len(Current.frames) - Copied)
NewSize(n) ==
  MaxOf(Words(Hot) + n + GrowSize + Overhead, MinOf(StackStep, 2 * Current.size))
Grown(n) ==
  LET new == [size |-> NewSize(n), frames |-> IF Cold = <<>> THEN Hot ELSE <<GrowFrame>> \o Hot]
  IN  Front(segments) \o (IF Cold = <<>> THEN <<>> ELSE <<[Current EXCEPT !.frames = Cold]>>) \o <<new>>
Overflow(n) == interruptible /\ stackSize + NewSize(n) > StackLimit

(* chiStackUnwind: the stacks and their size, cut below the innermost      *)
(* catch frame; everything if there is none.                               *)
Unwound(chain, total) ==
  LET Cut(k, n) == [SubSeq(chain, 1, k) EXCEPT ![k].frames = SubSeq(@, 1, n)]
      From[k \in Nat, n \in Nat, size \in Nat] ==
        LET f == chain[k].frames[n]
        IN  IF n = 0 THEN [chain |-> Cut(k, 0), size |-> size, found |-> FALSE]
            ELSE IF f.kind = "catch" THEN [chain |-> Cut(k, n - 1), size |-> size, found |-> TRUE]
            ELSE IF f.kind = "grow"
                 THEN From[k - 1, Len(chain[k - 1].frames), size - chain[k].size]
                 ELSE From[k, n - 1, size]
  IN  From[Len(chain), Len(Last(chain).frames), total]

(* What the program expects of an exception.                               *)
Caught == {k \in DOMAIN calls : calls[k].kind = "catch"}
Handled == IF Caught = {} THEN <<>>
           ELSE SubSeq(calls, 1, (CHOOSE k \in Caught : \A j \in Caught : j <= k) - 1)

(* chiExceptionThrow: the handler is applied, or the unhandled exception   *)
(* is shown by a thread that is not interrupted any more.                  *)
ThrowException ==
  /\ LET u == Unwound(segments, stackSize)
     IN  /\ segments' = u.chain
         /\ stackSize' = u.size
         /\ interruptible' = (interruptible /\ u.found)
  /\ pushing' = <<>>
  /\ calls' = Handled

Throw == pushing = <<>> /\ ~TopIs("grow") /\ ThrowException

(* chiYield: more space, also for a restore frame, then the continuation   *)
(* runs again; an interrupt saves it in a restore frame.                   *)
Needed == MaxOf(pushing[1].size, RestoreSize)
Yield ==
  /\ pushing # <<>>
  /\ LET grow == ~SpaceFor(Current, Needed)
         chain == IF grow THEN Grown(Needed) ELSE segments
         size == IF grow THEN stackSize + NewSize(Needed) ELSE stackSize
     IN  IF grow /\ Overflow(Needed) THEN ThrowException
         ELSE /\ size <= MaxSize
              /\ stackSize' = size
              /\ \/ /\ segments' = chain
                    /\ UNCHANGED <<pushing, calls>>
                 \/ /\ Len(calls) < MaxFrames
                    /\ segments' = PushOn(chain, Restore(pushing))
                    /\ calls' = Append(calls, Restore(pushing))
                    /\ pushing' = <<>>
              /\ UNCHANGED interruptible

(* A frame is returned to: chiRestoreCont runs the saved continuation.     *)
Return ==
  /\ pushing = <<>> /\ Current.frames # <<>> /\ ~TopIs("grow")
  /\ pushing' = Last(Current.frames).then
  /\ segments' = [segments EXCEPT ![Len(segments)].frames = Front(@)]
  /\ calls' = Front(calls)
  /\ UNCHANGED <<stackSize, interruptible>>

(* chiStackGrowCont, chiStackShrink                                        *)
Shrink ==
  /\ TopIs("grow")
  /\ segments' = Front(segments)
  /\ stackSize' = stackSize - Current.size
  /\ UNCHANGED <<interruptible, pushing, calls>>

Next ==
  \/ \E n \in FrameSizes : Enter(Fn(n))
  \/ Enter(Catch)
  \/ Push \/ Throw \/ Yield \/ Return \/ Shrink

Spec == Init /\ [][Next]_vars

-----------------------------------------------------------------------------
(* However it has grown, shrunk and been unwound, the stack is the frames  *)
(* of the program: in this order through all stack objects, each linked    *)
(* to the one below by the frame at its base, within their limits.  A      *)
(* continuation that runs, also one that is restored, finds its frame in   *)
(* the stack object it runs on.                                            *)
IsProgram(f) == f.kind # "grow"
FramesKept ==
  /\ SelectSeq(FlattenSeq([i \in DOMAIN segments |-> segments[i].frames]), IsProgram) = calls
  /\ \A i \in DOMAIN segments :
       LET frames == segments[i].frames
       IN  /\ \A k \in DOMAIN frames : frames[k].kind = "grow" <=> k = 1 /\ i > 1
           /\ Words(frames) <= segments[i].size - Overhead
           /\ i > 1 /\ Len(frames) > 1 => frames[2].kind # "restore"
           /\ i > 1 /\ i = Len(segments) /\ pushing # <<>> => Len(frames) > 1

(* The size of the stack is never less than that of its objects, so that   *)
(* the limit holds.  (It may be more: a stack object that has been copied  *)
(* as a whole is never subtracted, see StackSizeExact.)                    *)
StackSizeCovers ==
  FoldLeft(LAMBDA n, s : n + s.size, 0, segments) <= stackSize

(* Does not hold: stackSize is the size of the stack objects, so that only *)
(* a stack that is too large overflows.                                    *)
StackSizeExact ==
  FoldLeft(LAMBDA n, s : n + s.size, 0, segments) = stackSize

=============================================================================

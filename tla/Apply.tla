------------------------------- MODULE Apply -------------------------------
(***************************************************************************)
(* Applying functions of any arity to any number of arguments              *)
(* (native/runtime.c).                                                     *)
(*                                                                         *)
(* Too few arguments make a partial closure, whose code later shifts the   *)
(* new arguments up and puts the old ones before them.  Arguments that are *)
(* too many are kept in a frame until the function has returned another    *)
(* function.  The arguments of the model are numbered in the order the     *)
(* program gives them.  The program itself (the callers and the bodies of  *)
(* the functions) is external to this model.                               *)
(***************************************************************************)
EXTENDS Naturals, Sequences, FiniteSets, SequencesExt

CONSTANTS
  Arities,   \* arities of the program's functions
  Calls,     \* numbers of arguments of a call
  MaxArgs    \* bound on the arguments the program gives

VARIABLES
  areg,   \* the argument registers, from 0
  spine,  \* the words of the frames on the stack
  doing,  \* what runs: a call of n arguments, the code of the function in A(0), a return
  given,  \* how many arguments have been given
  taken   \* the arguments the functions have got, oldest first

vars == <<areg, spine, doing, given, taken>>

AMAX == 16  \* CHI_AMAX
Undef == [is |-> "undef"]
Arg(n) == [is |-> "arg", n |-> n]
Function(arity) == [is |-> "fn", arity |-> arity, code |-> "body", fields |-> <<>>]
Registers(s) == [i \in 0 .. AMAX - 1 |-> IF i < Len(s) THEN s[i + 1] ELSE Undef]
Fn == areg[0]
Args(r, from, n) == [k \in 1 .. n |-> r[from + k - 1]]

(* chiApp1 .. chiApp4 have a table of code for the arities up to 5, all    *)
(* others use partialNofM.                                                 *)
Partial(args, arity) == IF args <= 4 /\ arity <= 5 THEN "partialXofY" ELSE "partialNofM"

Init ==
  /\ \E n \in Arities : areg = Registers(<<Function(n)>>)
  /\ spine = <<>>
  /\ doing = [what |-> "return", n |-> 0]
  /\ given = 0
  /\ taken = <<>>

Then(what, n) == doing' = [what |-> what, n |-> n]

(* The program applies the function it has got back.                       *)
Call(n) ==
  /\ doing.what = "return" /\ spine = <<>> /\ given + n <= MaxArgs
  /\ areg' = Registers(<<Fn>> \o [k \in 1 .. n |-> Arg(given + k)])
  /\ given' = given + n
  /\ Then("app", n)
  /\ UNCHANGED <<spine, taken>>

(* args < arity: the registers go into the closure.                        *)
AppPartial ==
  LET args == doing.n  arity == Fn.arity IN
  /\ doing.what = "app" /\ args < arity
  /\ areg' = Registers(<<[is |-> "fn", arity |-> arity - args, code |-> Partial(args, arity),
                          fields |-> Args(areg, 0, args + 1)]>>)
  /\ Then("return", 0)
  /\ UNCHANGED <<spine, given, taken>>

(* The frame of the arguments that are too many, and its continuation.     *)
OverFrame(args, arity) ==
  LET rest == args - arity IN
  Args(areg, 1 + arity, rest) \o
    (IF rest <= 4 THEN <<[is |-> "overApp", n |-> rest]>>
     ELSE <<[is |-> "size", n |-> rest + 2], [is |-> "overAppN", n |-> 0]>>)

AppOver ==
  LET args == doing.n  arity == Fn.arity IN
  /\ doing.what = "app" /\ args > arity
  /\ spine' = spine \o OverFrame(args, arity)
  /\ areg' = [i \in DOMAIN areg |-> IF i \in arity + 1 .. args THEN Undef ELSE areg[i]]
  /\ Then("run", 0)
  /\ UNCHANGED <<given, taken>>

AppExact ==
  /\ doing.what = "app" /\ doing.n = Fn.arity
  /\ Then("run", 0)
  /\ UNCHANGED <<areg, spine, given, taken>>

(* PARTIAL_BODY: from the last argument to the first, then the fields of   *)
(* the closure.                                                            *)
Shift_up(r, args, delta) ==
  LET Up(s, k) == [s EXCEPT ![args + k] = s[k]]
  IN  FoldLeft(Up, r, [k \in 1 .. delta |-> k])
Shift(r, args, delta) ==
  LET Up(s, k) == [s EXCEPT ![args + delta + 1 - k] = s[delta + 1 - k]]
  IN  FoldLeft(Up, r, [k \in 1 .. delta |-> k])
Filled(r, clos) ==
  [i \in DOMAIN r |-> IF i < Len(clos.fields) THEN clos.fields[i + 1] ELSE r[i]]
RunPartial ==
  LET args == Len(Fn.fields) - 1 IN
  /\ doing.what = "run" /\ Fn.code # "body"
  /\ areg' = Filled(Shift(areg, args, Fn.arity), Fn)
  /\ UNCHANGED <<spine, doing, given, taken>>

(* A function takes its arguments and returns another one.                 *)
RunBody(arity) ==
  /\ doing.what = "run" /\ Fn.code = "body"
  /\ taken' = taken \o Args(areg, 1, Fn.arity)
  /\ areg' = Registers(<<Function(arity)>>)
  /\ Then("return", 0)
  /\ UNCHANGED <<spine, given>>

(* overApp1 .. overApp4, overAppN: the function that was returned gets the *)
(* arguments of the frame.                                                 *)
Over(rest, words) ==
  /\ areg' = Registers(<<Fn>> \o SubSeq(spine, Len(spine) - words + 1, Len(spine) - words + rest))
  /\ spine' = SubSeq(spine, 1, Len(spine) - words)
  /\ Then("app", rest)
  /\ UNCHANGED <<given, taken>>
OverApp ==
  /\ doing.what = "return" /\ spine # <<>> /\ Last(spine).is = "overApp"
  /\ Over(Last(spine).n, Last(spine).n + 1)
OverAppN ==
  /\ doing.what = "return" /\ spine # <<>> /\ Last(spine).is = "overAppN"
  /\ LET size == spine[Len(spine) - 1].n IN Over(size - 2, size)

Next ==
  \/ \E n \in Calls : Call(n)
  \/ AppPartial \/ AppOver \/ AppExact \/ RunPartial
  \/ \E n \in Arities : RunBody(n)
  \/ OverApp \/ OverAppN

Spec == Init /\ [][Next]_vars

-----------------------------------------------------------------------------
(* The arguments in a closure and in the registers, in order.              *)
Kept(closure) ==
  LET Peeled[n \in 0 .. MaxArgs] ==
        IF n = 0 THEN [f |-> closure, args |-> <<>>]
        ELSE LET p == Peeled[n - 1]
             IN  IF p.f.code = "body" THEN p
                 ELSE [f |-> p.f.fields[1], args |-> Tail(p.f.fields) \o p.args]
  IN  Peeled[MaxArgs].args
InRegisters ==
  CASE doing.what = "app" -> Args(areg, 1, doing.n)
    [] doing.what = "run" -> Args(areg, 1, Fn.arity)
    [] OTHER -> <<>>

(* No argument is lost, duplicated, or moved before another, however the   *)
(* calls and the arities divide them: those the functions have taken, those*)
(* in the closure of the function at hand, those in the registers and those*)
(* in the frame are the arguments the program has given, in order.         *)
ArgumentsInOrder ==
  taken \o Kept(Fn) \o InRegisters \o SelectSeq(spine, LAMBDA w : w.is = "arg")
    = [k \in 1 .. given |-> Arg(k)]

=============================================================================

----------------------------- MODULE LocalHeap -----------------------------
(***************************************************************************)
(* The local heap of one processor: promotion and the scavenger            *)
(* (native/promote.c, scavenger.c, localheap.h, barrier.h).                *)
(*                                                                         *)
(* Objects are born in the nursery.  The scavenger copies the live ones to *)
(* the aged generation or to the major heap, where they belong to the      *)
(* processor until they become reachable from a shared object.  An object  *)
(* that must be in the major heap at once is promoted: its copy is         *)
(* remembered in a list, and until the next scavenge the program holds     *)
(* references to both.                                                     *)
(*                                                                         *)
(* An object has at most one reference, and is a raw object, an immutable  *)
(* constructor, a thunk, the array or the thread.  The array is born in    *)
(* the major heap, the thread is shared from the start.  The stack is a    *)
(* few slots.  Every object stands for a node of the graph the program     *)
(* means to have built: want and hold record that graph.  Blocks, and      *)
(* the colours of the collector, are left out (Blocks, GC).                *)
(***************************************************************************)
EXTENDS Naturals, Sequences, FiniteSets, SequencesExt, TLC

CONSTANTS
  Slot,      \* slots of the stack
  MaxNode,   \* bound on the objects that are allocated
  Target,    \* what the program writes to besides thunks: the array, the thread
  Aging,     \* rt->option.gc.aging
  MaxOps,    \* bound on what the program does
  AgedOnly   \* whether a scavenge may find aged objects only in the dirty list

VARIABLES
  cells,     \* address |-> object
  slots,     \* the stack
  dirty,     \* dirty.objects
  cards,     \* dirty.cards
  card,      \* whether the card of the array is marked
  promoted,  \* promoted.objects
  scavenge,  \* trigger.scavenge
  ops,       \* how much the program may still do
  want,      \* node |-> the node it refers to
  hold       \* slot |-> the node it refers to

heapvars == <<cells, slots, dirty, cards, card, promoted, scavenge>>
vars == <<heapvars, ops, want, hold>>

Array  == 1
Thread == 2
Stack  == 0        \* in the dirty list
None   == 0        \* an unboxed value
Major  == Aging + 1

Cell(n, type, gen, val) ==
  [node |-> n, type |-> type, gen |-> gen, val |-> val, shared |-> FALSE, dirty |-> FALSE,
   fwd |-> FALSE, head |-> None, cont |-> IF type = "thunk" THEN "code" ELSE "none"]

IsMajor(h, a) == h[a].gen = Major
IsMinor(h, a) == a # None /\ ~IsMajor(h, a)
IsRaw(h, a)   == h[a].type = "raw"
Unforced(h, a) == h[a].val = a
(* The lowest free address.                                                *)
Fresh(h) == CHOOSE a \in 1 .. Cardinality(DOMAIN h) + 1 :
              /\ a \notin DOMAIN h
              /\ \A b \in 1 .. a - 1 : b \in DOMAIN h

Init ==
  /\ cells = (Array :> Cell(Array, "array", Major, None))
             @@ (Thread :> [Cell(Thread, "thread", Major, None) EXCEPT !.shared = TRUE])
  /\ slots = [i \in Slot |-> None]
  /\ dirty = <<>>
  /\ cards = <<>>
  /\ card = FALSE
  /\ promoted = <<>>
  /\ scavenge = FALSE
  /\ ops = MaxOps
  /\ want = (Array :> None) @@ (Thread :> None)
  /\ hold = [i \in Slot |-> None]

-----------------------------------------------------------------------------
(* Promotion.                                                              *)

(* newPromoted: the copy keeps pointing at the old thunk until it is       *)
(* scanned; a thunk that is not forced yet leads to its copy.              *)
NewPromoted(h, a, shared) ==
  LET d == Fresh(h)
      clean == shared \/ IsRaw(h, a)
      old == IF h[a].type = "thunk" /\ Unforced(h, a)
             THEN [h[a] EXCEPT !.fwd = TRUE, !.cont = "forward", !.val = d]
             ELSE [h[a] EXCEPT !.fwd = TRUE]
  IN  (d :> [h[a] EXCEPT !.gen = Major, !.shared = clean, !.dirty = ~clean]) @@ (a :> old) @@ h

(* copyForwarded and restoreForwarded swap the first words of promoted     *)
(* objects with the forwarding pointers; so does forwardPromoted.          *)
Install(h, list) ==
  [a \in DOMAIN h |-> IF \E k \in DOMAIN list : list[k].from = a
                      THEN [h[a] EXCEPT !.head = (CHOOSE p \in ToSet(list) : p.from = a).to]
                      ELSE h[a]]
Restore(h) == [a \in DOMAIN h |-> [h[a] EXCEPT !.head = None]]

(* A major object becomes shared and clean, and is scanned.                *)
Share(s, a) ==
  IF s.heap[a].shared THEN [s EXCEPT !.to = a]
  ELSE [s EXCEPT !.heap[a].shared = TRUE, !.heap[a].dirty = FALSE,
                 !.to = a, !.todo = Append(@, a)]

(* Broken: an object that was promoted before is taken to be shared.       *)
Add_known(s, a) ==
  LET h == s.heap
      d == Fresh(h)
      new == NewPromoted(h, a, TRUE)
  IN  IF a = None THEN [s EXCEPT !.to = a]
      ELSE IF IsMajor(h, a) THEN Share(s, a)
      ELSE IF h[a].fwd THEN [s EXCEPT !.to = (CHOOSE p \in ToSet(s.list) : p.from = a).to]
      ELSE [s EXCEPT !.heap = new, !.list = Append(@, [from |-> a, to |-> d]),
                     !.to = d,
                     !.todo = IF IsRaw(h, a) THEN @ ELSE Append(@, d)]

(* chiPromoteSharedAdd                                                     *)
Add(s, a) ==
  LET h == s.heap
      d == Fresh(h)
      new == NewPromoted(h, a, TRUE)
      f == IF s.forward THEN s ELSE [s EXCEPT !.heap = Install(h, s.list), !.forward = TRUE]
  IN  IF a = None THEN [s EXCEPT !.to = a]
      ELSE IF IsMajor(h, a) THEN Share(s, a)
      ELSE IF h[a].fwd THEN Share(f, f.heap[a].head)
      ELSE [s EXCEPT !.heap = IF s.forward THEN [new EXCEPT ![a].head = d] ELSE new,
                     !.list = Append(@, [from |-> a, to |-> d]),
                     !.to = d,
                     !.todo = IF IsRaw(h, a) THEN @ ELSE Append(@, d)]

(* promoteSharedScan of the object that was postponed last.                *)
PromoteScan(s) ==
  IF s.todo = <<>> THEN s
  ELSE LET c == Last(s.todo)
           r == Add([s EXCEPT !.todo = Front(@)], s.heap[c].val)
       IN  [r EXCEPT !.heap[c].val = r.to]

(* Every object is scanned once at most.                                   *)
Iterate(Step(_), n, s) == FoldLeft(LAMBDA t, k : Step(t), s, [k \in 1 .. n |-> k])

(* chiPromoteShared                                                        *)
PromoteShared(v) ==
  LET r == Add([heap |-> cells, list |-> promoted, forward |-> FALSE, to |-> None,
                todo |-> <<>>], v)
      e == Iterate(PromoteScan, MaxNode, r)
  IN  [e EXCEPT !.heap = IF e.forward THEN Restore(@) ELSE @, !.to = r.to]

-----------------------------------------------------------------------------
(* The scavenger.  s holds the heap, the objects copied within the minor   *)
(* heap (cheney) and to the major heap (major), and the new dirty list.    *)

Minor == {a \in DOMAIN cells : IsMinor(cells, a)}

Collapsible(h, a) == h[a].val = None \/ h[h[a].val].type # "thunk"

(* copy: where the reference leads now, and whether that is minor.         *)
Copy(s, ref, collapse) ==
  LET h == s.heap
      a == IF collapse /\ IsMinor(h, ref) /\ h[ref].type = "thunk" /\ Collapsible(h, ref)
           THEN h[ref].val ELSE ref
      gen == IF h[a].gen >= s.aging THEN Major ELSE h[a].gen + 1
      local == ~IsRaw(h, a) /\ gen = Major
      d == Fresh(h)
  IN  IF ~IsMinor(h, a) THEN [s EXCEPT !.to = a, !.young = FALSE]
      ELSE IF h[a].fwd THEN [s EXCEPT !.to = h[a].head, !.young = IsMinor(h, h[a].head)]
      ELSE [s EXCEPT
              !.heap = (d :> [h[a] EXCEPT !.gen = gen, !.dirty = local,
                                          !.shared = (IsRaw(h, a) /\ gen = Major)])
                       @@ (a :> [h[a] EXCEPT !.fwd = TRUE, !.head = d]) @@ h,
              !.cheney = IF ~IsRaw(h, a) /\ gen # Major THEN Append(@, d) ELSE @,
              !.major = IF local THEN Append(@, d) ELSE @,
              !.to = d, !.young = gen # Major]

(* scanMajorObject: the object stays dirty if it leads to a minor one.     *)
ScanMajor(s, a) ==
  LET r == Copy(s, s.heap[a].val, FALSE)
  IN  [r EXCEPT !.heap[a].val = r.to, !.heap[a].dirty = r.young,
                !.dirty = IF r.young THEN Append(@, a) ELSE @]

(* scanDirtyStack                                                          *)
ScanStack(s) ==
  LET r == FoldLeft(LAMBDA t, i : LET c == Copy(t, t.slots[i], FALSE)
                                  IN  [c EXCEPT !.slots[i] = c.to, !.any = @ \/ c.young],
                    s, SetToSeq(Slot))
  IN  [r EXCEPT !.dirty = IF r.any THEN Append(@, Stack) ELSE @]

(* scanDirtyObjects: objects that have been shared meanwhile are clean.    *)
ScanDirty(s, a) ==
  IF a = Stack THEN ScanStack(s) ELSE IF s.heap[a].shared THEN s ELSE ScanMajor(s, a)

(* scanDirtyCards: whether or not the array has been shared.               *)
ScanCards(s) ==
  IF cards = <<>> THEN s
  ELSE LET r == Copy(s, s.heap[Array].val, FALSE)
       IN  [r EXCEPT !.heap[Array].val = r.to, !.cards = IF r.young THEN @ ELSE <<>>]

(* scanMajorObjectList                                                     *)
ScanMajorList(s) ==
  IF s.major = <<>> THEN s ELSE ScanMajor([s EXCEPT !.major = Front(@)], Last(s.major))

(* scanCheneyObjects: everything copied within the minor heap is scanned,  *)
(* then everything copied to the major heap, until a round has found       *)
(* nothing to scan within the minor heap.                                  *)
ScanCopied(s) ==
  IF s.end THEN s
  ELSE IF s.cheney # <<>>
  THEN LET a == Head(s.cheney)
           r == Copy([s EXCEPT !.cheney = Tail(@), !.done = FALSE], s.heap[a].val, TRUE)
       IN  [r EXCEPT !.heap[a].val = r.to]
  ELSE [Iterate(ScanMajorList, MaxNode, s) EXCEPT !.end = s.done, !.done = TRUE]

(* Broken: the forwarding pointers of promoted objects are not installed.  *)
Forwarded_not(h) == h

(* forwardPromoted                                                         *)
Forwarded(h) == Install(h, promoted)

(* chiScavenger; the old blocks are freed when it ends.                    *)
Scavenged(aging) ==
  LET s == [heap |-> Forwarded(cells), aging |-> aging, slots |-> slots, cards |-> cards,
            cheney |-> <<>>, major |-> <<>>, dirty |-> <<>>, to |-> None, young |-> FALSE,
            any |-> FALSE, done |-> TRUE, end |-> FALSE]
      stack == IF Contains(dirty, Stack) THEN dirty ELSE Append(dirty, Stack)
  IN  Iterate(ScanCopied, 2 * MaxNode, ScanCards(FoldLeft(ScanDirty, s, Reverse(stack))))

(* What the dirty objects lead to has been aged: nothing younger is        *)
(* copied before the major objects are scanned.                            *)
DirtyValues == {slots[i] : i \in Slot} \cup {cells[a].val : a \in ToSet(dirty) \ {Stack}}
                 \cup {cells[a].val : a \in ToSet(cards)}
OnlyAged(aging) ==
  LET copied == {v \in DirtyValues : IsMinor(cells, v) /\ ~IsRaw(cells, v) /\ ~cells[v].fwd}
  IN  copied # {} /\ \A v \in copied : cells[v].gen >= aging

-----------------------------------------------------------------------------
(* The program.                                                            *)

(* A step of the program.                                                  *)
Operate == ops > 0 /\ ops' = ops - 1

Held == {slots[i] : i \in Slot}
NodeOf(a) == IF a = None THEN None ELSE cells[a].node
IsThunk(a) == a # None /\ cells[a].type = "thunk"

(* chiNewInl, NEW: an object in the nursery.                               *)
New(i, type, v) ==
  /\ Operate
  /\ Cardinality(DOMAIN want) < MaxNode
  /\ slots[i] \in {None, v}
  /\ slots[i] = None => \A j \in Slot : j < i => slots[j] # None
  /\ LET a == Fresh(cells)
         n == Cardinality(DOMAIN want) + 1
     IN  /\ cells' = (a :> Cell(n, type, 0, IF type = "thunk" THEN a ELSE v)) @@ cells
         /\ want' = (n :> IF type = "thunk" THEN n ELSE NodeOf(v)) @@ want
         /\ slots' = [slots EXCEPT ![i] = a]
         /\ hold' = [hold EXCEPT ![i] = n]
  /\ UNCHANGED <<dirty, cards, card, promoted, scavenge>>

(* A slot is loaded with what an object refers to, or dropped.             *)
Load(i, a) ==
  /\ Operate
  /\ a # None => cells[a].type # "thunk" \/ cells[a].cont = "done"
  /\ slots' = [slots EXCEPT ![i] = IF a = None THEN None ELSE cells[a].val]
  /\ hold' = [hold EXCEPT ![i] = IF a = None THEN None ELSE want[NodeOf(a)]]
  /\ slots[i] # slots'[i]
  /\ UNCHANGED <<cells, dirty, cards, card, promoted, scavenge, want>>

(* _chiBarrierDirty: the array has a card table, other objects a flag.     *)
MarksDirty(dst, v) == dst # Array /\ IsMinor(cells, v)
BarrierDirty(dst, v) ==
  /\ card'  = (card \/ (dst = Array /\ IsMinor(cells, v)))
  /\ cards' = IF card = card' THEN cards ELSE Append(cards, Array)
  /\ dirty' = IF MarksDirty(dst, v) /\ ~cells[dst].dirty THEN Append(dirty, dst) ELSE dirty

(* chiFieldWrite: values written into shared objects are promoted first,   *)
(* writes into local objects of the major heap are remembered.  cont is    *)
(* what becomes of the code of a thunk.                                    *)
FieldWrite(dst, v, cont) ==
  /\ want' = [want EXCEPT ![cells[dst].node] = NodeOf(v)]
  /\ IF cells[dst].shared
     THEN LET p == PromoteShared(v)
          IN  /\ cells' = [p.heap EXCEPT ![dst].val = p.to, ![dst].cont = cont]
              /\ promoted' = p.list
              /\ scavenge' = (scavenge \/ p.forward)
              /\ UNCHANGED <<dirty, cards, card>>
     ELSE /\ cells' = [cells EXCEPT ![dst].val = v, ![dst].cont = cont,
                                    ![dst].dirty = @ \/ (IsMajor(cells, dst) /\ MarksDirty(dst, v))]
          /\ IF IsMajor(cells, dst) THEN BarrierDirty(dst, v) ELSE UNCHANGED <<dirty, cards, card>>
          /\ UNCHANGED <<promoted, scavenge>>
  /\ UNCHANGED <<slots, hold>>

Write(dst, v) ==
  /\ Operate
  /\ cells[dst].val # v
  /\ FieldWrite(dst, v, "none")

(* The thunk in a slot has been evaluated (chiThunkUpdateCont).            *)
Force(i, v) ==
  /\ Operate
  /\ IsThunk(slots[i]) /\ cells[slots[i]].cont = "code"
  /\ ~IsThunk(v)
  /\ FieldWrite(slots[i], v, "done")

(* chiThunkForward: the copy is forced in its place.                       *)
ForceForward(i) ==
  /\ Operate
  /\ IsThunk(slots[i]) /\ cells[slots[i]].cont = "forward"
  /\ cells' = [cells EXCEPT ![slots[i]].val = slots[i]]
  /\ slots' = [slots EXCEPT ![i] = cells[slots[i]].val]
  /\ UNCHANGED <<dirty, cards, card, promoted, scavenge, want, hold>>

(* chiPromoteLocal: for module values and the local state of a processor.  *)
PromoteLocal(i) ==
  LET a == slots[i]
      d == Fresh(cells)
  IN  /\ Operate
      /\ IsMinor(cells, a)
      /\ IF ~cells[a].fwd
         THEN /\ cells' = NewPromoted(cells, a, FALSE)
              /\ dirty' = IF IsRaw(cells, a) THEN dirty ELSE Append(dirty, d)
              /\ promoted' = Append(promoted, [from |-> a, to |-> d])
              /\ slots' = [slots EXCEPT ![i] = d]
              /\ UNCHANGED scavenge
         ELSE /\ scavenge' = TRUE
              /\ \E k \in DOMAIN promoted :
                   promoted[k].from = a /\ slots' = [slots EXCEPT ![i] = promoted[k].to]
              /\ UNCHANGED <<cells, dirty, promoted>>
      /\ UNCHANGED <<cards, card, want, hold>>

(* chiScavenger.  chiStackDeactivate has registered the stack.             *)
Scavenge(aging) ==
  /\ Operate
  /\ (OnlyAged(aging) => AgedOnly \/ aging = 0)
  /\ LET s == Scavenged(aging)
     IN  /\ cells' = [a \in {b \in DOMAIN s.heap : b \notin Minor} |-> s.heap[a]]
         /\ slots' = s.slots
         /\ dirty' = s.dirty
         /\ cards' = s.cards
         /\ card' = (s.cards # <<>>)
  /\ promoted' = <<>>
  /\ scavenge' = FALSE
  /\ UNCHANGED <<want, hold>>

Next ==
  \/ \E i \in Slot, type \in {"raw", "thunk"} : New(i, type, None)
  \/ \E i \in Slot, v \in Held \ {None} : New(i, "con", v)
  \/ \E i \in Slot, a \in Held \cup {None, Array} : Load(i, a)
  \/ \E dst \in Target : \E v \in (Held \cup {Array}) \ {None, dst} : Write(dst, v)
  \/ \E i \in Slot, v \in Held \cup {None} : Force(i, v)
  \/ \E i \in Slot : ForceForward(i) \/ PromoteLocal(i)
  \/ \E aging \in {0, Aging} : Scavenge(aging)

Spec == Init /\ [][Next]_vars

-----------------------------------------------------------------------------
(* The objects the program can reach, and where its references lead.       *)
Reachable ==
  LET Within[k \in 0 .. Cardinality(DOMAIN cells)] ==
        IF k = 0 THEN (Held \cup {Array, Thread}) \ {None}
        ELSE LET near == Within[k - 1]
             IN  near \cup ({cells[a].val : a \in near \cap DOMAIN cells} \ {None})
  IN  Within[Cardinality(DOMAIN cells)]

(* A reference to n may be replaced by the value of n, if that is a thunk. *)
Denotes(a, n) == \/ NodeOf(a) = n
                 \/ n # None /\ want[n] # n /\ NodeOf(a) = want[n]

(* Promotion and scavenging keep the graph the program has built: every    *)
(* reference the program can reach leads to an object that exists, is      *)
(* whole, and stands for what the program put there.                       *)
Faithful ==
    /\ \A a \in Reachable : a \in DOMAIN cells /\ cells[a].head = None
    /\ \A a \in Reachable : cells[a].cont = "forward" \/ Denotes(cells[a].val, want[cells[a].node])
    /\ \A i \in Slot : Denotes(slots[i], hold[i])

(* Of the heap invariants of localheap.h those about references between    *)
(* generations (lines 42-51 and 58-60): shared objects lead to shared ones *)
(* only; an object of the local major heap that leads to a minor one is in *)
(* a dirty list.  Besides, the forward bit of an object is set exactly     *)
(* while it is in the list of promoted objects.                            *)
HeapInvariants ==
    /\ \A a \in DOMAIN cells :
         cells[a].shared /\ cells[a].val # None => cells[cells[a].val].shared
    /\ \A a \in DOMAIN cells :
         IsMajor(cells, a) /\ IsMinor(cells, cells[a].val) =>
           \/ cells[a].dirty /\ Contains(dirty, a)
           \/ a = Array /\ card /\ Contains(cards, Array)
    /\ \A a \in DOMAIN cells :
         cells[a].fwd <=> \E k \in DOMAIN promoted : promoted[k].from = a

(* A promoted thunk leads to its copy (thunk.h).                           *)
ForwardLeads ==
  \A a \in DOMAIN cells : cells[a].cont = "forward" => cells[a].val # a

=============================================================================

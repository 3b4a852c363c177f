---------------------------- MODULE ModulesProofs ----------------------------
(***************************************************************************)
(* Modules are initialised after their imports, for any number of threads, *)
(* and once by a thread that is alone (Modules).                           *)
(***************************************************************************)
EXTENDS Modules, TLAPS, FiniteSetTheorems, SequenceTheorems

(* A sequence, whatever of.                                                *)
Sequence(s) == s \in Seq({s[i] : i \in DOMAIN s})

(* One place for each import, with its name or value.                      *)
SlotsFor(name, slots) ==
  /\ Sequence(slots) /\ Len(slots) = Len(Imports[name])
  /\ \A k \in 1 .. Len(slots) : slots[k].name = Imports[name][k]

(* A value of a module, among the first l, whose slots have values of its  *)
(* imports that are older.                                                 *)
ReadyValue(v, l) ==
  /\ v.name \in Name /\ v.serial \in 1 .. l
  /\ SlotsFor(v.name, v.slots)
  /\ \A k \in 1 .. Len(v.slots) : v.slots[k].serial \in 1 .. v.serial - 1

(* The slots have values from one on.                                      *)
Has(slots, from, l) == \A k \in from .. Len(slots) : slots[k].serial \in 1 .. l

(* The module an import frame waits for.                                   *)
Wanted(stack, i) == Imports[stack[i - 1].name][stack[i].index]

(* The frames of a stack: a module is initialised for an import below it,  *)
(* its code is above it and has the values of the imports that have been   *)
(* walked.                                                                 *)
FrameInv(stack, i, l) ==
  \/ /\ stack[i].kind = "module" /\ stack[i].name \in Name
     /\ i > 1 => stack[i - 1].kind = "import" /\ stack[i].name = Wanted(stack, i - 1)
  \/ /\ stack[i].kind = "code" /\ i > 1 /\ stack[i - 1].kind = "module"
     /\ stack[i] = Code(stack[i - 1].name, stack[i].slots)
     /\ SlotsFor(stack[i].name, stack[i].slots)
  \/ /\ stack[i].kind = "import" /\ i > 1 /\ stack[i - 1].kind = "code"
     /\ stack[i].index \in 1 .. Len(stack[i - 1].slots)
     /\ Has(stack[i - 1].slots, stack[i].index + 1, l)

StackInv(stack, l) == Sequence(stack) /\ \A i \in 1 .. Len(stack) : FrameInv(stack, i, l)

(* What a thread is about to do fits the frame on top.                     *)
DoesInv(stack, does, arg, l) ==
  LET n == Len(stack) IN
  /\ does \in {"idle", "init", "return", "throw"}
  /\ does = "idle" => n = 0
  /\ does = "init" => /\ arg.name \in Name
                      /\ n > 0 => stack[n].kind = "import" /\ arg.name = Wanted(stack, n)
  /\ does = "return" /\ n > 0 =>
       /\ stack[n].kind = "module" => ReadyValue(arg, l) /\ arg.name = stack[n].name
       /\ stack[n].kind = "code" => Has(stack[n].slots, 1, l)
       /\ stack[n].kind = "import" => ReadyValue(arg, l) /\ arg.name = Wanted(stack, n)

(* The entries have values of their modules.                               *)
HashInv(entries, l) ==
  /\ Sequence(entries)
  /\ \A i \in 1 .. Len(entries) :
       entries[i].name \in Name /\ ReadyValue(entries[i].value, l) /\ entries[i].value.name = entries[i].name

ThreadInv(thread, l) ==
  StackInv(thread.stack, l) /\ DoesInv(thread.stack, thread.does, thread.arg, l)

LoadInv ==
  /\ loads \in Nat
  /\ mthread = [t \in MThreads |-> mthread[t]]
  /\ \A t \in MThreads : ThreadInv(mthread[t], loads)
  /\ HashInv(moduleHash, loads)

(* A thread that is alone initialises only modules that have no value,     *)
(* each imported by the one below.                                         *)
Once(stack, entries) ==
  /\ \A i, j \in 1 .. Len(entries) : entries[i].name = entries[j].name => i = j
  /\ \A i \in 1 .. Len(stack) : stack[i].kind = "module" =>
       /\ \A k \in 1 .. Len(entries) : entries[k].name # stack[i].name
       /\ \A j \in 1 .. i - 1 : stack[j].kind = "module" => stack[j].name < stack[i].name

OnceInv == Cardinality(MThreads) = 1 => \A t \in MThreads : Once(Stack(t), moduleHash)

-----------------------------------------------------------------------------
(* A sequence of anything is one of its own elements.                      *)
LEMMA SequenceOf ==
  ASSUME NEW T, NEW s \in Seq(T)
  PROVE  Sequence(s) /\ Len(s) \in Nat /\ DOMAIN s = 1 .. Len(s)
<1>1. s \in [1 .. Len(s) -> T] /\ Len(s) \in Nat
  OBVIOUS
<1>2. s \in [1 .. Len(s) -> {s[i] : i \in DOMAIN s}]
  BY <1>1
<1> QED BY <1>1, <1>2 DEF Sequence

(* What appending does.                                                    *)
LEMMA Appended ==
  ASSUME NEW s, Sequence(s), NEW x
  PROVE  /\ Sequence(Append(s, x)) /\ Len(Append(s, x)) = Len(s) + 1
         /\ Append(s, x)[Len(s) + 1] = x
         /\ \A i \in 1 .. Len(s) : Append(s, x)[i] = s[i]
<1> DEFINE T == {s[i] : i \in DOMAIN s} \cup {x}
<1>1. s \in Seq(T)
  <2>1. s \in [1 .. Len(s) -> T] /\ Len(s) \in Nat
    BY DEF Sequence
  <2> QED BY <2>1
<1>2. x \in T
  OBVIOUS
<1> HIDE DEF T
<1>3. Append(s, x) \in Seq(T)
  BY <1>1, <1>2
<1>4. Sequence(Append(s, x))
  BY <1>3, SequenceOf
<1>5. Len(Append(s, x)) = Len(s) + 1 /\ Append(s, x)[Len(s) + 1] = x
  BY <1>1, <1>2
<1>6. \A i \in 1 .. Len(s) : Append(s, x)[i] = s[i]
  BY <1>1, <1>2
<1> QED BY <1>4, <1>5, <1>6

(* What is left without the last element.                                  *)
LEMMA Fronted ==
  ASSUME NEW s, Sequence(s), s # <<>>
  PROVE  /\ Sequence(Front(s)) /\ Len(Front(s)) = Len(s) - 1 /\ Len(s) \in Nat /\ Len(s) > 0
         /\ \A i \in 1 .. Len(s) - 1 : Front(s)[i] = s[i]
<1> DEFINE T == {s[i] : i \in DOMAIN s}
<1>1. s \in Seq(T)
  BY DEF Sequence
<1> HIDE DEF T
<1>2. Len(s) \in Nat /\ Len(s) > 0
  BY <1>1
<1>3. \A i \in 1 .. Len(s) - 1 : s[i] \in T
  BY <1>1
<1>4. /\ Front(s) \in Seq(T) /\ \A i \in 1 .. Len(s) - 1 : Front(s)[i] = s[i]
      /\ Len(Front(s)) = IF 1 <= Len(s) - 1 THEN Len(s) - 1 ELSE 0
  BY <1>2, <1>3, SubSeqProperties DEF Front
<1>5. Len(Front(s)) = Len(s) - 1
  <2>1. CASE 1 <= Len(s) - 1
    BY <1>4, <2>1
  <2>2. CASE ~(1 <= Len(s) - 1)
    <3>1. \A n \in Nat : n > 0 /\ ~(1 <= n - 1) => n = 1
      OBVIOUS
    <3>2. Len(s) = 1
      BY <3>1, <1>2, <2>2
    <3> QED BY <3>2, <1>4
  <2> QED BY <2>1, <2>2
<1>6. Sequence(Front(s))
  BY <1>4, SequenceOf
<1> QED BY <1>2, <1>4, <1>5, <1>6

(* What two more elements do.                                              *)
LEMMA Extended ==
  ASSUME NEW s, Sequence(s), NEW x, NEW y
  PROVE  /\ s \o <<x, y>> = Append(Append(s, x), y)
<1> DEFINE T == {s[i] : i \in DOMAIN s} \cup {x, y}
<1>1. s \in Seq(T)
  <2>1. s \in [1 .. Len(s) -> T] /\ Len(s) \in Nat
    BY DEF Sequence
  <2> QED BY <2>1
<1>2. x \in T /\ y \in T
  OBVIOUS
<1> HIDE DEF T
<1> QED BY <1>1, <1>2

(* What is left without an element within.                                 *)
LEMMA Removed ==
  ASSUME NEW s, Sequence(s), NEW i \in 1 .. Len(s)
  PROVE  /\ Sequence(RemoveAt(s, i)) /\ Len(RemoveAt(s, i)) = Len(s) - 1 /\ Len(s) \in Nat
         /\ \A j \in 1 .. Len(s) - 1 : /\ j < i => RemoveAt(s, i)[j] = s[j]
                                       /\ j >= i => RemoveAt(s, i)[j] = s[j + 1]
<1> DEFINE T == {s[k] : k \in DOMAIN s}
<1>1. s \in Seq(T)
  BY DEF Sequence
<1> HIDE DEF T
<1> DEFINE u == SubSeq(s, 1, i - 1)
           v == SubSeq(s, i + 1, Len(s))
<1>2. /\ u \in Seq(T) /\ Len(u) = i - 1 /\ \A j \in 1 .. i - 1 : u[j] = s[j]
  BY <1>1
<1>3. /\ v \in Seq(T) /\ Len(v) = Len(s) - i /\ \A j \in 1 .. Len(s) - i : v[j] = s[i + j]
  BY <1>1
<1>4. RemoveAt(s, i) = u \o v
  BY DEF RemoveAt
<1> HIDE DEF u, v
<1>5. u \o v \in Seq(T) /\ Len(u \o v) = Len(s) - 1
  BY <1>1, <1>2, <1>3
<1>6. ASSUME NEW j \in 1 .. Len(s) - 1, j < i
      PROVE  (u \o v)[j] = s[j]
  <2>1. (u \o v)[j] = u[j]
    BY <1>1, <1>2, <1>3, <1>6
  <2> QED BY <2>1, <1>2, <1>6
<1>7. ASSUME NEW j \in 1 .. Len(s) - 1, j >= i
      PROVE  (u \o v)[j] = s[j + 1]
  <2>1. (u \o v)[j] = v[j - (i - 1)] /\ j - (i - 1) \in 1 .. Len(s) - i
    BY <1>1, <1>2, <1>3, <1>7
  <2>2. v[j - (i - 1)] = s[i + (j - (i - 1))] /\ i + (j - (i - 1)) = j + 1
    BY <2>1, <1>1, <1>3
  <2> QED BY <2>1, <2>2
<1> QED BY <1>1, <1>4, <1>5, <1>6, <1>7, SequenceOf

-----------------------------------------------------------------------------
(* A serial number stays one when more modules have been initialised.      *)
LEMMA Grows ==
  ASSUME NEW l \in Nat, NEW m \in Nat, l <= m
  PROVE  /\ \A v : ReadyValue(v, l) => ReadyValue(v, m)
         /\ \A slots, from : Has(slots, from, l) => Has(slots, from, m)
<1>1. 1 .. l \subseteq 1 .. m
  OBVIOUS
<1>2. ASSUME NEW v, ReadyValue(v, l)
      PROVE  ReadyValue(v, m)
  BY <1>1, <1>2 DEF ReadyValue
<1>3. ASSUME NEW slots, NEW from, Has(slots, from, l)
      PROVE  Has(slots, from, m)
  BY <1>1, <1>3 DEF Has
<1> QED BY <1>2, <1>3

(* A frame depends on those below it.                                      *)
LEMMA FrameKept ==
  ASSUME NEW s, NEW q, NEW i \in Nat, NEW l \in Nat, NEW m \in Nat, l <= m, i > 0,
         \A j \in 1 .. i : FrameInv(s, j, l) /\ q[j] = s[j]
  PROVE  FrameInv(q, i, m)
<1>1. FrameInv(s, i, l) /\ q[i] = s[i]
  OBVIOUS
<1>2. CASE i = 1
  BY <1>1, <1>2 DEF FrameInv
<1>3. CASE i > 1
  <2>1. i - 1 \in 1 .. i
    BY <1>3
  <2>2. FrameInv(s, i - 1, l) /\ q[i - 1] = s[i - 1]
    BY <2>1
  <2>3. CASE s[i].kind = "module"
    <3>1. s[i].name \in Name /\ s[i - 1].kind = "import" /\ s[i].name = Wanted(s, i - 1)
      BY <1>1, <1>3, <2>3 DEF FrameInv
    <3>2. i - 1 > 1
      BY <2>2, <3>1 DEF FrameInv
    <3>3. i - 1 - 1 \in 1 .. i
      BY <3>2
    <3>4. q[i - 1 - 1] = s[i - 1 - 1]
      BY <3>3
    <3>5. Wanted(q, i - 1) = Wanted(s, i - 1)
      BY <2>2, <3>4 DEF Wanted
    <3> QED BY <1>1, <2>2, <2>3, <3>1, <3>5 DEF FrameInv
  <2>4. CASE s[i].kind = "code"
    BY <1>1, <2>2, <2>4 DEF FrameInv
  <2>5. CASE s[i].kind = "import"
    <3>1. Has(s[i - 1].slots, s[i].index + 1, m)
      BY <1>1, <2>5, Grows DEF FrameInv
    <3> QED BY <1>1, <2>2, <2>5, <3>1 DEF FrameInv
  <2> QED BY <1>1, <2>3, <2>4, <2>5 DEF FrameInv
<1> QED BY <1>2, <1>3

(* The lower part of a stack.                                              *)
LEMMA StackPrefix ==
  ASSUME NEW s, NEW q, NEW l \in Nat, NEW m \in Nat, l <= m,
         StackInv(s, l), Sequence(q), Len(s) \in Nat, Len(q) \in Nat, Len(q) <= Len(s),
         \A j \in 1 .. Len(q) : q[j] = s[j]
  PROVE  StackInv(q, m)
<1> SUFFICES ASSUME NEW i \in 1 .. Len(q)
             PROVE  FrameInv(q, i, m)
  BY DEF StackInv
<1>1. \A j \in 1 .. i : FrameInv(s, j, l) /\ q[j] = s[j]
  <2>1. \A j \in 1 .. i : j \in 1 .. Len(q) /\ j \in 1 .. Len(s)
    OBVIOUS
  <2> QED BY <2>1 DEF StackInv
<1>2. i \in Nat /\ i > 0
  OBVIOUS
<1> QED BY <1>1, <1>2, FrameKept

(* One more frame.                                                         *)
LEMMA Pushed ==
  ASSUME NEW s, NEW f, NEW l \in Nat, StackInv(s, l), FrameInv(Append(s, f), Len(s) + 1, l)
  PROVE  StackInv(Append(s, f), l)
<1> DEFINE q == Append(s, f)
<1>1. /\ Sequence(q) /\ Len(q) = Len(s) + 1 /\ Len(s) \in Nat
      /\ \A i \in 1 .. Len(s) : q[i] = s[i]
  <2>1. Sequence(s)
    BY DEF StackInv
  <2>2. Len(s) \in Nat
    BY <2>1, SequenceOf DEF Sequence
  <2> QED BY <2>1, <2>2, Appended
<1> HIDE DEF q
<1>2. FrameInv(q, Len(q), l)
  BY <1>1 DEF q
<1>3. ASSUME NEW i \in 1 .. Len(s)
      PROVE  FrameInv(q, i, l)
  <2>1. \A j \in 1 .. i : FrameInv(s, j, l) /\ q[j] = s[j]
    <3>1. \A j \in 1 .. i : j \in 1 .. Len(s)
      BY <1>1
    <3> QED BY <1>1, <3>1 DEF StackInv
  <2>2. i \in Nat /\ i > 0 /\ l <= l
    OBVIOUS
  <2> QED BY <2>1, <2>2, FrameKept
<1>4. \A i \in 1 .. Len(q) : FrameInv(q, i, l)
  BY <1>1, <1>2, <1>3
<1> QED BY <1>1, <1>4 DEF StackInv, q

-----------------------------------------------------------------------------
(* The imports of a module are modules above it.                           *)
LEMMA ImportsAbove ==
  ASSUME NEW name \in Name
  PROVE  /\ Len(Imports[name]) \in Nat /\ DOMAIN Imports[name] = 1 .. Len(Imports[name])
         /\ Imports[name] \in Seq(Name)
         /\ \A k \in 1 .. Len(Imports[name]) : Imports[name][k] \in Name /\ Imports[name][k] > name
<1>1. name = 1 \/ name = 2 \/ name = 3 \/ name = 4
  BY DEF Name
<1>2. CASE name = 1
  BY <1>2 DEF Imports, Name
<1>3. CASE name = 2
  BY <1>3 DEF Imports, Name
<1>4. CASE name = 3
  BY <1>4 DEF Imports, Name
<1>5. CASE name = 4
  BY <1>5 DEF Imports, Name
<1> QED BY <1>1, <1>2, <1>3, <1>4, <1>5

(* A stack has its length.                                                 *)
LEMMA Stacked ==
  ASSUME NEW s, NEW l, StackInv(s, l)
  PROVE  /\ Sequence(s) /\ Len(s) \in Nat /\ DOMAIN s = 1 .. Len(s)
         /\ s = <<>> <=> Len(s) = 0
         /\ \A i \in 1 .. Len(s) : FrameInv(s, i, l)
         /\ Last(s) = s[Len(s)]
<1>1. Sequence(s)
  BY DEF StackInv
<1>2. Len(s) \in Nat /\ DOMAIN s = 1 .. Len(s)
  BY <1>1, SequenceOf DEF Sequence
<1>3. s = <<>> <=> Len(s) = 0
  BY <1>1 DEF Sequence
<1> QED BY <1>1, <1>2, <1>3 DEF StackInv, Last

NamedSlots(name) == [i \in DOMAIN Imports[name] |-> Named(Imports[name][i])]

(* The slots of a module that is about to be initialised.                  *)
LEMMA NamedSlotsFor ==
  ASSUME NEW name \in Name
  PROVE  SlotsFor(name, NamedSlots(name))
<1>1. /\ Len(Imports[name]) \in Nat /\ DOMAIN Imports[name] = 1 .. Len(Imports[name])
  BY ImportsAbove
<1>2. NamedSlots(name) = [i \in 1 .. Len(Imports[name]) |-> Named(Imports[name][i])]
  BY <1>1 DEF NamedSlots
<1>3. NamedSlots(name) \in Seq({Named(Imports[name][i]) : i \in 1 .. Len(Imports[name])})
  BY <1>1, <1>2
<1>4. Sequence(NamedSlots(name))
  BY <1>3, SequenceOf
<1>5. Len(NamedSlots(name)) = Len(Imports[name])
  BY <1>1, <1>2
<1>6. \A k \in 1 .. Len(NamedSlots(name)) : NamedSlots(name)[k].name = Imports[name][k]
  BY <1>1, <1>2, <1>5 DEF Named
<1> QED BY <1>4, <1>5, <1>6 DEF SlotsFor

(* The frames for a module.                                                *)
LEMMA StackPrepared ==
  ASSUME NEW s, NEW l \in Nat, NEW name \in Name, StackInv(s, l),
         Len(s) > 0 => s[Len(s)].kind = "import" /\ name = Wanted(s, Len(s))
  PROVE  LET q == s \o <<ModuleFrame(name), Code(name, NamedSlots(name))>> IN
         /\ StackInv(q, l) /\ Len(q) = Len(s) + 2
         /\ q[Len(s) + 1] = ModuleFrame(name)
         /\ q[Len(s) + 2] = Code(name, NamedSlots(name))
         /\ \A i \in 1 .. Len(s) : q[i] = s[i]
<1> DEFINE p == Append(s, ModuleFrame(name))
           q == Append(p, Code(name, NamedSlots(name)))
<1>1. Len(s) \in Nat /\ Sequence(s)
  BY Stacked
<1>2. s \o <<ModuleFrame(name), Code(name, NamedSlots(name))>> = q
  BY <1>1, Extended
<1>3. /\ Sequence(p) /\ Len(p) = Len(s) + 1 /\ p[Len(s) + 1] = ModuleFrame(name)
      /\ \A i \in 1 .. Len(s) : p[i] = s[i]
  BY <1>1, Appended
<1>4. FrameInv(p, Len(s) + 1, l)
  <2>1. p[Len(s) + 1].kind = "module" /\ p[Len(s) + 1].name = name
    BY <1>3 DEF ModuleFrame
  <2>2. ASSUME Len(s) + 1 > 1
        PROVE  p[Len(s)].kind = "import" /\ name = Wanted(p, Len(s))
    <3>1. Len(s) > 0 /\ Len(s) \in 1 .. Len(s)
      BY <1>1, <2>2
    <3>2. s[Len(s)].kind = "import" /\ name = Wanted(s, Len(s)) /\ p[Len(s)] = s[Len(s)]
      BY <1>3, <3>1
    <3>3. FrameInv(s, Len(s), l)
      BY <3>1 DEF StackInv
    <3>4. Len(s) > 1
      BY <3>2, <3>3 DEF FrameInv
    <3>5. Len(s) - 1 \in 1 .. Len(s)
      BY <1>1, <3>4
    <3>6. p[Len(s) - 1] = s[Len(s) - 1]
      BY <1>3, <3>5
    <3> QED BY <3>2, <3>6 DEF Wanted
  <2>3. Len(s) + 1 - 1 = Len(s)
    BY <1>1
  <2> HIDE DEF p
  <2>4. Len(s) + 1 > 1 => p[Len(s) + 1 - 1].kind = "import" /\ name = Wanted(p, Len(s) + 1 - 1)
    BY <2>2, <2>3
  <2>5. Len(s) + 1 > 1 => p[Len(s) + 1 - 1].kind = "import"
                          /\ p[Len(s) + 1].name = Wanted(p, Len(s) + 1 - 1)
    BY <2>1, <2>4
  <2>6. p[Len(s) + 1].kind = "module" /\ p[Len(s) + 1].name \in Name
    BY <2>1
  <2> QED BY <2>5, <2>6 DEF FrameInv
<1>5. StackInv(p, l)
  BY <1>4, Pushed
<1>6. /\ Len(q) = Len(p) + 1 /\ q[Len(p) + 1] = Code(name, NamedSlots(name))
      /\ \A i \in 1 .. Len(p) : q[i] = p[i]
  BY <1>3, Appended
<1>7. FrameInv(q, Len(p) + 1, l)
  <2>1. /\ q[Len(p) + 1].kind = "code" /\ q[Len(p) + 1].name = name
        /\ q[Len(p) + 1].slots = NamedSlots(name)
    BY <1>6 DEF Code
  <2>2. Len(p) + 1 - 1 = Len(p) /\ Len(p) \in 1 .. Len(p) /\ Len(p) + 1 > 1
    BY <1>1, <1>3
  <2>3. q[Len(p)] = ModuleFrame(name)
    BY <1>3, <1>6, <2>2
  <2>4. q[Len(p)].kind = "module" /\ q[Len(p)].name = name
    BY <2>3 DEF ModuleFrame
  <2>5. SlotsFor(name, NamedSlots(name))
    BY NamedSlotsFor
  <2> QED BY <1>6, <2>1, <2>2, <2>4, <2>5 DEF FrameInv
<1>8. StackInv(q, l)
  BY <1>5, <1>7, Pushed
<1>9. Len(p) + 1 = Len(s) + 2 /\ Len(s) + 1 \in 1 .. Len(p)
      /\ \A i \in 1 .. Len(s) : i \in 1 .. Len(p)
  BY <1>1, <1>3
<1> HIDE DEF p, q
<1> QED BY <1>2, <1>3, <1>6, <1>8, <1>9

(* The frame that waits for an import.                                     *)
LEMMA StackImport ==
  ASSUME NEW s, NEW l \in Nat, NEW i \in Nat, StackInv(s, l), Len(s) > 0,
         s[Len(s)].kind = "code", i \in 1 .. Len(s[Len(s)].slots), Has(s[Len(s)].slots, i + 1, l)
  PROVE  LET q == Append(s, ImportFrame(i)) IN
         /\ StackInv(q, l) /\ Len(q) = Len(s) + 1 /\ q[Len(q)].kind = "import"
         /\ Wanted(q, Len(q)) = Imports[s[Len(s)].name][i]
         /\ \A j \in 1 .. Len(s) : q[j] = s[j]
<1> DEFINE q == Append(s, ImportFrame(i))
<1>1. Len(s) \in Nat /\ Sequence(s)
  BY Stacked
<1>2. /\ Len(q) = Len(s) + 1 /\ q[Len(s) + 1] = ImportFrame(i)
      /\ \A j \in 1 .. Len(s) : q[j] = s[j]
  BY <1>1, Appended
<1> HIDE DEF q
<1>3. /\ q[Len(s) + 1].kind = "import" /\ q[Len(s) + 1].index = i
      /\ Len(s) + 1 > 1 /\ Len(s) + 1 - 1 = Len(s) /\ q[Len(s)] = s[Len(s)]
  BY <1>1, <1>2 DEF ImportFrame
<1>4. FrameInv(q, Len(s) + 1, l)
  <2>1. q[Len(s)].kind = "code" /\ i \in 1 .. Len(q[Len(s)].slots) /\ Has(q[Len(s)].slots, i + 1, l)
    BY <1>3
  <2>2. q[Len(s) + 1 - 1].kind = "code" /\ i \in 1 .. Len(q[Len(s) + 1 - 1].slots)
        /\ Has(q[Len(s) + 1 - 1].slots, i + 1, l)
    BY <1>3, <2>1
  <2> QED BY <1>3, <2>2 DEF FrameInv
<1>5. StackInv(q, l)
  BY <1>4, Pushed DEF q
<1>6. Wanted(q, Len(q)) = Imports[s[Len(s)].name][i]
  BY <1>2, <1>3 DEF Wanted
<1> QED BY <1>2, <1>3, <1>5, <1>6 DEF q

(* An import frame is above the frame of the code that it waits for.       *)
LEMMA ImportTop ==
  ASSUME NEW s, NEW l \in Nat, StackInv(s, l), Len(s) > 0, s[Len(s)].kind = "import"
  PROVE  LET n == Len(s) - 1  c == s[n]  i == s[Len(s)].index IN
         /\ n \in 1 .. Len(s) /\ n > 1
         /\ c = Code(c.name, c.slots) /\ c.kind = "code" /\ c.name \in Name
         /\ SlotsFor(c.name, c.slots) /\ i \in 1 .. Len(c.slots) /\ Has(c.slots, i + 1, l)
         /\ s[n - 1].kind = "module" /\ s[n - 1].name = c.name
<1> DEFINE n == Len(s) - 1
<1>1. Len(s) \in Nat /\ Len(s) \in 1 .. Len(s)
  BY Stacked
<1>2. FrameInv(s, Len(s), l)
  BY <1>1 DEF StackInv
<1>3. /\ Len(s) > 1 /\ s[n].kind = "code" /\ s[Len(s)].index \in 1 .. Len(s[n].slots)
      /\ Has(s[n].slots, s[Len(s)].index + 1, l)
  BY <1>2 DEF FrameInv
<1>4. n \in 1 .. Len(s)
  BY <1>1, <1>3
<1>5. FrameInv(s, n, l)
  BY <1>4 DEF StackInv
<1>6. /\ n > 1 /\ s[n - 1].kind = "module" /\ s[n] = Code(s[n - 1].name, s[n].slots)
      /\ SlotsFor(s[n].name, s[n].slots)
  BY <1>3, <1>5 DEF FrameInv
<1>7. s[n].name = s[n - 1].name
  BY <1>6 DEF Code
<1>8. n - 1 \in 1 .. Len(s)
  BY <1>1, <1>4, <1>6
<1>9. FrameInv(s, n - 1, l)
  BY <1>8 DEF StackInv
<1>10. s[n - 1].name \in Name
  BY <1>6, <1>9 DEF FrameInv
<1> QED BY <1>3, <1>4, <1>6, <1>7, <1>10

(* The frame of the code without the values of its slots.                  *)
StoredIn(s, arg) ==
  [Front(s) EXCEPT ![Len(s) - 1].slots[s[Len(s)].index] = arg]

(* The value in its slot.                                                  *)
LEMMA StackStored ==
  ASSUME NEW s, NEW l \in Nat, NEW arg, StackInv(s, l), Len(s) > 0, s[Len(s)].kind = "import",
         arg.name = Wanted(s, Len(s)), arg.serial \in 1 .. l
  PROVE  LET q == StoredIn(s, arg)  n == Len(s) - 1  i == s[Len(s)].index IN
         /\ StackInv(q, l) /\ Len(q) = n /\ n > 1
         /\ q[n].kind = "code" /\ q[n].name = s[n].name /\ q[n].name \in Name
         /\ SlotsFor(q[n].name, q[n].slots) /\ i \in 1 .. Len(q[n].slots) /\ Has(q[n].slots, i, l)
         /\ \A j \in 1 .. n - 1 : q[j] = s[j]
<1> DEFINE n == Len(s) - 1
           c == s[n]
           i == s[Len(s)].index
           slots == [c.slots EXCEPT ![i] = arg]
           f == Front(s)
           q == StoredIn(s, arg)
<1>1. Len(s) \in Nat /\ Sequence(s) /\ s # <<>>
  BY Stacked
<1>2. /\ n \in 1 .. Len(s) /\ n > 1 /\ c = Code(c.name, c.slots) /\ c.kind = "code" /\ c.name \in Name
      /\ SlotsFor(c.name, c.slots) /\ i \in 1 .. Len(c.slots) /\ Has(c.slots, i + 1, l)
      /\ s[n - 1].kind = "module" /\ s[n - 1].name = c.name
  BY ImportTop
<1>3. Sequence(f) /\ Len(f) = n /\ \A j \in 1 .. n : f[j] = s[j]
  BY <1>1, Fronted
<1>4. DOMAIN f = 1 .. n /\ f \in Seq({f[j] : j \in DOMAIN f}) /\ f[n] = c /\ n \in Nat
  <2>1. n \in Nat /\ n \in 1 .. n
    BY <1>1, <1>2
  <2>2. f \in Seq({f[j] : j \in DOMAIN f})
    BY <1>3 DEF Sequence
  <2>3. DOMAIN f = 1 .. n
    BY <1>3, <2>2, SequenceOf
  <2> QED BY <1>3, <2>1, <2>2, <2>3
<1>5. q = [f EXCEPT ![n] = Code(c.name, slots)]
  <2>1. [f[n] EXCEPT !.slots[i] = arg] = Code(c.name, slots)
    <3>1. f[n] = Code(c.name, c.slots)
      BY <1>2, <1>4
    <3>2. [Code(c.name, c.slots) EXCEPT !.slots[i] = arg] = Code(c.name, slots)
      BY DEF Code
    <3> HIDE DEF f, c, n, i
    <3> QED BY <3>1, <3>2
  <2> QED BY <2>1, <1>4 DEF StoredIn
<1>6. Sequence(c.slots) /\ Len(c.slots) = Len(Imports[c.name]) /\ Len(c.slots) \in Nat
      /\ \A k \in 1 .. Len(c.slots) : c.slots[k].name = Imports[c.name][k]
  BY <1>2, SequenceOf DEF SlotsFor, Sequence
<1>7. /\ Sequence(slots) /\ Len(slots) = Len(c.slots) /\ slots[i] = arg
      /\ \A k \in 1 .. Len(c.slots) : k # i => slots[k] = c.slots[k]
  <2> DEFINE T == {c.slots[k] : k \in DOMAIN c.slots} \cup {arg}
  <2>1. c.slots \in Seq(T)
    <3>1. c.slots \in [1 .. Len(c.slots) -> T] /\ Len(c.slots) \in Nat
      BY <1>6 DEF Sequence
    <3> QED BY <3>1
  <2>2. arg \in T
    OBVIOUS
  <2> HIDE DEF T
  <2>3. slots \in Seq(T)
    BY <1>2, <1>6, <2>1, <2>2
  <2>4. Len(slots) = Len(c.slots) /\ slots[i] = arg
        /\ \A k \in 1 .. Len(c.slots) : k # i => slots[k] = c.slots[k]
    BY <1>2, <1>6, <2>1
  <2>5. Sequence(slots)
    BY <2>3, SequenceOf
  <2> QED BY <2>4, <2>5
<1>8. arg.name = Imports[c.name][i]
  BY DEF Wanted
<1>9. SlotsFor(c.name, slots)
  BY <1>2, <1>6, <1>7, <1>8 DEF SlotsFor
<1>10. Has(slots, i, l)
  <2> SUFFICES ASSUME NEW k \in i .. Len(slots)
               PROVE  slots[k].serial \in 1 .. l
    BY DEF Has
  <2>1. CASE k = i
    BY <1>7, <2>1
  <2>2. CASE k # i
    <3>1. k \in i + 1 .. Len(c.slots) /\ k \in 1 .. Len(c.slots)
      BY <1>2, <1>6, <1>7, <2>2
    <3> QED BY <1>2, <1>7, <2>2, <3>1 DEF Has
  <2> QED BY <2>1, <2>2
<1> HIDE DEF slots
<1>11. /\ Sequence(q) /\ Len(q) = n /\ q[n] = Code(c.name, slots)
       /\ \A j \in 1 .. n - 1 : q[j] = f[j]
  <2> DEFINE T == {f[k] : k \in DOMAIN f} \cup {Code(c.name, slots)}
  <2>1. f \in Seq(T)
    <3>1. f \in [1 .. Len(f) -> T] /\ Len(f) \in Nat
      BY <1>3, <1>4
    <3> QED BY <3>1
  <2>2. Code(c.name, slots) \in T
    OBVIOUS
  <2> HIDE DEF T
  <2>3. q \in Seq(T) /\ Len(q) = n
    BY <1>2, <1>3, <1>4, <1>5, <2>1, <2>2
  <2>4. n \in DOMAIN f /\ \A j \in 1 .. n - 1 : j \in DOMAIN f /\ j # n
    BY <1>2, <1>4
  <2>5. q[n] = Code(c.name, slots) /\ \A j \in 1 .. n - 1 : q[j] = f[j]
    BY <1>5, <2>4
  <2>6. Sequence(q)
    BY <2>3, SequenceOf
  <2> QED BY <2>3, <2>5, <2>6
<1> HIDE DEF q, f
<1>12. q[n].kind = "code" /\ q[n].name = c.name /\ q[n].slots = slots
  BY <1>11 DEF Code
<1>13. \A j \in 1 .. n - 1 : q[j] = s[j]
  BY <1>2, <1>3, <1>11
<1>14. ASSUME NEW j \in 1 .. n
       PROVE  FrameInv(q, j, l)
  <2>1. CASE j = n
    <3>1. q[n - 1] = s[n - 1]
      BY <1>2, <1>13
    <3> QED BY <1>2, <1>9, <1>11, <1>12, <2>1, <3>1 DEF FrameInv
  <2>2. CASE j # n
    <3>1. j \in Nat /\ j > 0 /\ l <= l
      OBVIOUS
    <3>2. \A k \in 1 .. j : k \in 1 .. n - 1 /\ k \in 1 .. Len(s)
      BY <1>1, <1>4, <2>2
    <3>3. \A k \in 1 .. j : FrameInv(s, k, l) /\ q[k] = s[k]
      BY <1>13, <3>2 DEF StackInv
    <3> QED BY <3>1, <3>3, FrameKept
  <2> QED BY <2>1, <2>2
<1>15. StackInv(q, l)
  BY <1>11, <1>14 DEF StackInv
<1> QED BY <1>2, <1>7, <1>9, <1>10, <1>11, <1>12, <1>13, <1>15 DEF q

-----------------------------------------------------------------------------
(* What a thread has keeps its sense when more modules are initialised.    *)
LEMMA ThreadGrows ==
  ASSUME NEW l \in Nat, NEW m \in Nat, l <= m, NEW thread, ThreadInv(thread, l)
  PROVE  ThreadInv(thread, m)
<1> DEFINE s == thread.stack
           does == thread.does
           arg == thread.arg
<1>1. StackInv(s, l) /\ DoesInv(s, does, arg, l)
  BY DEF ThreadInv
<1> HIDE DEF s, does, arg
<1>2. Sequence(s) /\ Len(s) \in Nat
  BY <1>1, Stacked
<1>3. StackInv(s, m)
  <2>1. Len(s) <= Len(s) /\ \A j \in 1 .. Len(s) : s[j] = s[j]
    BY <1>2
  <2> QED BY <1>1, <1>2, <2>1, StackPrefix
<1>4. DoesInv(s, does, arg, m)
  BY <1>1, Grows DEF DoesInv
<1> QED BY <1>3, <1>4 DEF ThreadInv, s, does, arg

(* So have the entries of the hash.                                        *)
LEMMA HashGrows ==
  ASSUME NEW l \in Nat, NEW m \in Nat, l <= m, NEW entries, HashInv(entries, l)
  PROVE  HashInv(entries, m)
BY Grows DEF HashInv

(* A step of one thread.                                                   *)
LEMMA ThreadStep ==
  ASSUME LoadInv, NEW t \in MThreads, NEW stack, NEW does, NEW arg,
         Becomes(t, stack, does, arg), loads' \in Nat, loads <= loads',
         StackInv(stack, loads'), DoesInv(stack, does, arg, loads'), HashInv(moduleHash', loads')
  PROVE  LoadInv'
<1>1. /\ mthread' = [u \in MThreads |-> mthread'[u]]
      /\ mthread'[t] = [stack |-> stack, does |-> does, arg |-> arg]
      /\ \A u \in MThreads : u # t => mthread'[u] = mthread[u]
  BY DEF LoadInv, Becomes
<1>2. ASSUME NEW u \in MThreads
      PROVE  ThreadInv(mthread'[u], loads')
  <2>1. CASE u = t
    BY <1>1, <2>1 DEF ThreadInv
  <2>2. CASE u # t
    <3>1. ThreadInv(mthread[u], loads) /\ loads \in Nat
      BY DEF LoadInv
    <3>2. ThreadInv(mthread[u], loads')
      BY <3>1, ThreadGrows
    <3> QED BY <1>1, <2>2, <3>2
  <2> QED BY <2>1, <2>2
<1> QED BY <1>1, <1>2 DEF LoadInv

(* Every set of natural numbers has a least one.                           *)
LEMMA LeastNat ==
  ASSUME NEW T, T \subseteq Nat, T # {}
  PROVE  \E n \in T : \A m \in T : n <= m
<1> DEFINE R == StrictSubsetOrdering(Nat)
           F == {1 .. n : n \in T}
<1>1. IsWellFoundedOn(R, FiniteSubsetsOf(Nat))
  BY FS_StrictSubsetOrderingWellFounded
<1>2. F \subseteq FiniteSubsetsOf(Nat)
  <2> SUFFICES ASSUME NEW n \in T
               PROVE  1 .. n \in SUBSET Nat /\ IsFiniteSet(1 .. n)
    BY DEF FiniteSubsetsOf
  <2>1. n \in Int /\ 1 \in Int
    OBVIOUS
  <2> QED BY <2>1, FS_Interval
<1>3. F # {}
  OBVIOUS
<1>4. \E x \in F : \A y \in F : ~(<<y, x>> \in R)
  <2> HIDE DEF R, F
  <2> QED BY <1>1, <1>2, <1>3, WFMin
<1>5. PICK n \in T : \A m \in T : ~(<<1 .. m, 1 .. n>> \in R)
  BY <1>4
<1>6. \A m \in T : m < n => <<1 .. m, 1 .. n>> \in R
  <2> SUFFICES ASSUME NEW m \in T, m < n PROVE <<1 .. m, 1 .. n>> \in R
    OBVIOUS
  <2>1. m \in Nat /\ n \in Nat
    OBVIOUS
  <2>2. 1 .. m \subseteq 1 .. n
    BY <2>1
  <2>3. n \in 1 .. n /\ n \notin 1 .. m
    BY <2>1
  <2>4. 1 .. m # 1 .. n
    BY <2>3
  <2>5. 1 .. m \in SUBSET Nat /\ 1 .. n \in SUBSET Nat
    BY <2>1
  <2> QED BY <2>2, <2>4, <2>5 DEF StrictSubsetOrdering
<1>7. \A m \in T : n <= m
  <2> SUFFICES ASSUME NEW m \in T PROVE ~(m < n)
    OBVIOUS
  <2> HIDE DEF R
  <2> QED BY <1>5, <1>6
<1> QED BY <1>7

(* findModule finds an entry of the name.                                  *)
LEMMA FoundFirst ==
  ASSUME NEW name, Found(name), Sequence(moduleHash)
  PROVE  /\ First(name) \in 1 .. Len(moduleHash) /\ moduleHash[First(name)].name = name
         /\ Len(moduleHash) \in Nat
<1>1. Len(moduleHash) \in Nat /\ DOMAIN moduleHash = 1 .. Len(moduleHash)
  BY SequenceOf DEF Sequence
<1>2. Entries(name) \subseteq Nat /\ Entries(name) # {}
  BY <1>1 DEF Entries, Found
<1>3. \E i \in Entries(name) : \A j \in Entries(name) : i <= j
  BY <1>2, LeastNat
<1>4. First(name) \in Entries(name)
  BY <1>3 DEF First
<1> QED BY <1>1, <1>4 DEF Entries

(* The value of a module that has one.                                     *)
LEMMA FoundValue ==
  ASSUME NEW name, Found(name), HashInv(moduleHash, loads)
  PROVE  ReadyValue(Value(name), loads) /\ Value(name).name = name
BY FoundFirst DEF HashInv, Value

(* The value of a module, a module to be initialised or an exception: it   *)
(* is what the frame on top waits for.                                     *)
LEMMA LoadStep ==
  ASSUME LoadInv, NEW t \in MThreads, NEW stack, NEW name \in Name, StackInv(stack, loads),
         Len(stack) > 0 => stack[Len(stack)].kind = "import" /\ name = Wanted(stack, Len(stack)),
         LoadModule(t, stack, name), UNCHANGED <<moduleHash, loads>>
  PROVE  LoadInv'
<1>1. HashInv(moduleHash', loads') /\ loads' \in Nat /\ loads <= loads' /\ StackInv(stack, loads')
  BY DEF LoadInv
<1>2. CASE Found(name) /\ Becomes(t, stack, "return", Value(name))
  <2>1. ReadyValue(Value(name), loads') /\ Value(name).name = name
    BY <1>2, FoundValue DEF LoadInv
  <2>2. DoesInv(stack, "return", Value(name), loads')
    BY <2>1 DEF DoesInv
  <2> QED BY <1>1, <1>2, <2>2, ThreadStep
<1>3. CASE Becomes(t, stack, "init", [name |-> name, serial |-> 0])
  <2>1. DoesInv(stack, "init", [name |-> name, serial |-> 0], loads')
    BY DEF DoesInv
  <2> QED BY <1>1, <1>3, <2>1, ThreadStep
<1>4. CASE Becomes(t, stack, "throw", [name |-> name, serial |-> 0])
  <2>1. DoesInv(stack, "throw", [name |-> name, serial |-> 0], loads')
    BY DEF DoesInv
  <2> QED BY <1>1, <1>4, <2>1, ThreadStep
<1> QED BY <1>2, <1>3, <1>4 DEF LoadModule

-----------------------------------------------------------------------------
(* What a thread has.                                                      *)
LEMMA ThreadHas ==
  ASSUME LoadInv, NEW t \in MThreads
  PROVE  /\ StackInv(Stack(t), loads) /\ loads \in Nat /\ loads <= loads
         /\ DoesInv(Stack(t), mthread[t].does, mthread[t].arg, loads)
         /\ HashInv(moduleHash, loads)
         /\ Len(Stack(t)) \in Nat /\ (Stack(t) = <<>> <=> Len(Stack(t)) = 0)
         /\ Top(t) = Stack(t)[Len(Stack(t))]
<1>1. /\ StackInv(Stack(t), loads) /\ loads \in Nat
      /\ DoesInv(Stack(t), mthread[t].does, mthread[t].arg, loads)
      /\ HashInv(moduleHash, loads)
  BY DEF LoadInv, ThreadInv, Stack
<1> QED BY <1>1, Stacked DEF Top

(* An empty stack suits every thread that has not got a value.             *)
LEMMA EmptyStack ==
  ASSUME NEW l \in Nat
  PROVE  StackInv(<<>>, l) /\ Len(<<>>) = 0
<1>1. Sequence(<<>>) /\ Len(<<>>) = 0
  BY SequenceOf DEF Sequence
<1> QED BY <1>1 DEF StackInv

(* A thread begins.                                                        *)
LEMMA BeginStep ==
  ASSUME LoadInv, NEW t \in MThreads, NEW name \in Name,
         Main(t, name) \/ EntryPoints(t, name) \/ NativeMain(t, name)
  PROVE  LoadInv'
<1> DEFINE named == [name |-> name, serial |-> 0]
<1>1. StackInv(<<>>, loads) /\ Len(<<>>) = 0 /\ loads \in Nat /\ loads <= loads /\ HashInv(moduleHash, loads)
  BY EmptyStack, ThreadHas
<1>2. DoesInv(<<>>, "init", named, loads) /\ DoesInv(<<>>, "throw", named, loads)
      /\ DoesInv(<<>>, "return", Fail, loads)
  BY <1>1 DEF DoesInv
<1>3. loads' = loads /\ moduleHash' = moduleHash
  BY DEF Main, EntryPoints, NativeMain
<1>4. CASE LoadModule(t, <<>>, name)
  BY <1>1, <1>3, <1>4, LoadStep
<1>5. CASE Becomes(t, <<>>, "init", named)
  BY <1>1, <1>2, <1>3, <1>5, ThreadStep
<1>6. CASE Becomes(t, <<>>, "throw", named)
  BY <1>1, <1>2, <1>3, <1>6, ThreadStep
<1>7. CASE Becomes(t, <<>>, "return", Fail)
  BY <1>1, <1>2, <1>3, <1>7, ThreadStep
<1>8. Becomes(t, <<>>, "init", named) \/ Becomes(t, <<>>, "throw", named)
      \/ Becomes(t, <<>>, "return", Fail) \/ LoadModule(t, <<>>, name)
  BY DEF Main, EntryPoints, NativeMain
<1> QED BY <1>4, <1>5, <1>6, <1>7, <1>8

(* The frames of a module that is initialised.                             *)
LEMMA InitFrames ==
  ASSUME LoadInv, NEW t \in MThreads, Does(t, "init")
  PROVE  LET name == mthread[t].arg.name
             m == Len(Imports[name])
             p == Prepared(t, name)
             q == Append(p, ImportFrame(m))
         IN  /\ name \in Name /\ m \in Nat /\ (Imports[name] = <<>> <=> m = 0)
             /\ StackInv(p, loads) /\ Len(p) = Len(Stack(t)) + 2
             /\ p[Len(p)].kind = "code" /\ p[Len(Stack(t)) + 1] = ModuleFrame(name)
             /\ \A j \in 1 .. Len(Stack(t)) : p[j] = Stack(t)[j]
             /\ m = 0 => Has(p[Len(p)].slots, 1, loads)
             /\ m # 0 => /\ Last(Imports[name]) \in Name
                         /\ StackInv(q, loads) /\ Len(q) = Len(p) + 1
                         /\ q[Len(q)].kind = "import" /\ Last(Imports[name]) = Wanted(q, Len(q))
                         /\ \A j \in 1 .. Len(p) : q[j] = p[j]
<1> DEFINE name == mthread[t].arg.name
           m == Len(Imports[name])
           p == Prepared(t, name)
           q == Append(p, ImportFrame(m))
<1>1. /\ StackInv(Stack(t), loads) /\ loads \in Nat /\ Len(Stack(t)) \in Nat
      /\ DoesInv(Stack(t), "init", mthread[t].arg, loads)
  BY ThreadHas DEF Does
<1>2. /\ name \in Name
      /\ Len(Stack(t)) > 0 => /\ Stack(t)[Len(Stack(t))].kind = "import"
                              /\ name = Wanted(Stack(t), Len(Stack(t)))
  BY <1>1 DEF DoesInv
<1>3. /\ m \in Nat /\ Imports[name] \in Seq(Name)
      /\ \A k \in 1 .. m : Imports[name][k] \in Name
  BY <1>2, ImportsAbove
<1>4. SlotsFor(name, NamedSlots(name))
  BY <1>2, NamedSlotsFor
<1>5. p = Stack(t) \o <<ModuleFrame(name), Code(name, NamedSlots(name))>>
  BY DEF Prepared, NamedSlots
<1> HIDE DEF name
<1>6. /\ StackInv(p, loads) /\ Len(p) = Len(Stack(t)) + 2
      /\ p[Len(Stack(t)) + 2] = Code(name, NamedSlots(name))
      /\ p[Len(Stack(t)) + 1] = ModuleFrame(name) /\ \A j \in 1 .. Len(Stack(t)) : p[j] = Stack(t)[j]
  BY <1>1, <1>2, <1>5, StackPrepared
<1> HIDE DEF p
<1>7. p[Len(p)].kind = "code" /\ p[Len(p)].name = name /\ p[Len(p)].slots = NamedSlots(name)
      /\ Len(p[Len(p)].slots) = m
  BY <1>4, <1>6 DEF Code, SlotsFor
<1>8. ASSUME m = 0
      PROVE  Has(p[Len(p)].slots, 1, loads)
  BY <1>7, <1>8 DEF Has
<1>9. ASSUME m # 0
      PROVE  /\ Last(Imports[name]) \in Name
             /\ StackInv(q, loads) /\ Len(q) = Len(p) + 1
             /\ q[Len(q)].kind = "import" /\ Last(Imports[name]) = Wanted(q, Len(q))
             /\ \A j \in 1 .. Len(p) : q[j] = p[j]
  <2>1. m \in 1 .. m /\ Last(Imports[name]) = Imports[name][m]
    BY <1>3, <1>9 DEF Last
  <2>2. Has(p[Len(p)].slots, m + 1, loads)
    BY <1>3, <1>7 DEF Has
  <2>3. Len(p) > 0
    BY <1>1, <1>6
  <2>4. m \in 1 .. Len(p[Len(p)].slots)
    BY <1>7, <2>1
  <2>5. /\ StackInv(q, loads) /\ Len(q) = Len(p) + 1 /\ q[Len(q)].kind = "import"
        /\ Wanted(q, Len(q)) = Imports[p[Len(p)].name][m] /\ \A j \in 1 .. Len(p) : q[j] = p[j]
    <3> HIDE DEF m
    <3> QED BY <1>1, <1>3, <1>6, <1>7, <2>2, <2>3, <2>4, StackImport
  <2> QED BY <1>3, <1>7, <2>1, <2>5
<1>10. Imports[name] = <<>> <=> m = 0
  BY <1>3
<1> QED BY <1>2, <1>3, <1>6, <1>7, <1>8, <1>9, <1>10 DEF p, name

(* The module has a value by now, or its frames are pushed.                *)
LEMMA InitStep ==
  ASSUME LoadInv, NEW t \in MThreads, ModuleInit(t) \/ NativeInit(t)
  PROVE  LoadInv'
<1> DEFINE name == mthread[t].arg.name
           imports == Imports[name]
           p == Prepared(t, name)
           q == Append(p, ImportFrame(Len(imports)))
<1>1. Does(t, "init") /\ loads' = loads /\ moduleHash' = moduleHash
  BY DEF ModuleInit, NativeInit
<1>2. /\ StackInv(Stack(t), loads) /\ loads \in Nat /\ loads <= loads /\ HashInv(moduleHash, loads)
      /\ DoesInv(Stack(t), "init", mthread[t].arg, loads)
  BY <1>1, ThreadHas DEF Does
<1>3. /\ name \in Name /\ Len(imports) \in Nat /\ (imports = <<>> <=> Len(imports) = 0)
      /\ StackInv(p, loads) /\ p[Len(p)].kind = "code"
      /\ Len(imports) = 0 => Has(p[Len(p)].slots, 1, loads)
      /\ imports # <<>> => /\ Last(imports) \in Name /\ StackInv(q, loads)
                           /\ q[Len(q)].kind = "import" /\ Last(imports) = Wanted(q, Len(q))
  BY <1>1, InitFrames
<1>4. \/ Found(name) /\ Becomes(t, Stack(t), "return", Value(name))
      \/ imports = <<>> /\ Becomes(t, p, "return", Fail)
      \/ imports # <<>> /\ LoadModule(t, q, Last(imports))
      \/ imports # <<>> /\ Becomes(t, q, "init", Named(Last(imports)))
  BY DEF ModuleInit, NativeInit
<1> HIDE DEF name, imports, p, q
<1>5. CASE Found(name) /\ Becomes(t, Stack(t), "return", Value(name))
  <2>1. ReadyValue(Value(name), loads) /\ Value(name).name = name
    BY <1>2, <1>5, FoundValue
  <2>2. DoesInv(Stack(t), "return", Value(name), loads)
    BY <1>2, <2>1 DEF DoesInv, name
  <2> QED BY <1>1, <1>2, <1>5, <2>2, ThreadStep
<1>6. CASE imports = <<>> /\ Becomes(t, p, "return", Fail)
  <2>1. DoesInv(p, "return", Fail, loads)
    BY <1>3, <1>6 DEF DoesInv
  <2> QED BY <1>1, <1>2, <1>3, <1>6, <2>1, ThreadStep
<1>7. CASE imports # <<>> /\ LoadModule(t, q, Last(imports))
  BY <1>1, <1>3, <1>7, LoadStep
<1>8. CASE imports # <<>> /\ Becomes(t, q, "init", Named(Last(imports)))
  <2>1. DoesInv(q, "init", Named(Last(imports)), loads)
    BY <1>3, <1>8 DEF DoesInv, Named
  <2> QED BY <1>1, <1>2, <1>3, <1>8, <2>1, ThreadStep
<1> QED BY <1>4, <1>5, <1>6, <1>7, <1>8

(* An import has its value: so has the slot, and the next import or the    *)
(* code of the module is what comes next.                                  *)
LEMMA ImportStep ==
  ASSUME LoadInv, NEW t \in MThreads, Import(t) \/ NativeImport(t)
  PROVE  LoadInv'
<1> DEFINE s == Stack(t)
           n == Len(s) - 1
           i == Top(t).index
           arg == mthread[t].arg
           r == StoredIn(s, arg)
           q == Append(r, ImportFrame(i - 1))
           next == s[n].slots[i - 1]
<1>1. Does(t, "return") /\ TopIs(t, "import") /\ loads' = loads /\ moduleHash' = moduleHash
  BY DEF Import, NativeImport
<1>2. /\ StackInv(s, loads) /\ loads \in Nat /\ loads <= loads /\ HashInv(moduleHash, loads)
      /\ DoesInv(s, "return", arg, loads) /\ Len(s) \in Nat /\ (s = <<>> <=> Len(s) = 0)
      /\ Top(t) = s[Len(s)]
  BY <1>1, ThreadHas DEF Does
<1>3. Len(s) > 0 /\ s[Len(s)].kind = "import" /\ i = s[Len(s)].index
  BY <1>1, <1>2 DEF TopIs
<1>4. ReadyValue(arg, loads) /\ arg.name = Wanted(s, Len(s))
  BY <1>2, <1>3 DEF DoesInv
<1>5. Stored(t) = IF i = 1 THEN r ELSE q
  BY <1>3 DEF Stored, StoredIn
<1>6. \/ i = 1 /\ Becomes(t, Stored(t), "return", arg)
      \/ i # 1 /\ LoadModule(t, Stored(t), next.name)
      \/ i # 1 /\ Becomes(t, Stored(t), "init", next)
  BY DEF Import, NativeImport, NextImport
<1> HIDE DEF s, i, arg
<1>7. arg.serial \in 1 .. loads
  BY <1>4 DEF ReadyValue
<1>8. /\ StackInv(r, loads) /\ Len(r) = n /\ n > 1
      /\ r[n].kind = "code" /\ r[n].name = s[n].name /\ r[n].name \in Name
      /\ SlotsFor(r[n].name, r[n].slots) /\ i \in 1 .. Len(r[n].slots) /\ Has(r[n].slots, i, loads)
  BY <1>2, <1>3, <1>4, <1>7, StackStored
<1>9. SlotsFor(s[n].name, s[n].slots)
  BY <1>2, <1>3, ImportTop
<1> HIDE DEF r
<1>10. CASE i = 1
  <2>1. DoesInv(r, "return", arg, loads)
    BY <1>8, <1>10 DEF DoesInv
  <2> QED BY <1>1, <1>2, <1>5, <1>6, <1>8, <1>10, <2>1, ThreadStep
<1>11. CASE i # 1
  <2>1. i - 1 \in 1 .. Len(r[n].slots) /\ i - 1 + 1 = i /\ i - 1 \in Nat
    <3>1. Len(r[n].slots) \in Nat
      BY <1>8, SequenceOf DEF SlotsFor, Sequence
    <3> QED BY <1>8, <1>11, <3>1
  <2>2. /\ StackInv(q, loads) /\ q[Len(q)].kind = "import" /\ Wanted(q, Len(q)) = Imports[r[n].name][i - 1]
    <3>1. Len(r) > 0 /\ Has(r[Len(r)].slots, i - 1 + 1, loads)
      BY <1>2, <1>8, <2>1
    <3> QED BY <1>2, <1>8, <2>1, <3>1, StackImport
  <2>3. next.name = Imports[r[n].name][i - 1] /\ next.name \in Name
    <3>1. i - 1 \in 1 .. Len(s[n].slots) /\ i - 1 \in 1 .. Len(Imports[s[n].name])
      BY <1>8, <1>9, <2>1 DEF SlotsFor
    <3>2. next.name = Imports[s[n].name][i - 1]
      BY <1>9, <3>1 DEF SlotsFor
    <3> QED BY <1>8, <3>1, <3>2, ImportsAbove
  <2> HIDE DEF q, next
  <2>4. CASE LoadModule(t, q, next.name)
    BY <1>1, <2>2, <2>3, <2>4, LoadStep
  <2>5. CASE Becomes(t, q, "init", next)
    <3>1. DoesInv(q, "init", next, loads)
      BY <2>2, <2>3 DEF DoesInv
    <3> QED BY <1>1, <1>2, <2>2, <2>5, <3>1, ThreadStep
  <2> QED BY <1>5, <1>6, <1>11, <2>4, <2>5
<1> QED BY <1>10, <1>11

(* The code of a module runs when all of its imports have values.          *)
LEMMA RunStep ==
  ASSUME LoadInv, NEW t \in MThreads, Run(t)
  PROVE  LoadInv'
<1> DEFINE s == Stack(t)
           n == Len(s)
           f == Front(s)
           v == [name |-> Top(t).name, serial |-> loads + 1, slots |-> Top(t).slots]
<1>1. Does(t, "return") /\ TopIs(t, "code") /\ moduleHash' = moduleHash
  BY DEF Run
<1>2. /\ StackInv(s, loads) /\ loads \in Nat /\ loads <= loads /\ HashInv(moduleHash, loads)
      /\ DoesInv(s, "return", mthread[t].arg, loads) /\ n \in Nat /\ (s = <<>> <=> n = 0)
      /\ Top(t) = s[n]
  BY <1>1, ThreadHas DEF Does
<1>3. n > 0 /\ s[n].kind = "code" /\ n \in 1 .. n
  BY <1>1, <1>2 DEF TopIs
<1>4. Has(s[n].slots, 1, loads)
  BY <1>2, <1>3 DEF DoesInv
<1>5. /\ n > 1 /\ s[n - 1].kind = "module" /\ s[n] = Code(s[n - 1].name, s[n].slots)
      /\ SlotsFor(s[n].name, s[n].slots)
  <2>1. FrameInv(s, n, loads)
    BY <1>2, <1>3 DEF StackInv
  <2> QED BY <1>3, <2>1 DEF FrameInv
<1>6. s[n].name = s[n - 1].name /\ s[n].name \in Name
  <2>1. s[n].name = s[n - 1].name
    BY <1>5 DEF Code
  <2>2. n - 1 \in 1 .. n
    BY <1>2, <1>5
  <2>3. FrameInv(s, n - 1, loads)
    BY <1>2, <2>2 DEF StackInv
  <2> QED BY <1>5, <2>1, <2>3 DEF FrameInv
<1>7. CASE Becomes(t, f, "return", v) /\ loads' = loads + 1
  <2>1. loads' \in Nat /\ loads <= loads'
    BY <1>2, <1>7
  <2>2. HashInv(moduleHash', loads')
    BY <1>1, <1>2, <2>1, HashGrows
  <2>3. Sequence(f) /\ Len(f) = n - 1 /\ \A i \in 1 .. n - 1 : f[i] = s[i]
    <3>1. Sequence(s) /\ s # <<>>
      BY <1>2, <1>3 DEF StackInv
    <3> QED BY <3>1, Fronted
  <2> HIDE DEF s, f
  <2>4. StackInv(f, loads')
    <3>1. Len(f) \in Nat /\ Len(f) <= Len(s) /\ \A i \in 1 .. Len(f) : f[i] = s[i]
      BY <1>2, <1>3, <2>3
    <3> QED BY <1>2, <2>1, <2>3, <3>1, StackPrefix
  <2>5. ReadyValue(v, loads') /\ v.name = s[n].name
    <3>1. v.name = s[n].name /\ v.serial = loads + 1 /\ v.slots = s[n].slots
      BY <1>2
    <3>2. loads + 1 \in 1 .. loads' /\ loads + 1 - 1 = loads
      BY <1>2, <1>7
    <3> HIDE DEF v
    <3>3. \A k \in 1 .. Len(v.slots) : v.slots[k].serial \in 1 .. v.serial - 1
      <4>1. v.serial - 1 = loads
        BY <1>2, <3>1, <3>2
      <4>2. \A k \in 1 .. Len(s[n].slots) : s[n].slots[k].serial \in 1 .. loads
        BY <1>4 DEF Has
      <4> QED BY <3>1, <4>1, <4>2
    <3>4. v.name \in Name /\ v.serial \in 1 .. loads' /\ SlotsFor(v.name, v.slots)
      BY <1>5, <1>6, <3>1, <3>2
    <3> QED BY <3>1, <3>3, <3>4 DEF ReadyValue
  <2>6. f[Len(f)].kind = "module" /\ f[Len(f)].name = v.name
    <3>1. n - 1 \in 1 .. n - 1
      BY <1>2, <1>5
    <3> QED BY <1>5, <1>6, <2>3, <2>5, <3>1
  <2> HIDE DEF v
  <2>7. DoesInv(f, "return", v, loads')
    BY <2>5, <2>6 DEF DoesInv
  <2> QED BY <1>7, <2>1, <2>2, <2>4, <2>7, ThreadStep
<1>8. CASE Becomes(t, s, "throw", Fail) /\ loads' = loads
  <2>1. DoesInv(s, "throw", Fail, loads)
    BY DEF DoesInv
  <2> QED BY <1>1, <1>2, <1>8, <2>1, ThreadStep
<1> QED BY <1>7, <1>8 DEF Run

(* The value is entered; whoever waits below is an import frame.           *)
LEMMA EndStep ==
  ASSUME LoadInv, NEW t \in MThreads, ModuleEnd(t) \/ NativeEnd(t)
  PROVE  LoadInv'
<1> DEFINE s == Stack(t)
           n == Len(s)
           f == Front(s)
           arg == mthread[t].arg
           e == [name |-> Top(t).name, value |-> arg]
<1>1. /\ Does(t, "return") /\ TopIs(t, "module") /\ loads' = loads
      /\ moduleHash' = Append(moduleHash, e) /\ Becomes(t, f, "return", arg)
  BY DEF ModuleEnd, NativeEnd, Entered
<1>2. /\ StackInv(s, loads) /\ loads \in Nat /\ loads <= loads /\ HashInv(moduleHash, loads)
      /\ DoesInv(s, "return", arg, loads) /\ n \in Nat /\ (s = <<>> <=> n = 0)
      /\ Top(t) = s[n]
  BY <1>1, ThreadHas DEF Does
<1>3. n > 0 /\ s[n].kind = "module" /\ n \in 1 .. n
  BY <1>1, <1>2 DEF TopIs
<1>4. ReadyValue(arg, loads) /\ arg.name = s[n].name
  BY <1>2, <1>3 DEF DoesInv
<1>5. s[n].name \in Name /\ (n > 1 => s[n - 1].kind = "import" /\ s[n].name = Wanted(s, n - 1))
  <2>1. FrameInv(s, n, loads)
    BY <1>2, <1>3 DEF StackInv
  <2> QED BY <1>3, <2>1 DEF FrameInv
<1>6. e.name = s[n].name /\ e.value = arg
  BY <1>2
<1>7. Sequence(f) /\ Len(f) = n - 1 /\ \A i \in 1 .. n - 1 : f[i] = s[i]
  <2>1. Sequence(s) /\ s # <<>>
    BY <1>2, <1>3 DEF StackInv
  <2> QED BY <2>1, Fronted
<1> HIDE DEF s, f, arg, e
<1>8. StackInv(f, loads)
  <2>1. Len(f) \in Nat /\ Len(f) <= Len(s) /\ \A i \in 1 .. Len(f) : f[i] = s[i]
    BY <1>2, <1>3, <1>7
  <2> QED BY <1>2, <1>7, <2>1, StackPrefix
<1>9. DoesInv(f, "return", arg, loads)
  <2>1. ASSUME Len(f) > 0
        PROVE  f[Len(f)].kind = "import" /\ arg.name = Wanted(f, Len(f))
    <3>1. n > 1 /\ n - 1 \in 1 .. n - 1 /\ n - 1 \in 1 .. n
      BY <1>2, <1>7, <2>1
    <3>2. FrameInv(s, n - 1, loads)
      BY <1>2, <3>1 DEF StackInv
    <3>3. n - 1 > 1
      BY <1>5, <3>1, <3>2 DEF FrameInv
    <3>4. n - 1 - 1 \in 1 .. n - 1
      BY <1>2, <3>3
    <3>5. f[n - 1] = s[n - 1] /\ f[n - 1 - 1] = s[n - 1 - 1]
      BY <1>7, <3>1, <3>4
    <3>6. Wanted(f, n - 1) = Wanted(s, n - 1)
      BY <3>5 DEF Wanted
    <3> QED BY <1>4, <1>5, <1>7, <3>1, <3>5, <3>6
  <2> QED BY <1>4, <2>1 DEF DoesInv
<1>10. HashInv(moduleHash', loads)
  <2>1. Sequence(moduleHash) /\ Len(moduleHash) \in Nat
    BY <1>2, SequenceOf DEF HashInv, Sequence
  <2>2. /\ Sequence(moduleHash') /\ Len(moduleHash') = Len(moduleHash) + 1
        /\ moduleHash'[Len(moduleHash) + 1] = e
        /\ \A i \in 1 .. Len(moduleHash) : moduleHash'[i] = moduleHash[i]
    BY <1>1, <2>1, Appended
  <2>3. ASSUME NEW i \in 1 .. Len(moduleHash')
        PROVE  /\ moduleHash'[i].name \in Name /\ ReadyValue(moduleHash'[i].value, loads)
               /\ moduleHash'[i].value.name = moduleHash'[i].name
    <3>1. CASE i \in 1 .. Len(moduleHash)
      BY <1>2, <2>2, <3>1 DEF HashInv
    <3>2. CASE i \notin 1 .. Len(moduleHash)
      <4>1. i = Len(moduleHash) + 1
        BY <2>1, <2>2, <3>2
      <4> QED BY <1>4, <1>5, <1>6, <2>2, <4>1
    <3> QED BY <3>1, <3>2
  <2> QED BY <2>2, <2>3 DEF HashInv
<1> QED BY <1>1, <1>2, <1>8, <1>9, <1>10, ThreadStep

(* A thread ends.                                                          *)
LEMMA FinishStep ==
  ASSUME LoadInv, NEW t \in MThreads, Finish(t)
  PROVE  LoadInv'
<1>1. StackInv(<<>>, loads) /\ Len(<<>>) = 0 /\ loads \in Nat /\ loads <= loads /\ HashInv(moduleHash, loads)
  BY EmptyStack, ThreadHas
<1>2. DoesInv(<<>>, "idle", Fail, loads)
  BY <1>1 DEF DoesInv
<1>3. Becomes(t, <<>>, "idle", Fail) /\ loads' = loads /\ moduleHash' = moduleHash
  BY DEF Finish
<1> QED BY <1>1, <1>2, <1>3, ThreadStep

(* An entry is removed.                                                    *)
LEMMA UnloadStep ==
  ASSUME LoadInv, NEW t \in MThreads, NEW name \in Name, Unload(t, name)
  PROVE  LoadInv'
<1>1. /\ loads' = loads /\ mthread' = mthread /\ Found(name)
      /\ moduleHash' = RemoveAt(moduleHash, First(name))
  BY DEF Unload
<1>2. HashInv(moduleHash, loads) /\ Sequence(moduleHash)
  BY DEF LoadInv, HashInv
<1>3. First(name) \in 1 .. Len(moduleHash)
  BY <1>1, <1>2, FoundFirst
<1>4. /\ Sequence(moduleHash') /\ Len(moduleHash') = Len(moduleHash) - 1 /\ Len(moduleHash) \in Nat
      /\ \A j \in 1 .. Len(moduleHash) - 1 :
           /\ j < First(name) => moduleHash'[j] = moduleHash[j]
           /\ j >= First(name) => moduleHash'[j] = moduleHash[j + 1]
  <2> DEFINE i == First(name)
  <2> HIDE DEF i
  <2>1. Sequence(moduleHash) /\ i \in 1 .. Len(moduleHash) /\ moduleHash' = RemoveAt(moduleHash, i)
    BY <1>1, <1>2, <1>3 DEF i
  <2>2. /\ Sequence(RemoveAt(moduleHash, i)) /\ Len(RemoveAt(moduleHash, i)) = Len(moduleHash) - 1
        /\ Len(moduleHash) \in Nat
    BY <2>1, Removed
  <2>3. ASSUME NEW j \in 1 .. Len(moduleHash) - 1
        PROVE  /\ j < i => RemoveAt(moduleHash, i)[j] = moduleHash[j]
               /\ j >= i => RemoveAt(moduleHash, i)[j] = moduleHash[j + 1]
    BY <2>1, Removed
  <2> QED BY <2>1, <2>2, <2>3 DEF i
<1>5. HashInv(moduleHash', loads)
  <2>1. ASSUME NEW j \in 1 .. Len(moduleHash')
        PROVE  \E i \in 1 .. Len(moduleHash) : moduleHash'[j] = moduleHash[i]
    <3>1. /\ j \in 1 .. Len(moduleHash) - 1 /\ j \in 1 .. Len(moduleHash) /\ j + 1 \in 1 .. Len(moduleHash)
      BY <1>4
    <3>2. j < First(name) \/ j >= First(name)
      BY <1>3, <3>1
    <3> QED BY <1>4, <3>1, <3>2
  <2> QED BY <1>2, <1>4, <2>1 DEF HashInv
<1> QED BY <1>1, <1>5 DEF LoadInv

-----------------------------------------------------------------------------
(* Nothing has been loaded.                                                *)
Fresh ==
  /\ loads = 0 /\ moduleHash = <<>>
  /\ mthread = [t \in MThreads |-> [stack |-> <<>>, does |-> "idle", arg |-> Fail]]

(* Then the invariant holds.                                               *)
LEMMA LoadInit == Fresh => LoadInv
<1> SUFFICES ASSUME Fresh
             PROVE  LoadInv
  OBVIOUS
<1>1. loads = 0 /\ moduleHash = <<>>
      /\ mthread = [t \in MThreads |-> [stack |-> <<>>, does |-> "idle", arg |-> Fail]]
  BY DEF Fresh
<1>2. StackInv(<<>>, 0) /\ Len(<<>>) = 0
  BY EmptyStack
<1>3. DoesInv(<<>>, "idle", Fail, 0)
  BY <1>2 DEF DoesInv
<1>4. HashInv(<<>>, 0)
  BY <1>2 DEF HashInv, StackInv
<1>5. \A t \in MThreads : ThreadInv(mthread[t], 0)
  BY <1>1, <1>2, <1>3 DEF ThreadInv
<1>6. mthread = [t \in MThreads |-> mthread[t]]
  BY <1>1
<1> QED BY <1>1, <1>4, <1>5, <1>6 DEF LoadInv

(* It is inductive.                                                        *)
LEMMA LoadNext == LoadInv /\ [Next]_vars => LoadInv'
<1> SUFFICES ASSUME LoadInv, [Next]_vars
             PROVE  LoadInv'
  OBVIOUS
<1>1. CASE UNCHANGED vars
  BY <1>1 DEF vars, LoadInv
<1>2. ASSUME NEW t \in MThreads, NEW name \in Name,
             Main(t, name) \/ EntryPoints(t, name) \/ NativeMain(t, name) \/ Unload(t, name)
      PROVE  LoadInv'
  BY <1>2, BeginStep, UnloadStep
<1>3. ASSUME NEW t \in MThreads,
             \/ ModuleInit(t) \/ NativeInit(t) \/ Import(t) \/ NativeImport(t)
             \/ Run(t) \/ ModuleEnd(t) \/ NativeEnd(t) \/ Finish(t)
      PROVE  LoadInv'
  BY <1>3, InitStep, ImportStep, RunStep, EndStep, FinishStep
<1> QED BY <1>1, <1>2, <1>3 DEF Next

(* Every entry is that of a module whose imports had values before it.     *)
LEMMA LoadImports == LoadInv => ImportsReady
<1> SUFFICES ASSUME LoadInv, NEW i \in DOMAIN moduleHash
             PROVE  LET v == moduleHash[i].value
                    IN  /\ v.name = moduleHash[i].name
                        /\ Len(v.slots) = Len(Imports[v.name])
                        /\ \A k \in DOMAIN v.slots : /\ v.slots[k].name = Imports[v.name][k]
                                                     /\ v.slots[k].serial \in 1 .. v.serial - 1
  BY DEF ImportsReady
<1> DEFINE v == moduleHash[i].value
<1>1. HashInv(moduleHash, loads)
  BY DEF LoadInv
<1>2. i \in 1 .. Len(moduleHash)
  BY <1>1, SequenceOf DEF HashInv, Sequence
<1>3. ReadyValue(v, loads) /\ v.name = moduleHash[i].name
  BY <1>1, <1>2 DEF HashInv
<1> HIDE DEF v
<1>4. DOMAIN v.slots = 1 .. Len(v.slots)
  BY <1>3, SequenceOf DEF ReadyValue, SlotsFor, Sequence
<1> QED BY <1>3, <1>4 DEF ReadyValue, SlotsFor, v

-----------------------------------------------------------------------------
(* A stack with no other modules.                                          *)
LEMMA OnceModules ==
  ASSUME NEW s, NEW q, NEW entries, Once(s, entries), Len(s) \in Nat, Len(q) \in Nat,
         \A i \in 1 .. Len(q) : q[i].kind = "module" =>
            i <= Len(s) /\ s[i].kind = "module" /\ s[i].name = q[i].name
  PROVE  Once(q, entries)
<1> SUFFICES ASSUME NEW i \in 1 .. Len(q), q[i].kind = "module"
             PROVE  /\ \A k \in 1 .. Len(entries) : entries[k].name # q[i].name
                    /\ \A j \in 1 .. i - 1 : q[j].kind = "module" => q[j].name < q[i].name
  BY DEF Once
<1>1. i \in 1 .. Len(s) /\ s[i].kind = "module" /\ s[i].name = q[i].name
  OBVIOUS
<1>2. ASSUME NEW j \in 1 .. i - 1, q[j].kind = "module"
      PROVE  s[j].kind = "module" /\ s[j].name = q[j].name
  <2>1. j \in 1 .. Len(q)
    OBVIOUS
  <2> QED BY <1>2, <2>1
<1> QED BY <1>1, <1>2 DEF Once

(* The stack of the thread after its step.                                 *)
LEMMA StackBecomes ==
  ASSUME LoadInv, NEW t \in MThreads, NEW stack
  PROVE  /\ \A does, arg : Becomes(t, stack, does, arg) => mthread'[t].stack = stack
         /\ \A name : LoadModule(t, stack, name) => mthread'[t].stack = stack
<1>1. ASSUME NEW does, NEW arg, Becomes(t, stack, does, arg)
      PROVE  mthread'[t].stack = stack
  BY <1>1 DEF Becomes, LoadInv
<1>2. ASSUME NEW name, LoadModule(t, stack, name)
      PROVE  mthread'[t].stack = stack
  BY <1>1, <1>2 DEF LoadModule
<1> QED BY <1>1, <1>2

(* The module that is to be initialised comes after those on the stack.    *)
LEMMA OnceInit ==
  ASSUME LoadInv, NEW t \in MThreads, Once(Stack(t), moduleHash), ModuleInit(t) \/ NativeInit(t)
  PROVE  Once(mthread'[t].stack, moduleHash')
<1> DEFINE s == Stack(t)
           name == mthread[t].arg.name
           imports == Imports[name]
           p == Prepared(t, name)
           q == Append(p, ImportFrame(Len(imports)))
<1>1. Does(t, "init") /\ moduleHash' = moduleHash
  BY DEF ModuleInit, NativeInit
<1>2. /\ StackInv(s, loads) /\ loads \in Nat /\ Len(s) \in Nat /\ HashInv(moduleHash, loads)
      /\ DoesInv(s, "init", mthread[t].arg, loads)
  BY <1>1, ThreadHas DEF Does
<1>3. /\ name \in Name /\ (imports = <<>> <=> Len(imports) = 0)
      /\ Len(p) = Len(s) + 2 /\ p[Len(p)].kind = "code" /\ p[Len(s) + 1] = ModuleFrame(name)
      /\ \A j \in 1 .. Len(s) : p[j] = s[j]
      /\ imports # <<>> => /\ Len(q) = Len(p) + 1 /\ q[Len(q)].kind = "import"
                           /\ \A j \in 1 .. Len(p) : q[j] = p[j]
  BY <1>1, InitFrames
<1>4. \/ mthread'[t].stack = s
      \/ ~Found(name) /\ mthread'[t].stack = p
      \/ ~Found(name) /\ imports # <<>> /\ mthread'[t].stack = q
  BY StackBecomes DEF ModuleInit, NativeInit
<1>5. ASSUME NEW j \in 1 .. Len(s), s[j].kind = "module"
      PROVE  s[j].name < name
  <2> DEFINE n == Len(s) - 1
  <2>1. Len(s) > 0
    BY <1>2
  <2>2. s[Len(s)].kind = "import" /\ name = Wanted(s, Len(s))
    BY <1>2, <2>1 DEF DoesInv
  <2>3. /\ n \in 1 .. Len(s) /\ n > 1 /\ s[n].kind = "code" /\ s[n].name \in Name
        /\ SlotsFor(s[n].name, s[n].slots) /\ s[Len(s)].index \in 1 .. Len(s[n].slots)
        /\ s[n - 1].kind = "module" /\ s[n - 1].name = s[n].name
    BY <1>2, <2>1, <2>2, ImportTop
  <2>4. name > s[n].name
    <3>1. s[Len(s)].index \in 1 .. Len(Imports[s[n].name])
      BY <2>3 DEF SlotsFor
    <3> QED BY <2>2, <2>3, <3>1, ImportsAbove DEF Wanted
  <2>5. j \in 1 .. n - 1
    <3>1. j # Len(s) /\ j # n
      BY <1>5, <2>2, <2>3
    <3> QED BY <1>2, <3>1
  <2>6. j = n - 1 \/ s[j].name < s[n - 1].name
    <3>1. n - 1 \in 1 .. Len(s)
      BY <1>2, <2>3
    <3>2. ASSUME j # n - 1
          PROVE  j \in 1 .. n - 1 - 1
      BY <1>2, <2>5, <3>2
    <3> QED BY <1>5, <2>3, <3>1, <3>2 DEF Once
  <2>7. s[j].name \in Name
    <3>1. FrameInv(s, j, loads)
      BY <1>2 DEF StackInv
    <3> QED BY <1>5, <3>1 DEF FrameInv
  <2>8. s[j].name \in Int /\ s[n].name \in Int /\ name \in Int
    BY <1>3, <2>3, <2>7 DEF Name
  <2>9. s[j].name = s[n].name \/ s[j].name < s[n].name
    BY <2>3, <2>6
  <2> HIDE DEF s, n, name
  <2> QED BY <2>4, <2>8, <2>9
<1>6. ASSUME ~Found(name)
      PROVE  Once(p, moduleHash)
  <2>1. \A k \in 1 .. Len(moduleHash) : moduleHash[k].name # name
    <3>1. DOMAIN moduleHash = 1 .. Len(moduleHash)
      BY <1>2, SequenceOf DEF HashInv, Sequence
    <3> QED BY <1>6, <3>1 DEF Found, Entries
  <2>2. p[Len(s) + 1].kind = "module" /\ p[Len(s) + 1].name = name
    BY <1>3 DEF ModuleFrame
  <2> HIDE DEF s, name, p
  <2>3. SUFFICES ASSUME NEW i \in 1 .. Len(p), p[i].kind = "module"
                 PROVE  /\ \A k \in 1 .. Len(moduleHash) : moduleHash[k].name # p[i].name
                        /\ \A j \in 1 .. i - 1 : p[j].kind = "module" => p[j].name < p[i].name
    BY DEF Once, s
  <2>4. CASE i = Len(s) + 1
    <3>1. \A j \in 1 .. i - 1 : j \in 1 .. Len(s)
      BY <1>2, <2>4
    <3>2. \A j \in 1 .. i - 1 : p[j].kind = "module" => p[j].name < name
      BY <1>3, <1>5, <3>1
    <3> QED BY <2>1, <2>2, <2>4, <3>2
  <2>5. CASE i # Len(s) + 1
    <3>1. i # Len(p)
      BY <1>3, <2>3
    <3>2. i \in 1 .. Len(s) /\ \A j \in 1 .. i - 1 : j \in 1 .. Len(s)
      BY <1>2, <1>3, <2>5, <3>1
    <3>3. p[i] = s[i] /\ \A j \in 1 .. i - 1 : p[j] = s[j]
      BY <1>3, <3>2
    <3>4. Once(s, moduleHash)
      BY DEF s
    <3> QED BY <2>3, <3>2, <3>3, <3>4 DEF Once
  <2> QED BY <2>4, <2>5
<1>7. ASSUME ~Found(name), imports # <<>>
      PROVE  Once(q, moduleHash)
  <2> HIDE DEF s, name, imports, p, q
  <2>1. Once(p, moduleHash) /\ Len(p) \in Nat /\ Len(q) \in Nat
    BY <1>2, <1>3, <1>6, <1>7
  <2>2. ASSUME NEW i \in 1 .. Len(q), q[i].kind = "module"
        PROVE  i <= Len(p) /\ p[i].kind = "module" /\ p[i].name = q[i].name
    <3>1. i # Len(q)
      BY <1>3, <1>7, <2>2
    <3>2. i \in 1 .. Len(p)
      BY <1>3, <1>7, <2>1, <3>1
    <3> QED BY <1>3, <1>7, <2>2, <3>2
  <2> QED BY <2>1, <2>2, OnceModules
<1> QED BY <1>1, <1>4, <1>6, <1>7

(* A walk over the imports leaves the modules on the stack alone.          *)
LEMMA OnceImport ==
  ASSUME LoadInv, NEW t \in MThreads, Once(Stack(t), moduleHash), Import(t) \/ NativeImport(t)
  PROVE  Once(mthread'[t].stack, moduleHash')
<1> DEFINE s == Stack(t)
           n == Len(s) - 1
           i == Top(t).index
           arg == mthread[t].arg
           r == StoredIn(s, arg)
           q == Append(r, ImportFrame(i - 1))
<1>1. Does(t, "return") /\ TopIs(t, "import") /\ moduleHash' = moduleHash
  BY DEF Import, NativeImport
<1>2. /\ StackInv(s, loads) /\ loads \in Nat /\ DoesInv(s, "return", arg, loads)
      /\ Len(s) \in Nat /\ (s = <<>> <=> Len(s) = 0) /\ Top(t) = s[Len(s)]
  BY <1>1, ThreadHas DEF Does
<1>3. Len(s) > 0 /\ s[Len(s)].kind = "import" /\ i = s[Len(s)].index
  BY <1>1, <1>2 DEF TopIs
<1>4. arg.name = Wanted(s, Len(s)) /\ arg.serial \in 1 .. loads
  BY <1>2, <1>3 DEF DoesInv, ReadyValue
<1>5. mthread'[t].stack = r \/ mthread'[t].stack = q
  <2>1. Stored(t) = IF i = 1 THEN r ELSE q
    BY <1>3 DEF Stored, StoredIn
  <2>2. mthread'[t].stack = Stored(t)
    BY StackBecomes DEF Import, NativeImport
  <2> QED BY <2>1, <2>2
<1> HIDE DEF s, i, arg
<1>6. /\ StackInv(r, loads) /\ Len(r) = n /\ n > 1 /\ r[n].kind = "code"
      /\ \A j \in 1 .. n - 1 : r[j] = s[j]
  BY <1>2, <1>3, <1>4, StackStored
<1> HIDE DEF r
<1>7. Once(r, moduleHash)
  <2>1. ASSUME NEW j \in 1 .. Len(r), r[j].kind = "module"
        PROVE  j <= Len(s) /\ s[j].kind = "module" /\ s[j].name = r[j].name
    <3>1. j # n
      BY <1>6, <2>1
    <3>2. j \in 1 .. n - 1 /\ j <= Len(s)
      BY <1>2, <1>6, <3>1
    <3> QED BY <1>6, <2>1, <3>2
  <2>2. Len(r) \in Nat /\ Once(s, moduleHash)
    BY <1>2, <1>6 DEF s
  <2> QED BY <1>2, <2>1, <2>2, OnceModules
<1>8. Once(q, moduleHash)
  <2>1. /\ Len(q) = Len(r) + 1 /\ q[Len(r) + 1] = ImportFrame(i - 1) /\ Len(r) \in Nat
        /\ \A j \in 1 .. Len(r) : q[j] = r[j]
    BY <1>6, Stacked, Appended
  <2> HIDE DEF q
  <2>2. ASSUME NEW j \in 1 .. Len(q), q[j].kind = "module"
        PROVE  j <= Len(r) /\ r[j].kind = "module" /\ r[j].name = q[j].name
    <3>1. j # Len(r) + 1
      BY <2>1, <2>2 DEF ImportFrame
    <3>2. j \in 1 .. Len(r)
      BY <2>1, <3>1
    <3> QED BY <2>1, <2>2, <3>2
  <2>3. Len(q) \in Nat
    BY <2>1
  <2> QED BY <1>7, <2>1, <2>2, <2>3, OnceModules
<1> QED BY <1>1, <1>5, <1>7, <1>8

(* The value of the module on top is entered: it had none, and the others  *)
(* on the stack are not that module.                                       *)
LEMMA OnceEnd ==
  ASSUME LoadInv, NEW t \in MThreads, Once(Stack(t), moduleHash), ModuleEnd(t) \/ NativeEnd(t)
  PROVE  Once(mthread'[t].stack, moduleHash')
<1> DEFINE s == Stack(t)
           n == Len(s)
           f == Front(s)
           h == moduleHash
           e == [name |-> Top(t).name, value |-> mthread[t].arg]
<1>1. /\ TopIs(t, "module") /\ moduleHash' = Append(h, e) /\ mthread'[t].stack = f
  BY StackBecomes DEF ModuleEnd, NativeEnd, Entered
<1>2. /\ StackInv(s, loads) /\ loads \in Nat /\ HashInv(h, loads)
      /\ n \in Nat /\ (s = <<>> <=> n = 0) /\ Top(t) = s[n]
  BY ThreadHas
<1>3. n > 0 /\ s[n].kind = "module" /\ n \in 1 .. n /\ e.name = s[n].name
  BY <1>1, <1>2 DEF TopIs
<1>4. Sequence(f) /\ Len(f) = n - 1 /\ \A i \in 1 .. n - 1 : f[i] = s[i]
  <2>1. Sequence(s) /\ s # <<>>
    BY <1>2, <1>3 DEF StackInv
  <2> QED BY <2>1, Fronted
<1>5. Sequence(h) /\ Len(h) \in Nat
  BY <1>2, SequenceOf DEF HashInv, Sequence
<1> HIDE DEF h, e
<1>6. /\ Len(moduleHash') = Len(h) + 1 /\ moduleHash'[Len(h) + 1] = e
      /\ \A i \in 1 .. Len(h) : moduleHash'[i] = h[i]
  BY <1>1, <1>5, Appended
<1>7. Once(s, h)
  BY DEF h
<1> HIDE DEF s, f
<1>8. \A k \in 1 .. Len(h) : h[k].name # e.name
  BY <1>3, <1>7 DEF Once
<1>9. ASSUME NEW i \in 1 .. Len(moduleHash'), NEW j \in 1 .. Len(moduleHash'),
             moduleHash'[i].name = moduleHash'[j].name
      PROVE  i = j
  <2>1. (i \in 1 .. Len(h) \/ i = Len(h) + 1) /\ (j \in 1 .. Len(h) \/ j = Len(h) + 1)
    BY <1>5, <1>6
  <2> QED BY <1>6, <1>7, <1>8, <1>9, <2>1 DEF Once
<1>10. ASSUME NEW i \in 1 .. Len(f), f[i].kind = "module"
       PROVE  /\ \A k \in 1 .. Len(moduleHash') : moduleHash'[k].name # f[i].name
              /\ \A j \in 1 .. i - 1 : f[j].kind = "module" => f[j].name < f[i].name
  <2>1. i \in 1 .. n - 1 /\ i \in 1 .. n /\ \A j \in 1 .. i - 1 : j \in 1 .. n - 1
    BY <1>2, <1>4
  <2>2. f[i] = s[i] /\ \A j \in 1 .. i - 1 : f[j] = s[j]
    BY <1>4, <2>1
  <2>3. s[i].name < s[n].name
    BY <1>3, <1>7, <1>10, <2>1, <2>2 DEF Once
  <2>4. s[i].name \in Name /\ s[n].name \in Name
    <3>1. FrameInv(s, i, loads) /\ FrameInv(s, n, loads)
      BY <1>2, <1>3, <2>1 DEF StackInv
    <3> QED BY <1>3, <1>10, <2>2, <3>1 DEF FrameInv
  <2>5. e.name # s[i].name
    <3>1. s[i].name \in Int /\ s[n].name \in Int
      BY <2>4 DEF Name
    <3> QED BY <1>3, <2>3, <3>1
  <2>6. \A k \in 1 .. Len(h) : h[k].name # s[i].name
    BY <1>7, <1>10, <2>1, <2>2 DEF Once
  <2>7. \A k \in 1 .. Len(moduleHash') : k \in 1 .. Len(h) \/ k = Len(h) + 1
    BY <1>5, <1>6
  <2>8. \A k \in 1 .. Len(moduleHash') : moduleHash'[k].name # f[i].name
    BY <1>6, <2>2, <2>5, <2>6, <2>7
  <2>9. \A j \in 1 .. i - 1 : f[j].kind = "module" => f[j].name < f[i].name
    BY <1>7, <1>10, <2>1, <2>2 DEF Once
  <2> QED BY <2>8, <2>9
<1> QED BY <1>1, <1>9, <1>10 DEF Once

(* A thread that begins or ends has nothing on its stack.                  *)
LEMMA OnceEmpty ==
  ASSUME NEW s, NEW entries, Once(s, entries)
  PROVE  Once(<<>>, entries)
<1>1. Len(<<>>) = 0
  BY EmptyStack
<1> QED BY <1>1 DEF Once

(* An entry is removed by a thread that has nothing on its stack.          *)
LEMMA OnceUnload ==
  ASSUME LoadInv, NEW t \in MThreads, NEW name \in Name, Once(Stack(t), moduleHash), Unload(t, name)
  PROVE  Once(mthread'[t].stack, moduleHash')
<1> DEFINE s == Stack(t)
           h == moduleHash
           m == First(name)
<1>1. mthread'[t].stack = s /\ Found(name) /\ moduleHash' = RemoveAt(h, m) /\ Does(t, "idle")
  BY DEF Unload, Stack
<1>2. HashInv(h, loads) /\ Sequence(h) /\ Len(s) = 0
  BY <1>1, ThreadHas DEF HashInv, DoesInv, Does
<1>3. m \in 1 .. Len(h)
  BY <1>1, <1>2, FoundFirst
<1>4. Once(s, h)
  OBVIOUS
<1> HIDE DEF s, h, m
<1>5. /\ Len(moduleHash') = Len(h) - 1 /\ Len(h) \in Nat
      /\ \A j \in 1 .. Len(h) - 1 : /\ j < m => moduleHash'[j] = h[j]
                                    /\ j >= m => moduleHash'[j] = h[j + 1]
  BY <1>1, <1>2, <1>3, Removed
<1>6. ASSUME NEW i \in 1 .. Len(moduleHash'), NEW j \in 1 .. Len(moduleHash'),
             moduleHash'[i].name = moduleHash'[j].name
      PROVE  i = j
  <2>1. /\ i \in 1 .. Len(h) - 1 /\ i \in 1 .. Len(h) /\ i + 1 \in 1 .. Len(h)
        /\ j \in 1 .. Len(h) - 1 /\ j \in 1 .. Len(h) /\ j + 1 \in 1 .. Len(h)
    BY <1>5
  <2>2. m \in Int /\ i \in Int /\ j \in Int
    BY <1>3
  <2>3. \A k, l \in 1 .. Len(h) : h[k].name = h[l].name => k = l
    BY <1>4 DEF Once
  <2>4. CASE i < m /\ j < m
    BY <1>5, <1>6, <2>1, <2>3, <2>4
  <2>5. CASE i >= m /\ j >= m
    <3>1. i + 1 = j + 1
      BY <1>5, <1>6, <2>1, <2>3, <2>5
    <3> QED BY <2>2, <3>1
  <2>6. CASE i < m /\ j >= m
    <3>1. i = j + 1
      BY <1>5, <1>6, <2>1, <2>3, <2>6
    <3> QED BY <2>2, <2>6, <3>1
  <2>7. CASE i >= m /\ j < m
    <3>1. i + 1 = j
      BY <1>5, <1>6, <2>1, <2>3, <2>7
    <3> QED BY <2>2, <2>7, <3>1
  <2> QED BY <2>2, <2>4, <2>5, <2>6, <2>7
<1> QED BY <1>1, <1>2, <1>6 DEF Once

(* A step of the thread.                                                   *)
LEMMA OnceStep ==
  ASSUME LoadInv, NEW t \in MThreads, Once(Stack(t), moduleHash),
         \/ \E name \in Name : Main(t, name) \/ EntryPoints(t, name) \/ NativeMain(t, name) \/ Unload(t, name)
         \/ ModuleInit(t) \/ NativeInit(t) \/ Import(t) \/ NativeImport(t)
         \/ Run(t) \/ ModuleEnd(t) \/ NativeEnd(t) \/ Finish(t)
  PROVE  Once(mthread'[t].stack, moduleHash')
<1>1. ASSUME NEW name \in Name, Main(t, name) \/ EntryPoints(t, name) \/ NativeMain(t, name)
      PROVE  Once(mthread'[t].stack, moduleHash')
  <2>1. mthread'[t].stack = <<>> /\ moduleHash' = moduleHash
    BY <1>1, StackBecomes DEF Main, EntryPoints, NativeMain
  <2> QED BY <2>1, OnceEmpty
<1>2. CASE Finish(t)
  <2>1. mthread'[t].stack = <<>> /\ moduleHash' = moduleHash
    BY <1>2, StackBecomes DEF Finish
  <2> QED BY <2>1, OnceEmpty
<1>3. CASE Run(t)
  <2> DEFINE s == Stack(t)
             f == Front(s)
  <2>1. /\ mthread'[t].stack = f \/ mthread'[t].stack = s
        /\ moduleHash' = moduleHash /\ s # <<>>
    BY <1>3, StackBecomes DEF Run, TopIs
  <2>2. Sequence(s)
    BY ThreadHas DEF StackInv
  <2>3. /\ Len(f) = Len(s) - 1 /\ Len(s) \in Nat /\ Len(s) > 0
        /\ \A i \in 1 .. Len(s) - 1 : f[i] = s[i]
    BY <2>1, <2>2, Fronted
  <2>4. Len(f) \in Nat /\ \A i \in 1 .. Len(f) : i <= Len(s) /\ f[i] = s[i]
    <3> HIDE DEF s, f
    <3> QED BY <2>3
  <2> HIDE DEF s, f
  <2>5. Once(s, moduleHash)
    BY DEF s
  <2>6. Once(f, moduleHash)
    BY <2>3, <2>4, <2>5, OnceModules
  <2> QED BY <2>1, <2>5, <2>6
<1> QED BY <1>1, <1>2, <1>3, OnceInit, OnceImport, OnceEnd, OnceUnload

(* One thread steps when there is only one.                                *)
LEMMA OnceNext ==
  ASSUME IsFiniteSet(MThreads), LoadInv, OnceInv, [Next]_vars
  PROVE  OnceInv'
<1> SUFFICES ASSUME Cardinality(MThreads) = 1
             PROVE  \A t \in MThreads : Once(mthread'[t].stack, moduleHash')
  BY DEF OnceInv, Stack
<1>1. PICK x : MThreads = {x}
  BY FS_Singleton
<1>2. Once(Stack(x), moduleHash) /\ x \in MThreads
  BY <1>1 DEF OnceInv
<1>3. CASE UNCHANGED vars
  BY <1>1, <1>2, <1>3 DEF vars, Stack
<1>4. CASE Next
  BY <1>1, <1>2, <1>4, OnceStep DEF Next
<1> QED BY <1>3, <1>4

(* It begins with nothing.                                                 *)
LEMMA OnceFirst == Fresh => OnceInv
<1> SUFFICES ASSUME Fresh, NEW t \in MThreads
             PROVE  Once(Stack(t), moduleHash)
  BY DEF OnceInv
<1>1. Stack(t) = <<>> /\ moduleHash = <<>> /\ Len(<<>>) = 0
  BY EmptyStack DEF Fresh, Stack
<1> QED BY <1>1 DEF Once

(* Then no module has two entries.                                         *)
LEMMA OnceInits == LoadInv /\ OnceInv => InitOnce
<1> SUFFICES ASSUME LoadInv, OnceInv, Cardinality(MThreads) = 1
             PROVE  \A i, j \in DOMAIN moduleHash : moduleHash[i].name = moduleHash[j].name => i = j
  BY DEF InitOnce
<1>1. DOMAIN moduleHash = 1 .. Len(moduleHash)
  BY SequenceOf DEF LoadInv, HashInv, Sequence
<1>2. CASE \E t : t \in MThreads
  BY <1>1, <1>2 DEF OnceInv, Once
<1>3. CASE MThreads = {}
  BY <1>3, FS_EmptySet
<1> QED BY <1>2, <1>3

-----------------------------------------------------------------------------
(* Whatever threads load and initialise at the same time, each value in    *)
(* the module hash was made after those of its imports, and one thread     *)
(* alone enters no module twice (cby/module.c, native/module.c).           *)
THEOREM ModulesReady ==
  ASSUME IsFiniteSet(MThreads)
  PROVE  Spec => [](ImportsReady /\ InitOnce)
<1>1. Init => LoadInv /\ OnceInv
  BY LoadInit, OnceFirst DEF Init, Fresh
<1>2. LoadInv /\ OnceInv /\ [Next]_vars => LoadInv' /\ OnceInv'
  BY LoadNext, OnceNext
<1>3. LoadInv /\ OnceInv => ImportsReady /\ InitOnce
  BY LoadImports, OnceInits
<1> QED BY <1>1, <1>2, <1>3, PTL DEF Spec

=============================================================================

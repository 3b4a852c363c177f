---------------------------- MODULE EventsProofs ----------------------------
(***************************************************************************)
(* The event buffers of any number of buffers and two writers.  The list is*)
(* described without an order: it is the least set that has its head and   *)
(* the link of each member, no two members have the same link, and none    *)
(* the head.                                                               *)
(***************************************************************************)
EXTENDS Events, TLAPS

None == {NoBuffer}

(* The members of s are what is in the list with the links f and head b.   *)
IsList(s, f, b) ==
  /\ {b} \cup {f[x] : x \in s} \subseteq s \cup None
  /\ \A r \in SUBSET Buffer : {b} \cup {f[x] : x \in r} \subseteq r \cup None => s \subseteq r
  /\ \A x, y \in s : f[x] = f[y] /\ f[x] # NoBuffer => x = y
  /\ \A x \in s : f[x] = b => b = NoBuffer

Held == {wbuf[t] : t \in Holding \cap Writers}
List == storage \ (Held \cup {own})

TypeInv ==
  /\ bufList \in Buffer \cup None
  /\ link \in [Buffer -> Buffer \cup None]
  /\ text \in [Buffer -> SUBSET Everybody]
  /\ storage \subseteq Buffer
  /\ wpc \in [Everybody -> {"none", "idle", "retry", "link", "pop", "write", "sink",
                            "release", "push"}]
  /\ wbuf \in [Everybody -> Buffer \cup None]
  /\ wnext \in [Everybody -> Buffer \cup None]
  /\ own \in storage \cup None
  /\ logging \in {"on", "off"}

(* The worker has its own buffer from its first event on.                  *)
WorkerInv ==
  /\ wpc[EventWorker] \in {"none", "idle", "write", "sink"}
  /\ wpc[EventWorker] = "none" => own = NoBuffer
  /\ wpc[EventWorker] \in {"write", "sink"} => wbuf[EventWorker] = own /\ own # NoBuffer

(* A buffer a writer has belongs to nobody else.                           *)
HeldInv ==
  /\ \A t \in Writers : wpc[t] # "none"
  /\ \A t \in Holding \cap Writers : wbuf[t] \in storage \ {own}
  /\ \A t, u \in Holding \cap Writers : t # u => wbuf[t] # wbuf[u]

(* The others are in the list, and a writer that is about to put one there *)
(* has set its link to what it expects as the head.                        *)
ListInv ==
  /\ logging = "on" => IsList(List, link, bufList)
  /\ \A t \in Writers : wpc[t] = "push" => wnext[t] = link[wbuf[t]]

(* A writer that looks at a buffer sees it in the list, or another writer  *)
(* has it and has not changed its link since it was the head.  In both     *)
(* cases the link it has read is still that of the buffer.                 *)
LookInv ==
  \A t \in Writers : wpc[t] \in {"link", "pop"} =>
    /\ wbuf[t] \in Buffer
    /\ \/ wbuf[t] \in List
       \/ wbuf[t] \in Held /\ link[wbuf[t]] = bufList
    /\ wpc[t] = "pop" => wnext[t] = link[wbuf[t]]

TextInv == \A t \in Everybody : wpc[t] = "sink" => text[wbuf[t]] = {t}

EndInv ==
  logging = "off" =>
    /\ storage = {}
    /\ wpc[EventWorker] = "none"
    /\ \A t \in Writers : wpc[t] = "idle"

LogInv == TypeInv /\ WorkerInv /\ HeldInv /\ ListInv /\ LookInv /\ TextInv /\ EndInv

(* No more than two threads write without a worker.                        *)
TwoWriters == \A s, t, u \in Writers : s = t \/ t = u \/ s = u

-----------------------------------------------------------------------------
(* The head is taken off a list.                                           *)
LEMMA PopList ==
  ASSUME NEW s \in SUBSET Buffer, NEW f \in [Buffer -> Buffer \cup None], NEW b \in Buffer,
         IsList(s, f, b), NoBuffer \notin Buffer
  PROVE  b \in s /\ IsList(s \ {b}, f, f[b])
<1>1. b \in s /\ b # NoBuffer
  BY DEF IsList, None
<1>2. f[b] \in (s \ {b}) \cup None
  BY <1>1 DEF IsList, None
<1>3. \A x \in s \ {b} : f[x] \in (s \ {b}) \cup None
  BY <1>1 DEF IsList, None
<1>4. ASSUME NEW r \in SUBSET Buffer, {f[b]} \cup {f[x] : x \in r} \subseteq r \cup None
      PROVE  s \ {b} \subseteq r
  <2>1. r \cup {b} \in SUBSET Buffer
    OBVIOUS
  <2>2. {b} \cup {f[x] : x \in r \cup {b}} \subseteq (r \cup {b}) \cup None
    BY <1>4
  <2>3. s \subseteq r \cup {b}
    BY <2>1, <2>2 DEF IsList
  <2> QED BY <2>3
<1>5. \A x \in s \ {b} : f[x] = f[b] => f[b] = NoBuffer
  BY <1>1 DEF IsList
<1>6. \A x, y \in s \ {b} : f[x] = f[y] /\ f[x] # NoBuffer => x = y
  BY DEF IsList
<1> QED BY <1>1, <1>2, <1>3, <1>4, <1>5, <1>6 DEF IsList

(* A buffer is put in front of a list.                                     *)
LEMMA PushList ==
  ASSUME NEW s \in SUBSET Buffer, NEW f \in [Buffer -> Buffer \cup None],
         NEW b \in Buffer \cup None, NEW h \in Buffer \ s, f[h] = b,
         IsList(s, f, b), NoBuffer \notin Buffer
  PROVE  IsList(s \cup {h}, f, h)
<1>1. h # NoBuffer /\ b \in s \cup None /\ b # h
  BY DEF IsList, None
<1>2. \A x \in s : f[x] \in s \cup None
  BY DEF IsList
<1>3. {h} \cup {f[x] : x \in s \cup {h}} \subseteq (s \cup {h}) \cup None
  BY <1>1, <1>2
<1>4. ASSUME NEW r \in SUBSET Buffer, {h} \cup {f[x] : x \in r} \subseteq r \cup None
      PROVE  s \cup {h} \subseteq r
  <2>1. h \in r
    BY <1>1, <1>4 DEF None
  <2>2. b \in r \cup None
    BY <1>4, <2>1
  <2>3. {b} \cup {f[x] : x \in r} \subseteq r \cup None
    BY <1>4, <2>2
  <2>4. s \subseteq r
    BY <2>3 DEF IsList
  <2> QED BY <2>1, <2>4
<1>5. \A x, y \in s \cup {h} : f[x] = f[y] /\ f[x] # NoBuffer => x = y
  BY DEF IsList
<1>6. \A x \in s \cup {h} : f[x] # h
  BY <1>1, <1>2 DEF None
<1> QED BY <1>3, <1>4, <1>5, <1>6 DEF IsList

(* Only the links of its members matter to a list.                         *)
LEMMA SameList ==
  ASSUME NEW s \in SUBSET Buffer, NEW f \in [Buffer -> Buffer \cup None],
         NEW g \in [Buffer -> Buffer \cup None], NEW b \in Buffer \cup None,
         \A x \in s : f[x] = g[x], IsList(s, f, b)
  PROVE  IsList(s, g, b)
<1>1. {b} \cup {g[x] : x \in s} \subseteq s \cup None
  BY DEF IsList
<1>2. ASSUME NEW r \in SUBSET Buffer, {b} \cup {g[x] : x \in r} \subseteq r \cup None
      PROVE  s \subseteq r
  <2>1. {b} \cup {f[x] : x \in r \cap s} \subseteq (r \cap s) \cup None
    BY <1>1, <1>2
  <2>2. s \subseteq r \cap s
    BY <2>1 DEF IsList
  <2> QED BY <2>2
<1>3. \A x, y \in s : g[x] = g[y] /\ g[x] # NoBuffer => x = y
  BY DEF IsList
<1>4. \A x \in s : g[x] = b => b = NoBuffer
  BY DEF IsList
<1> QED BY <1>1, <1>2, <1>3, <1>4 DEF IsList

(* The walk along the list finds its members.                              *)
LEMMA WalkList ==
  ASSUME List \in SUBSET Buffer, IsList(List, link, bufList)
  PROVE  Chain(bufList) = List
<1>1. \A x \in List : x \in Chain(bufList)
  BY DEF IsList, Chain, Closed, None
<1>2. Closed(List, bufList)
  BY DEF IsList, Closed, None
<1>3. \A x \in Chain(bufList) : x \in List
  BY <1>2 DEF Chain
<1> QED BY <1>1, <1>3

-----------------------------------------------------------------------------
(* A new buffer has not been there.                                        *)
LEMMA FreshBuffer ==
  ASSUME storage \subseteq Buffer, storage # Buffer
  PROVE  Fresh \in Buffer /\ Fresh \notin storage
BY DEF Fresh

(* Zero is not a buffer.                                                   *)
LEMMA NotABuffer == WritersValid => NoBuffer \notin Buffer
BY DEF WritersValid, Buffer, NoBuffer

(* Initially there is no buffer.                                           *)
LEMMA LogFirst ==
  ASSUME WritersValid, Init
  PROVE  LogInv
<1> USE DEF Init, None, Everybody
<1>1. TypeInv
  BY DEF TypeInv
<1>2. WorkerInv
  BY DEF WorkerInv
<1>3. HeldInv
  BY DEF HeldInv, Holding, WritersValid
<1>4. ListInv
  <2>1. List = {}
    BY DEF List
  <2> QED BY <2>1 DEF ListInv, IsList, WritersValid
<1>5. LookInv /\ TextInv /\ EndInv
  BY DEF LookInv, TextInv, EndInv, WritersValid
<1> QED BY <1>1, <1>2, <1>3, <1>4, <1>5 DEF LogInv

(* What a writer that has a buffer knows of it.                            *)
LEMMA WriterHolds ==
  ASSUME LogInv, NEW t \in Writers, wpc[t] \in {"write", "sink", "release", "push"}
  PROVE  /\ wbuf[t] \in Held /\ wbuf[t] \in storage \ {own} /\ wbuf[t] \in Buffer
         /\ wbuf[t] \notin List /\ logging = "on"
         /\ \A u \in Writers : wpc[u] \in {"write", "sink", "release", "push"} /\ u # t
              => wbuf[u] # wbuf[t]
BY DEF LogInv, HeldInv, Held, Holding, List, Everybody, EndInv, TypeInv

-----------------------------------------------------------------------------
(* The first buffer of the list is looked at.                              *)
LEMMA LoadHead ==
  ASSUME WritersValid, LogInv, NEW t \in Writers, Load(t), bufList # NoBuffer
  PROVE  LogInv'
<1>1. /\ logging = "on" /\ wpc[t] \in {"idle", "retry"} /\ t \in Everybody
      /\ wpc' = [wpc EXCEPT ![t] = "link"] /\ wbuf' = [wbuf EXCEPT ![t] = bufList]
      /\ UNCHANGED <<storage, link, text, bufList, wnext, own, logging>>
  BY DEF Load, Move, Look, Same, Everybody
<1>2. bufList \in List /\ bufList \in Buffer
  BY <1>1 DEF LogInv, TypeInv, ListInv, IsList, None
<1>3. TypeInv'
  BY <1>1 DEF LogInv, TypeInv
<1>4. t # EventWorker
  BY DEF WritersValid
<1>5. Holding' = Holding
  BY <1>1 DEF LogInv, TypeInv, Holding
<1>6. t \notin Holding
  BY <1>1 DEF Holding
<1>7. \A u \in Everybody \ {t} : wbuf'[u] = wbuf[u] /\ wpc'[u] = wpc[u]
  BY <1>1 DEF LogInv, TypeInv
<1>8. Held' = Held /\ List' = List
  BY <1>1, <1>5, <1>6, <1>7 DEF Held, List, Holding
<1>9. WorkerInv'
  BY <1>1, <1>4, <1>7 DEF LogInv, WorkerInv, Everybody
<1>10. HeldInv'
  BY <1>1, <1>5, <1>6, <1>7 DEF LogInv, HeldInv, Holding, Everybody, TypeInv
<1>11. wpc'[t] = "link" /\ wbuf'[t] = bufList
  BY <1>1 DEF LogInv, TypeInv
<1>12. ListInv'
  BY <1>1, <1>7, <1>8, <1>11 DEF LogInv, ListInv, Everybody
<1>13. LookInv'
  BY <1>1, <1>2, <1>7, <1>8, <1>11 DEF LogInv, LookInv, Everybody
<1>14. TextInv'
  BY <1>1, <1>7, <1>11 DEF LogInv, TextInv
<1>15. EndInv'
  BY <1>1 DEF EndInv
<1> QED BY <1>3, <1>9, <1>10, <1>12, <1>13, <1>14, <1>15 DEF LogInv

(* A new buffer is made where there is none.                               *)
LEMMA LoadNew ==
  ASSUME WritersValid, LogInv, NEW t \in Writers, Load(t), bufList = NoBuffer
  PROVE  LogInv'
<1> DEFINE b == Fresh
<1>1. /\ logging = "on" /\ wpc[t] \in {"idle", "retry"} /\ t \in Everybody
      /\ wpc' = [wpc EXCEPT ![t] = "write"] /\ wbuf' = [wbuf EXCEPT ![t] = b]
      /\ storage' = storage \cup {b} /\ storage # Buffer
      /\ link' = [link EXCEPT ![b] = NoBuffer] /\ text' = [text EXCEPT ![b] = {}]
      /\ UNCHANGED <<bufList, wnext, own, logging>>
  BY DEF Load, Create, Move, Look, Same, Everybody
<1>2. b \in Buffer /\ b \notin storage
  BY <1>1, FreshBuffer DEF LogInv, TypeInv
<1> HIDE DEF b
<1>3. TypeInv'
  BY <1>1, <1>2 DEF LogInv, TypeInv, None
<1>4. t # EventWorker
  BY DEF WritersValid
<1>5. \A u \in Everybody \ {t} : wbuf'[u] = wbuf[u] /\ wpc'[u] = wpc[u]
  BY <1>1 DEF LogInv, TypeInv
<1>6. wpc'[t] = "write" /\ wbuf'[t] = b
  BY <1>1 DEF LogInv, TypeInv
<1>7. \A x \in Buffer \ {b} : link'[x] = link[x] /\ text'[x] = text[x]
  BY <1>1 DEF LogInv, TypeInv
<1>8. Holding' = Holding \cup {t} /\ t \notin Holding
  BY <1>1, <1>5, <1>6 DEF Holding
<1>9. Held \subseteq storage /\ own \in storage \cup None /\ b # own
  BY <1>2, NotABuffer DEF LogInv, HeldInv, Held, TypeInv, None
<1>10. Held' = Held \cup {b}
  BY <1>5, <1>6, <1>8 DEF Held, Holding
<1>11. List' = List
  BY <1>1, <1>2, <1>9, <1>10 DEF List
<1>12. WorkerInv'
  BY <1>1, <1>4, <1>5 DEF LogInv, WorkerInv, Everybody
<1>13. HeldInv'
  <2>1. \A u \in Holding \cap Writers : wbuf'[u] = wbuf[u] /\ wbuf[u] \in storage \ {own}
    BY <1>5, <1>8 DEF LogInv, HeldInv, Everybody
  <2>2. \A u \in (Holding \cap Writers)' : wbuf'[u] \in (storage \ {own})'
    BY <1>1, <1>6, <1>8, <1>9, <2>1
  <2>3. \A u, v \in (Holding \cap Writers)' : u # v => wbuf'[u] # wbuf'[v]
    BY <1>2, <1>6, <1>8, <2>1 DEF LogInv, HeldInv
  <2>4. \A u \in Writers : wpc'[u] # "none"
    BY <1>5, <1>6 DEF LogInv, HeldInv, Everybody
  <2> QED BY <2>2, <2>3, <2>4 DEF HeldInv
<1>14. List \subseteq Buffer \ {b}
  BY <1>2 DEF LogInv, TypeInv, List
<1>15. ListInv'
  <2>1. IsList(List, link', bufList)
    <3>1. IsList(List, link, bufList) /\ \A x \in List : link[x] = link'[x]
      BY <1>1, <1>7, <1>14 DEF LogInv, ListInv
    <3>2. /\ link \in [Buffer -> Buffer \cup None] /\ link' \in [Buffer -> Buffer \cup None]
          /\ bufList \in Buffer \cup None
      BY <1>3 DEF LogInv, TypeInv
    <3>3. List \in SUBSET Buffer
      BY <1>14
    <3> QED BY <3>1, <3>2, <3>3, SameList
  <2>2. \A u \in Writers : wpc'[u] = "push" => wpc[u] = "push" /\ u # t /\ wbuf'[u] = wbuf[u]
    BY <1>5, <1>6 DEF Everybody
  <2>3. \A u \in Writers : wpc'[u] = "push" => link'[wbuf[u]] = link[wbuf[u]]
    BY <1>2, <1>7, <2>2, WriterHolds
  <2> QED BY <1>1, <1>11, <2>1, <2>2, <2>3 DEF LogInv, ListInv
<1>16. LookInv'
  <2> SUFFICES ASSUME NEW u \in Writers, wpc'[u] \in {"link", "pop"}
               PROVE  /\ wbuf'[u] \in Buffer
                      /\ \/ wbuf'[u] \in List'
                         \/ wbuf'[u] \in Held' /\ link'[wbuf'[u]] = bufList'
                      /\ wpc'[u] = "pop" => wnext'[u] = link'[wbuf'[u]]
    BY DEF LookInv
  <2>1. u # t /\ wpc'[u] = wpc[u] /\ wbuf'[u] = wbuf[u]
    BY <1>5, <1>6 DEF Everybody
  <2>2. wbuf[u] \in storage /\ wbuf[u] \in Buffer
    BY <1>9, <2>1 DEF LogInv, LookInv, List
  <2>3. link'[wbuf[u]] = link[wbuf[u]]
    BY <1>2, <1>7, <2>2
  <2> QED BY <1>1, <1>10, <1>11, <2>1, <2>2, <2>3 DEF LogInv, LookInv
<1>17. TextInv'
  <2> SUFFICES ASSUME NEW u \in Everybody, wpc'[u] = "sink"
               PROVE  text'[wbuf'[u]] = {u}
    BY DEF TextInv
  <2>1. u # t /\ wpc[u] = "sink" /\ wbuf'[u] = wbuf[u]
    BY <1>5, <1>6
  <2>2. wbuf[u] \in storage
    BY <2>1, WriterHolds DEF LogInv, WorkerInv, TypeInv, Everybody, None
  <2>3. text'[wbuf[u]] = text[wbuf[u]]
    BY <1>2, <1>7, <2>2 DEF LogInv, TypeInv
  <2> QED BY <2>1, <2>3 DEF LogInv, TextInv
<1>18. EndInv'
  BY <1>1 DEF EndInv
<1> QED BY <1>3, <1>12, <1>13, <1>15, <1>16, <1>17, <1>18 DEF LogInv

(* The link of the buffer looked at is read.                               *)
LEMMA LinkRead ==
  ASSUME WritersValid, LogInv, NEW t \in Writers, ReadLink(t)
  PROVE  LogInv'
<1>1. /\ wpc[t] = "link" /\ t \in Everybody
      /\ wpc' = [wpc EXCEPT ![t] = "pop"] /\ wnext' = [wnext EXCEPT ![t] = link[wbuf[t]]]
      /\ UNCHANGED <<bufList, link, text, storage, wbuf, own, logging>>
  BY DEF ReadLink, Move, Same, Everybody
<1>2. wbuf[t] \in Buffer /\ link[wbuf[t]] \in Buffer \cup None
  BY <1>1 DEF LogInv, LookInv, TypeInv
<1>3. TypeInv'
  BY <1>1, <1>2 DEF LogInv, TypeInv
<1>4. t # EventWorker
  BY DEF WritersValid
<1>5. \A u \in Everybody \ {t} : wnext'[u] = wnext[u] /\ wpc'[u] = wpc[u]
  BY <1>1 DEF LogInv, TypeInv
<1>6. wpc'[t] = "pop" /\ wnext'[t] = link[wbuf[t]]
  BY <1>1 DEF LogInv, TypeInv
<1>7. Holding' = Holding
  BY <1>1 DEF LogInv, TypeInv, Holding
<1>8. Held' = Held /\ List' = List
  BY <1>1, <1>7 DEF Held, List
<1>9. WorkerInv'
  BY <1>1, <1>4, <1>5 DEF LogInv, WorkerInv, Everybody
<1>10. HeldInv'
  BY <1>1, <1>5, <1>6, <1>7 DEF LogInv, HeldInv, Everybody
<1>11. ListInv'
  BY <1>1, <1>5, <1>6, <1>8 DEF LogInv, ListInv, Everybody
<1>12. LookInv'
  BY <1>1, <1>5, <1>6, <1>8 DEF LogInv, LookInv, Everybody
<1>13. TextInv'
  BY <1>1, <1>5, <1>6 DEF LogInv, TextInv
<1>14. EndInv'
  BY <1>1 DEF LogInv, EndInv
<1> QED BY <1>3, <1>9, <1>10, <1>11, <1>12, <1>13, <1>14 DEF LogInv

(* What another writer looks at is in the list or this one has it: there   *)
(* is no third.                                                            *)
LEMMA OtherLooks ==
  ASSUME TwoWriters, LogInv, NEW t \in Writers, NEW u \in Writers, t # u,
         wpc[u] \in {"link", "pop"}
  PROVE  /\ wbuf[u] \in Buffer
         /\ wpc[u] = "pop" => wnext[u] = link[wbuf[u]]
         /\ \/ wbuf[u] \in List
            \/ t \in Holding /\ wbuf[u] = wbuf[t] /\ link[wbuf[t]] = bufList
<1>1. /\ wbuf[u] \in Buffer
      /\ wpc[u] = "pop" => wnext[u] = link[wbuf[u]]
      /\ wbuf[u] \in List \/ (wbuf[u] \in Held /\ link[wbuf[u]] = bufList)
  BY DEF LogInv, LookInv
<1>2. ASSUME wbuf[u] \in Held, link[wbuf[u]] = bufList
      PROVE  t \in Holding /\ wbuf[u] = wbuf[t] /\ link[wbuf[t]] = bufList
  <2>1. PICK v \in Holding \cap Writers : wbuf[v] = wbuf[u]
    BY <1>2 DEF Held
  <2>2. v # u
    BY <2>1 DEF Holding
  <2>3. v = t
    BY <2>2 DEF TwoWriters
  <2> QED BY <1>2, <2>1, <2>3
<1> QED BY <1>1, <1>2

(* The buffer looked at is taken off the list.                             *)
LEMMA PopHead ==
  ASSUME WritersValid, TwoWriters, LogInv, NEW t \in Writers, wpc[t] = "pop",
         bufList = wbuf[t], bufList' = wnext[t], Move(t, "write"),
         UNCHANGED <<link, text, storage, wbuf, wnext, own, logging>>
  PROVE  LogInv'
<1> DEFINE h == wbuf[t]
<1>1. t \in Everybody /\ wpc' = [wpc EXCEPT ![t] = "write"]
  BY DEF Move, Everybody
<1>2. logging = "on"
  BY <1>1 DEF LogInv, EndInv, TypeInv
<1>3. h \in Buffer /\ wnext[t] = link[h] /\ link[h] \in Buffer \cup None
  BY <1>1 DEF LogInv, LookInv, TypeInv
<1>4. List \in SUBSET Buffer /\ link \in [Buffer -> Buffer \cup None]
  BY DEF LogInv, TypeInv, List
<1>5. h \in List /\ IsList(List \ {h}, link, bufList')
  BY <1>1, <1>2, <1>3, <1>4, PopList, NotABuffer DEF LogInv, ListInv
<1>6. t # EventWorker
  BY DEF WritersValid
<1>7. \A u \in Everybody \ {t} : wpc'[u] = wpc[u]
  BY <1>1 DEF LogInv, TypeInv
<1>8. wpc'[t] = "write"
  BY <1>1 DEF LogInv, TypeInv
<1>9. Holding' = Holding \cup {t} /\ t \notin Holding
  BY <1>1, <1>7, <1>8 DEF Holding
<1>10. Held' = Held \cup {h}
  BY <1>1, <1>9 DEF Held
<1>11. List' = List \ {h}
  BY <1>1, <1>10 DEF List
<1>12. TypeInv'
  BY <1>1, <1>3 DEF LogInv, TypeInv
<1>13. WorkerInv'
  BY <1>1, <1>6, <1>7 DEF LogInv, WorkerInv, Everybody
<1>14. HeldInv'
  <2>1. h \in storage \ {own} /\ h \notin Held
    BY <1>5 DEF List
  <2>2. \A u \in Holding \cap Writers : wbuf[u] # h
    BY <2>1 DEF Held
  <2> QED BY <1>1, <1>7, <1>8, <1>9, <2>1, <2>2 DEF LogInv, HeldInv, Everybody
<1>15. ListInv'
  BY <1>1, <1>5, <1>7, <1>8, <1>11 DEF LogInv, ListInv, Everybody
<1>16. LookInv'
  <2> SUFFICES ASSUME NEW u \in Writers, wpc'[u] \in {"link", "pop"}
               PROVE  /\ wbuf'[u] \in Buffer
                      /\ \/ wbuf'[u] \in List'
                         \/ wbuf'[u] \in Held' /\ link'[wbuf'[u]] = bufList'
                      /\ wpc'[u] = "pop" => wnext'[u] = link'[wbuf'[u]]
    BY DEF LookInv
  <2>1. u # t /\ wpc'[u] = wpc[u]
    BY <1>7, <1>8 DEF Everybody
  <2>2. wbuf[u] \in Buffer /\ (wpc[u] = "pop" => wnext[u] = link[wbuf[u]]) /\ wbuf[u] \in List
    BY <1>9, <2>1, OtherLooks
  <2> QED BY <1>1, <1>3, <1>10, <1>11, <2>1, <2>2
<1>17. TextInv'
  BY <1>1, <1>7, <1>8 DEF LogInv, TextInv
<1>18. EndInv'
  BY <1>1, <1>2 DEF EndInv
<1> QED BY <1>12, <1>13, <1>14, <1>15, <1>16, <1>17, <1>18 DEF LogInv

(* Another buffer is the head now, or the exchange has failed as it may.   *)
LEMMA PopFails ==
  ASSUME WritersValid, LogInv, NEW t \in Writers, wpc[t] = "pop",
         Move(t, "retry"), UNCHANGED <<bufList, link, text, storage, wbuf, wnext, own, logging>>
  PROVE  LogInv'
<1>1. t \in Everybody /\ wpc' = [wpc EXCEPT ![t] = "retry"] /\ t # EventWorker
  BY DEF Move, Everybody, WritersValid
<1>2. \A u \in Everybody \ {t} : wpc'[u] = wpc[u]
  BY <1>1 DEF LogInv, TypeInv
<1>3. wpc'[t] = "retry"
  BY <1>1 DEF LogInv, TypeInv
<1>4. Holding' = Holding
  BY <1>1, <1>2, <1>3 DEF Holding
<1>5. Held' = Held /\ List' = List
  BY <1>4 DEF Held, List
<1>6. TypeInv'
  BY <1>1 DEF LogInv, TypeInv
<1>7. WorkerInv'
  BY <1>1, <1>2 DEF LogInv, WorkerInv, Everybody
<1>8. HeldInv'
  BY <1>2, <1>3, <1>4 DEF LogInv, HeldInv, Everybody
<1>9. ListInv'
  BY <1>2, <1>3, <1>5 DEF LogInv, ListInv, Everybody
<1>10. LookInv'
  BY <1>2, <1>3, <1>5 DEF LogInv, LookInv, Everybody
<1>11. TextInv' /\ EndInv'
  BY <1>2, <1>3 DEF LogInv, TextInv, EndInv
<1> QED BY <1>6, <1>7, <1>8, <1>9, <1>10, <1>11 DEF LogInv

(* The link of the buffer of a writer becomes the head, before the buffer  *)
(* is put there and when that has failed.                                  *)
LEMMA LinkSet ==
  ASSUME WritersValid, TwoWriters, LogInv, NEW t \in Writers, wpc[t] \in {"release", "push"},
         link' = [link EXCEPT ![wbuf[t]] = bufList],
         NEW l \in {"release", "push"}, Move(t, l), wnext' \in [Everybody -> Buffer \cup None],
         \A u \in Writers \ {t} : wnext'[u] = wnext[u], l = "push" => wnext'[t] = bufList,
         UNCHANGED <<bufList, text, storage, wbuf, own, logging>>
  PROVE  LogInv'
<1> DEFINE h == wbuf[t]
<1>1. t \in Everybody /\ t # EventWorker /\ wpc' = [wpc EXCEPT ![t] = l]
  BY DEF Move, Everybody, WritersValid
<1>2. h \in Held /\ h \in Buffer /\ h \notin List /\ logging = "on"
  BY WriterHolds
<1>3. \A u \in Everybody \ {t} : wpc'[u] = wpc[u]
  BY <1>1 DEF LogInv, TypeInv
<1>4. wpc'[t] = l
  BY <1>1 DEF LogInv, TypeInv
<1>5. link'[h] = bufList /\ \A x \in Buffer \ {h} : link'[x] = link[x]
  BY <1>2 DEF LogInv, TypeInv
<1>6. Holding' = Holding /\ t \in Holding
  BY <1>1, <1>3, <1>4 DEF Holding
<1>7. Held' = Held /\ List' = List
  BY <1>6 DEF Held, List
<1>8. TypeInv'
  BY <1>1, <1>2 DEF LogInv, TypeInv
<1>9. WorkerInv'
  BY <1>1, <1>3 DEF LogInv, WorkerInv, Everybody
<1>10. HeldInv'
  BY <1>3, <1>4, <1>6 DEF LogInv, HeldInv, Everybody
<1>11. ListInv'
  <2>1. List \in SUBSET Buffer
    BY DEF LogInv, TypeInv, List
  <2>2. \A x \in List : link[x] = link'[x]
    BY <1>2, <1>5, <2>1
  <2>3. IsList(List, link', bufList)
    <3>1. IsList(List, link, bufList)
      BY <1>2 DEF LogInv, ListInv
    <3>2. /\ link \in [Buffer -> Buffer \cup None] /\ link' \in [Buffer -> Buffer \cup None]
          /\ bufList \in Buffer \cup None
      BY <1>8 DEF LogInv, TypeInv
    <3> QED BY <2>1, <2>2, <3>1, <3>2, SameList
  <2>4. ASSUME NEW u \in Writers \ {t}, wpc'[u] = "push"
        PROVE  wnext'[u] = link'[wbuf'[u]]
    <3>1. wpc[u] = "push" /\ wbuf[u] # h /\ wbuf[u] \in Buffer
      BY <1>3, <2>4, WriterHolds DEF Everybody
    <3> QED BY <1>5, <3>1 DEF LogInv, ListInv
  <2>5. wpc'[t] = "push" => wnext'[t] = link'[wbuf'[t]]
    BY <1>4, <1>5
  <2> QED BY <1>7, <2>3, <2>4, <2>5 DEF ListInv
<1>12. LookInv'
  <2> SUFFICES ASSUME NEW u \in Writers, wpc'[u] \in {"link", "pop"}
               PROVE  /\ wbuf'[u] \in Buffer
                      /\ \/ wbuf'[u] \in List'
                         \/ wbuf'[u] \in Held' /\ link'[wbuf'[u]] = bufList'
                      /\ wpc'[u] = "pop" => wnext'[u] = link'[wbuf'[u]]
    BY DEF LookInv
  <2>1. u # t /\ wpc'[u] = wpc[u] /\ wnext'[u] = wnext[u]
    BY <1>3, <1>4 DEF Everybody
  <2>2. wbuf[u] \in Buffer /\ (wpc[u] = "pop" => wnext[u] = link[wbuf[u]])
    BY <2>1, OtherLooks
  <2>3. wbuf[u] \in List \/ (wbuf[u] = h /\ link[h] = bufList)
    BY <2>1, OtherLooks
  <2>4. link'[wbuf[u]] = link[wbuf[u]]
    BY <1>2, <1>5, <2>2, <2>3
  <2> QED BY <1>2, <1>5, <1>7, <2>1, <2>2, <2>3, <2>4
<1>13. TextInv' /\ EndInv'
  BY <1>2, <1>3, <1>4 DEF LogInv, TextInv, EndInv
<1> QED BY <1>8, <1>9, <1>10, <1>11, <1>12, <1>13 DEF LogInv

(* A buffer becomes the head of the list.                                  *)
LEMMA PushHead ==
  ASSUME WritersValid, TwoWriters, LogInv, NEW t \in Writers, wpc[t] = "push",
         bufList = wnext[t], bufList' = wbuf[t], Move(t, "idle"),
         UNCHANGED <<link, text, storage, wbuf, wnext, own, logging>>
  PROVE  LogInv'
<1> DEFINE h == wbuf[t]
<1>1. t \in Everybody /\ t # EventWorker /\ wpc' = [wpc EXCEPT ![t] = "idle"]
  BY DEF Move, Everybody, WritersValid
<1>2. /\ h \in Held /\ h \in storage \ {own} /\ h \in Buffer /\ h \notin List /\ logging = "on"
      /\ link[h] = bufList
  BY WriterHolds DEF LogInv, ListInv
<1>3. \A u \in Everybody \ {t} : wpc'[u] = wpc[u]
  BY <1>1 DEF LogInv, TypeInv
<1>4. wpc'[t] = "idle"
  BY <1>1 DEF LogInv, TypeInv
<1>5. Holding' = Holding \ {t} /\ t \in Holding
  BY <1>1, <1>3, <1>4 DEF Holding
<1>6. \A u \in Holding \cap Writers : u # t => wbuf[u] # h
  BY <1>5 DEF LogInv, HeldInv
<1>7. Held' = Held \ {h}
  BY <1>5, <1>6 DEF Held
<1>8. List' = List \cup {h}
  BY <1>2, <1>7 DEF List
<1>9. TypeInv'
  BY <1>1, <1>2 DEF LogInv, TypeInv
<1>10. WorkerInv'
  BY <1>1, <1>3 DEF LogInv, WorkerInv, Everybody
<1>11. HeldInv'
  BY <1>3, <1>4, <1>5 DEF LogInv, HeldInv, Everybody
<1>12. ListInv'
  <2>1. List \in SUBSET Buffer /\ link \in [Buffer -> Buffer \cup None]
        /\ bufList \in Buffer \cup None
    BY DEF LogInv, TypeInv, List
  <2>2. IsList(List \cup {h}, link, h)
    BY <1>2, <2>1, PushList, NotABuffer DEF LogInv, ListInv
  <2> QED BY <1>3, <1>4, <1>8, <2>2 DEF LogInv, ListInv, Everybody
<1>13. LookInv'
  <2> SUFFICES ASSUME NEW u \in Writers, wpc'[u] \in {"link", "pop"}
               PROVE  /\ wbuf[u] \in Buffer
                      /\ wbuf[u] \in List'
                      /\ wpc[u] = "pop" => wnext[u] = link[wbuf[u]]
    BY <1>3, <1>4 DEF LookInv, Everybody
  <2>1. u # t /\ wpc'[u] = wpc[u]
    BY <1>3, <1>4 DEF Everybody
  <2> QED BY <1>8, <2>1, OtherLooks
<1>14. TextInv' /\ EndInv'
  BY <1>2, <1>3, <1>4 DEF LogInv, TextInv, EndInv
<1> QED BY <1>9, <1>10, <1>11, <1>12, <1>13, <1>14 DEF LogInv

(* The worker makes its buffer.                                            *)
LEMMA OwnMade ==
  ASSUME WritersValid, LogInv, AcquireOwn, own = NoBuffer
  PROVE  LogInv'
<1> DEFINE b == Fresh
           e == EventWorker
<1>1. /\ wpc[e] = "idle" /\ e \in Everybody /\ e \notin Writers /\ own' = b
      /\ wpc' = [wpc EXCEPT ![e] = "write"] /\ wbuf' = [wbuf EXCEPT ![e] = b]
      /\ storage' = storage \cup {b} /\ storage # Buffer
      /\ link' = [link EXCEPT ![b] = NoBuffer] /\ text' = [text EXCEPT ![b] = {}]
      /\ UNCHANGED <<bufList, wnext, logging>>
  BY DEF AcquireOwn, Create, Move, Look, Everybody, WritersValid
<1>2. b \in Buffer /\ b \notin storage /\ b # NoBuffer
  BY <1>1, FreshBuffer, NotABuffer DEF LogInv, TypeInv
<1> HIDE DEF b, e
<1>3. TypeInv'
  BY <1>1, <1>2 DEF LogInv, TypeInv, None
<1>4. \A t \in Writers : wbuf'[t] = wbuf[t] /\ wpc'[t] = wpc[t]
  BY <1>1 DEF LogInv, TypeInv, Everybody
<1>5. wpc'[e] = "write" /\ wbuf'[e] = b
  BY <1>1 DEF LogInv, TypeInv
<1>6. \A x \in Buffer \ {b} : link'[x] = link[x] /\ text'[x] = text[x]
  BY <1>1 DEF LogInv, TypeInv
<1>7. (Holding \cap Writers)' = Holding \cap Writers
  BY <1>4 DEF Holding, Everybody
<1>8. Held' = Held /\ Held \subseteq storage
  BY <1>4, <1>7 DEF Held, LogInv, HeldInv
<1>9. List' = List
  BY <1>1, <1>2, <1>8, NotABuffer DEF List, LogInv, TypeInv
<1>10. WorkerInv'
  BY <1>1, <1>2, <1>5 DEF WorkerInv, e
<1>11. HeldInv'
  <2>1. \A t \in Holding \cap Writers : wbuf[t] \in storage
    BY DEF LogInv, HeldInv
  <2> QED BY <1>1, <1>2, <1>4, <1>7, <2>1 DEF LogInv, HeldInv
<1>12. ListInv'
  <2>1. List \in SUBSET Buffer /\ b \notin List
    BY <1>2 DEF LogInv, TypeInv, List
  <2>2. ASSUME logging = "on"
        PROVE  IsList(List, link', bufList)
    <3>1. IsList(List, link, bufList) /\ \A x \in List : link[x] = link'[x]
      BY <1>6, <2>1, <2>2 DEF LogInv, ListInv
    <3>2. /\ link \in [Buffer -> Buffer \cup None] /\ link' \in [Buffer -> Buffer \cup None]
          /\ bufList \in Buffer \cup None
      BY <1>3 DEF LogInv, TypeInv
    <3> QED BY <2>1, <3>1, <3>2, SameList
  <2>3. \A t \in Writers : wpc[t] = "push" => link'[wbuf[t]] = link[wbuf[t]]
    BY <1>2, <1>6, WriterHolds
  <2> QED BY <1>1, <1>4, <1>9, <2>2, <2>3 DEF LogInv, ListInv
<1>13. LookInv'
  <2> SUFFICES ASSUME NEW t \in Writers, wpc[t] \in {"link", "pop"}
               PROVE  wbuf[t] \in Buffer /\ link'[wbuf[t]] = link[wbuf[t]]
    BY <1>1, <1>4, <1>8, <1>9 DEF LogInv, LookInv
  <2>1. wbuf[t] \in storage /\ wbuf[t] \in Buffer
    BY <1>8 DEF LogInv, LookInv, List
  <2> QED BY <1>2, <1>6, <2>1
<1>14. TextInv'
  <2> SUFFICES ASSUME NEW t \in Everybody, wpc'[t] = "sink"
               PROVE  text'[wbuf'[t]] = {t}
    BY DEF TextInv
  <2>1. t \in Writers
    BY <1>5 DEF Everybody, e
  <2>2. wbuf'[t] = wbuf[t] /\ wpc[t] = "sink" /\ wbuf[t] \in storage /\ wbuf[t] \in Buffer
    BY <1>4, <2>1, WriterHolds
  <2> QED BY <1>2, <1>6, <2>2 DEF LogInv, TextInv
<1>15. EndInv'
  BY <1>1 DEF LogInv, EndInv, e
<1> QED BY <1>3, <1>10, <1>11, <1>12, <1>13, <1>14, <1>15 DEF LogInv

(* A worker moves and looks at its own buffer; what it knows follows from  *)
(* where it goes.                                                          *)
LEMMA WorkerMoves ==
  ASSUME WritersValid, LogInv,
         NEW l \in {"none", "idle", "write", "sink"}, Move(EventWorker, l),
         \/ UNCHANGED wbuf
         \/ Look(EventWorker, own),
         l = "none" => own = NoBuffer,
         l \in {"write", "sink"} => wbuf'[EventWorker] = own /\ own # NoBuffer,
         l = "sink" => text'[own] = {EventWorker},
         text' \in [Buffer -> SUBSET Everybody],
         \A b \in Buffer \ {own} : text'[b] = text[b],
         logging = "on",
         UNCHANGED <<bufList, link, storage, wnext, own, logging>>
  PROVE  LogInv'
<1> DEFINE e == EventWorker
<1>1. e \in Everybody /\ e \notin Writers /\ wpc' = [wpc EXCEPT ![e] = l]
  BY DEF Everybody, WritersValid, Move
<1>2. TypeInv'
  BY <1>1 DEF LogInv, TypeInv, Look, None
<1>3. \A t \in Writers : wbuf'[t] = wbuf[t] /\ wpc'[t] = wpc[t]
  BY <1>1 DEF LogInv, TypeInv, Everybody, Look
<1>4. wpc'[e] = l
  BY <1>1 DEF LogInv, TypeInv
<1>5. (Holding \cap Writers)' = Holding \cap Writers
  BY <1>3 DEF Holding, Everybody
<1>6. Held' = Held /\ List' = List
  BY <1>3, <1>5 DEF Held, List
<1>7. WorkerInv'
  BY <1>4 DEF WorkerInv
<1>8. HeldInv'
  BY <1>3, <1>5 DEF LogInv, HeldInv
<1>9. ListInv'
  BY <1>3, <1>6 DEF LogInv, ListInv
<1>10. LookInv'
  BY <1>3, <1>6 DEF LogInv, LookInv
<1>11. TextInv'
  <2>1. ASSUME NEW t \in Writers, wpc'[t] = "sink"
        PROVE  text'[wbuf'[t]] = {t}
    <3>1. wpc[t] = "sink" /\ wbuf'[t] = wbuf[t] /\ wbuf[t] \in Buffer \ {own}
      BY <1>3, <2>1, WriterHolds
    <3> QED BY <3>1 DEF LogInv, TextInv, Everybody
  <2>2. wpc'[e] = "sink" => text'[wbuf'[e]] = {e}
    BY <1>4
  <2> QED BY <2>1, <2>2 DEF TextInv, Everybody
<1>12. EndInv'
  BY DEF EndInv
<1> QED BY <1>2, <1>7, <1>8, <1>9, <1>10, <1>11, <1>12 DEF LogInv

(* A writer has its buffer while it writes and hands it to the sink.       *)
LEMMA WriterMoves ==
  ASSUME WritersValid, LogInv, NEW t \in Writers,
         wpc[t] \in {"write", "sink"}, NEW l \in {"sink", "release"}, Move(t, l),
         l = "sink" => text'[wbuf[t]] = {t},
         text' \in [Buffer -> SUBSET Everybody],
         \A b \in Buffer \ {wbuf[t]} : text'[b] = text[b],
         UNCHANGED <<bufList, link, storage, wbuf, wnext, own, logging>>
  PROVE  LogInv'
<1>1. t \in Everybody /\ t # EventWorker /\ wpc' = [wpc EXCEPT ![t] = l]
  BY DEF Everybody, WritersValid, Move
<1>2. wbuf[t] \in storage \ {own} /\ wbuf[t] \in Buffer /\ logging = "on"
  BY WriterHolds
<1>3. \A u \in Everybody \ {t} : wpc'[u] = wpc[u]
  BY <1>1 DEF LogInv, TypeInv
<1>4. wpc'[t] = l
  BY <1>1 DEF LogInv, TypeInv
<1>5. Holding' = Holding /\ t \in Holding
  BY <1>1, <1>3, <1>4 DEF Holding
<1>6. Held' = Held /\ List' = List
  BY <1>5 DEF Held, List
<1>7. TypeInv'
  BY <1>1 DEF LogInv, TypeInv
<1>8. WorkerInv'
  BY <1>1, <1>3 DEF LogInv, WorkerInv, Everybody
<1>9. HeldInv'
  BY <1>3, <1>4, <1>5 DEF LogInv, HeldInv, Everybody
<1>10. ListInv'
  BY <1>3, <1>4, <1>6 DEF LogInv, ListInv, Everybody
<1>11. LookInv'
  BY <1>3, <1>4, <1>6 DEF LogInv, LookInv, Everybody
<1>12. TextInv'
  <2>1. ASSUME NEW u \in Writers \ {t}, wpc'[u] = "sink"
        PROVE  text'[wbuf'[u]] = {u}
    <3>1. wpc[u] = "sink" /\ wbuf[u] \in Buffer \ {wbuf[t]}
      BY <1>3, <2>1, WriterHolds DEF Everybody
    <3> QED BY <3>1 DEF LogInv, TextInv, Everybody
  <2>2. ASSUME wpc'[EventWorker] = "sink"
        PROVE  text'[wbuf'[EventWorker]] = {EventWorker}
    <3>1. wpc[EventWorker] = "sink" /\ EventWorker \in Everybody
      BY <1>1, <1>3, <2>2 DEF Everybody
    <3>2. wbuf[EventWorker] = own /\ own # NoBuffer
      BY <3>1 DEF LogInv, WorkerInv
    <3>3. own \in Buffer \ {wbuf[t]}
      BY <1>2, <3>2 DEF LogInv, TypeInv, None
    <3> QED BY <3>1, <3>2, <3>3 DEF LogInv, TextInv
  <2>3. wpc'[t] = "sink" => text'[wbuf'[t]] = {t}
    BY <1>4
  <2> QED BY <2>1, <2>2, <2>3 DEF TextInv, Everybody
<1>13. EndInv'
  BY <1>2 DEF EndInv
<1> QED BY <1>7, <1>8, <1>9, <1>10, <1>11, <1>12, <1>13 DEF LogInv

(* The buffer of a worker is freed with it.                                *)
LEMMA OwnFreed ==
  ASSUME WritersValid, LogInv, WorkerStop
  PROVE  LogInv'
<1> DEFINE e == EventWorker
<1>1. /\ wpc[e] = "idle" /\ e \in Everybody /\ e \notin Writers
      /\ wpc' = [wpc EXCEPT ![e] = "none"] /\ storage' = storage \ {own} /\ own' = NoBuffer
      /\ UNCHANGED <<bufList, link, text, wbuf, wnext, logging>>
  BY DEF WorkerStop, Everybody, WritersValid, Move
<1>2. TypeInv'
  BY <1>1 DEF LogInv, TypeInv, None
<1>3. \A t \in Writers : wpc'[t] = wpc[t]
  BY <1>1 DEF LogInv, TypeInv, Everybody
<1>4. wpc'[e] = "none"
  BY <1>1 DEF LogInv, TypeInv
<1>5. (Holding \cap Writers)' = Holding \cap Writers
  BY <1>3 DEF Holding, Everybody
<1>6. Held' = Held
  BY <1>1, <1>5 DEF Held
<1>7. List' = List
  <2>1. NoBuffer \notin storage
    BY NotABuffer DEF LogInv, TypeInv
  <2> QED BY <1>1, <1>6, <2>1 DEF List
<1>8. WorkerInv'
  BY <1>1, <1>4 DEF WorkerInv
<1>9. HeldInv'
  <2>1. NoBuffer \notin storage
    BY NotABuffer DEF LogInv, TypeInv
  <2> QED BY <1>1, <1>3, <1>5, <2>1 DEF LogInv, HeldInv
<1>10. ListInv'
  BY <1>1, <1>3, <1>7 DEF LogInv, ListInv
<1>11. LookInv'
  BY <1>1, <1>3, <1>6, <1>7 DEF LogInv, LookInv
<1>12. TextInv'
  BY <1>1, <1>3, <1>4 DEF LogInv, TextInv, Everybody
<1>13. EndInv'
  BY <1>1, <1>3, <1>4 DEF LogInv, EndInv
<1> QED BY <1>2, <1>8, <1>9, <1>10, <1>11, <1>12, <1>13 DEF LogInv

(* In the end every buffer is in the list, and freed with it.              *)
LEMMA AllFreed ==
  ASSUME WritersValid, LogInv, EventDestroy
  PROVE  LogInv'
<1>1. /\ logging = "on" /\ wpc[EventWorker] = "none" /\ \A t \in Writers : wpc[t] = "idle"
      /\ storage' = storage \ Chain(bufList) /\ logging' = "off"
      /\ UNCHANGED <<bufList, link, text, wpc, wbuf, wnext, own>>
  BY DEF EventDestroy
<1>2. own = NoBuffer /\ Held = {}
  BY <1>1 DEF LogInv, WorkerInv, Held, Holding
<1>3. List = storage /\ List \in SUBSET Buffer
  BY <1>2, NotABuffer DEF List, LogInv, TypeInv
<1>4. storage' = {}
  BY <1>1, <1>3, WalkList DEF LogInv, ListInv
<1>5. TypeInv'
  BY <1>1, <1>2, <1>4 DEF LogInv, TypeInv, None
<1>6. WorkerInv'
  BY <1>1 DEF LogInv, WorkerInv
<1>7. HeldInv' /\ ListInv' /\ LookInv' /\ TextInv'
  <2>1. (Holding \cap Writers)' = {}
    BY <1>1 DEF Holding
  <2>2. HeldInv'
    BY <1>1, <2>1 DEF HeldInv
  <2>3. ListInv' /\ LookInv'
    BY <1>1 DEF ListInv, LookInv
  <2>4. TextInv'
    BY <1>1 DEF LogInv, TextInv
  <2> QED BY <2>2, <2>3, <2>4
<1>8. EndInv'
  BY <1>1, <1>4 DEF EndInv
<1> QED BY <1>5, <1>6, <1>7, <1>8 DEF LogInv

-----------------------------------------------------------------------------
(* Every step preserves the invariant, with two writers.                   *)
LEMMA LogNext ==
  ASSUME WritersValid, TwoWriters, LogInv, [Next]_vars
  PROVE  LogInv'
<1> USE DEF Same
<1>1. CASE UNCHANGED vars
  BY <1>1 DEF vars, LogInv, TypeInv, WorkerInv, HeldInv, ListInv, LookInv, TextInv, EndInv,
              Held, List, Holding
<1>2. ASSUME NEW t \in Writers, Load(t)
      PROVE  LogInv'
  BY <1>2, LoadHead, LoadNew
<1>3. ASSUME NEW t \in Writers, ReadLink(t)
      PROVE  LogInv'
  BY <1>3, LinkRead
<1>4. ASSUME NEW t \in Writers, Pop(t)
      PROVE  LogInv'
  BY <1>4, PopHead, PopFails DEF Pop
<1>5. ASSUME NEW t \in Writers, SetLink(t)
      PROVE  LogInv'
  <2>1. /\ wpc[t] = "release" /\ t \in Everybody /\ Move(t, "push")
        /\ link' = [link EXCEPT ![wbuf[t]] = bufList] /\ wnext' = [wnext EXCEPT ![t] = bufList]
        /\ UNCHANGED <<bufList, text, storage, wbuf, own, logging>>
    BY <1>5 DEF SetLink, Everybody
  <2>2. /\ wnext' \in [Everybody -> Buffer \cup None] /\ wnext'[t] = bufList
        /\ \A u \in Writers \ {t} : wnext'[u] = wnext[u]
    BY <2>1 DEF LogInv, TypeInv, Everybody
  <2> QED BY <2>1, <2>2, LinkSet
<1>6. ASSUME NEW t \in Writers, Push(t)
      PROVE  LogInv'
  <2>1. /\ wpc[t] = "push"
        /\ UNCHANGED <<text, storage, wbuf, wnext, own, logging>>
    BY <1>6 DEF Push
  <2>2. CASE bufList = wnext[t] /\ bufList' = wbuf[t] /\ Move(t, "idle") /\ UNCHANGED link
    BY <2>1, <2>2, PushHead
  <2>3. CASE /\ link' = [link EXCEPT ![wbuf[t]] = bufList]
             /\ Move(t, "release") /\ UNCHANGED bufList
    <3>1. wnext' \in [Everybody -> Buffer \cup None] /\ \A u \in Writers \ {t} : wnext'[u] = wnext[u]
      BY <2>1 DEF LogInv, TypeInv
    <3> QED BY <2>1, <2>3, <3>1, LinkSet
  <2> QED BY <1>6, <2>2, <2>3 DEF Push
<1>7. ASSUME NEW t \in Everybody, WriteEvent(t)
      PROVE  LogInv'
  <2>1. /\ wpc[t] = "write" /\ Move(t, "sink") /\ text' = [text EXCEPT ![wbuf[t]] = {t}]
        /\ UNCHANGED <<bufList, link, storage, wbuf, wnext, own, logging>>
    BY <1>7 DEF WriteEvent
  <2>2. wbuf[t] \in Buffer /\ logging = "on"
    <3>1. CASE t \in Writers
      BY <2>1, <3>1, WriterHolds
    <3>2. CASE t = EventWorker
      BY <2>1, <3>2 DEF LogInv, WorkerInv, TypeInv, EndInv, None
    <3> QED BY <3>1, <3>2 DEF Everybody
  <2>3. /\ text' \in [Buffer -> SUBSET Everybody] /\ text'[wbuf[t]] = {t}
        /\ \A b \in Buffer \ {wbuf[t]} : text'[b] = text[b]
    BY <2>1, <2>2 DEF LogInv, TypeInv
  <2>4. CASE t \in Writers
    BY <2>1, <2>3, <2>4, WriterMoves
  <2>5. CASE t = EventWorker
    <3>1. wbuf[t] = own /\ own # NoBuffer
      BY <2>1, <2>5 DEF LogInv, WorkerInv
    <3> QED BY <2>1, <2>2, <2>3, <2>5, <3>1, WorkerMoves
  <2> QED BY <2>4, <2>5 DEF Everybody
<1>8. ASSUME NEW t \in Everybody, Sink(t)
      PROVE  LogInv'
  <2>1. /\ wpc[t] = "sink" /\ Move(t, IF t = EventWorker THEN "idle" ELSE "release")
        /\ UNCHANGED <<bufList, link, text, storage, wbuf, wnext, own, logging>>
        /\ text' \in [Buffer -> SUBSET Everybody]
    BY <1>8 DEF Sink, LogInv, TypeInv
  <2>2. CASE t \in Writers
    BY <2>1, <2>2, WriterMoves DEF WritersValid
  <2>3. CASE t = EventWorker
    <3>1. logging = "on"
      BY <2>1, <2>3 DEF LogInv, EndInv, TypeInv
    <3> QED BY <2>1, <2>3, <3>1, WorkerMoves
  <2> QED BY <2>2, <2>3 DEF Everybody
<1>9. CASE AcquireOwn
  <2>1. CASE own = NoBuffer
    BY <1>9, <2>1, OwnMade
  <2>2. CASE own # NoBuffer
    <3>1. /\ wpc[EventWorker] = "idle" /\ Move(EventWorker, "write") /\ Look(EventWorker, own)
          /\ UNCHANGED <<bufList, link, text, storage, wnext, own, logging>>
      BY <1>9, <2>2 DEF AcquireOwn
    <3>2. wbuf'[EventWorker] = own /\ logging = "on" /\ text' \in [Buffer -> SUBSET Everybody]
      BY <3>1 DEF LogInv, TypeInv, EndInv, Look, Everybody
    <3> QED BY <2>2, <3>1, <3>2, WorkerMoves
  <2> QED BY <2>1, <2>2
<1>10. CASE WorkerStart
  <2>1. text' \in [Buffer -> SUBSET Everybody]
    BY <1>10 DEF WorkerStart, LogInv, TypeInv
  <2> QED BY <1>10, <2>1, WorkerMoves DEF WorkerStart
<1>11. CASE WorkerStop
  BY <1>11, OwnFreed
<1>12. CASE EventDestroy
  BY <1>12, AllFreed
<1> QED BY <1>1, <1>2, <1>3, <1>4, <1>5, <1>6, <1>7, <1>8, <1>9, <1>10, <1>11, <1>12 DEF Next

(* The invariant says what is wanted.                                      *)
LEMMA LogWhole ==
  ASSUME WritersValid, LogInv
  PROVE  EventsWhole
<1>1. \A t \in Everybody : wpc[t] = "sink" => text[wbuf[t]] = {t}
  BY DEF LogInv, TextInv
<1>2. ASSUME NEW t \in Holding
      PROVE  /\ logging = "on" /\ wbuf[t] \in storage \ List
             /\ t \in Writers => wbuf[t] # own
             /\ t \notin Writers => wbuf[t] = own
  <2>1. CASE t \in Writers
    BY <2>1, WriterHolds DEF Holding
  <2>2. CASE t = EventWorker
    <3>1. wbuf[t] = own /\ own # NoBuffer /\ t \notin Writers
      BY <2>2 DEF LogInv, WorkerInv, Holding, WritersValid
    <3>2. own \in storage
      BY <3>1 DEF LogInv, TypeInv, None
    <3>3. logging = "on"
      BY <3>2 DEF LogInv, EndInv, TypeInv
    <3> QED BY <3>1, <3>2, <3>3 DEF List
  <2> QED BY <2>1, <2>2 DEF Holding, Everybody
<1>3. ASSUME NEW t \in Holding
      PROVE  wbuf[t] \in storage \ Chain(bufList)
  <2>1. List \in SUBSET Buffer
    BY DEF LogInv, TypeInv, List
  <2>2. Chain(bufList) = List
    BY <1>2, <2>1, WalkList DEF LogInv, ListInv
  <2> QED BY <1>2, <2>2
<1>4. \A t, u \in Holding : t # u => wbuf[t] # wbuf[u]
  BY <1>2 DEF LogInv, HeldInv, Holding, Everybody
<1>5. logging = "off" => storage = {}
  BY DEF LogInv, EndInv
<1> QED BY <1>1, <1>3, <1>4, <1>5 DEF EventsWhole

(* No buffer of events has two users or is in the list while it has one,   *)
(* an event reaches the sink as it was written, and every buffer is freed  *)
(* (event.c), however often the exchanges fail, for any number of buffers. *)
THEOREM LogIsWhole ==
  ASSUME WritersValid, TwoWriters
  PROVE  Spec => []EventsWhole
<1>1. Init => LogInv
  BY LogFirst
<1>2. LogInv /\ [Next]_vars => LogInv'
  BY LogNext
<1>3. LogInv => EventsWhole
  BY LogWhole
<1> QED BY <1>1, <1>2, <1>3, PTL DEF Spec

=============================================================================

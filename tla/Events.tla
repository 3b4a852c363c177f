------------------------------- MODULE Events -------------------------------
(***************************************************************************)
(* Who writes events into which buffer (native/event.c).                   *)
(*                                                                         *)
(* A worker has a buffer of its own.  An event of the runtime as such, say *)
(* a new chunk, may come from any thread: such a writer takes a buffer     *)
(* from a lock-free list, or a new one, and puts it back afterwards.  One  *)
(* step is one access to the list, to a link of it, or to the contents of a*)
(* buffer.  The compare-and-swap is a weak one and may fail for no reason. *)
(***************************************************************************)
EXTENDS Naturals

CONSTANTS
  Writers,     \* threads that write events of the runtime
  EventWorker, \* a worker, which writes its own
  MaxBuffers   \* buffers, the worker's included

VARIABLES
  bufList,  \* head of the list
  link,     \* Buffer.next
  text,     \* whose event a buffer has, NoBuffer if nobody's
  storage,  \* buffers allocated
  wpc,      \* where a writer is
  wbuf,     \* the buffer it looks at or has
  wnext,    \* what it takes for the link of that
  own,      \* ChiEventWS.buf
  logging   \* the state of the log: "on", or "off" once it is destroyed

WritersValid == EventWorker \notin Writers /\ MaxBuffers \in Nat

vars == <<bufList, link, text, storage, wpc, wbuf, wnext, own, logging>>

Buffer == 1 .. MaxBuffers
NoBuffer == 0
Everybody == Writers \cup {EventWorker}

(* chiEventSetup                                                           *)
Init ==
  /\ bufList = NoBuffer
  /\ link = [b \in Buffer |-> NoBuffer]
  /\ text = [b \in Buffer |-> {}]
  /\ storage = {}
  /\ wpc = [t \in Everybody |-> IF t = EventWorker THEN "none" ELSE "idle"]
  /\ wbuf = [t \in Everybody |-> NoBuffer]
  /\ wnext = [t \in Everybody |-> NoBuffer]
  /\ own = NoBuffer
  /\ logging = "on"

Move(t, l) == wpc' = [wpc EXCEPT ![t] = l]
Look(t, b) == wbuf' = [wbuf EXCEPT ![t] = b]
Fresh == CHOOSE b \in Buffer : b \notin storage

(* chiZalloc                                                               *)
Create == /\ storage # Buffer
          /\ storage' = storage \cup {Fresh}
          /\ link' = [link EXCEPT ![Fresh] = NoBuffer]
          /\ text' = [text EXCEPT ![Fresh] = {}]

Same == UNCHANGED <<own, logging>>

-----------------------------------------------------------------------------
(* bufferAcquire without a worker: the head is loaded, or nothing is there *)
Load(t) ==
  /\ wpc[t] \in {"idle", "retry"}
  /\ logging = "on"
  /\ IF bufList # NoBuffer
     THEN Move(t, "link") /\ Look(t, bufList) /\ UNCHANGED <<storage, link, text>>
     ELSE Create /\ Look(t, Fresh) /\ Move(t, "write")
  /\ UNCHANGED <<bufList, wnext>> /\ Same

(* ... its link is read: an argument of the compare-and-swap               *)
ReadLink(t) ==
  /\ wpc[t] = "link"
  /\ wnext' = [wnext EXCEPT ![t] = link[wbuf[t]]]
  /\ Move(t, "pop")
  /\ UNCHANGED <<bufList, link, text, storage, wbuf>> /\ Same

(* Broken: taken without a comparison.                                     *)
Pop_store(t) ==
  /\ wpc[t] = "pop"
  /\ bufList' = wnext[t]
  /\ Move(t, "write")
  /\ UNCHANGED <<link, text, storage, wbuf, wnext>> /\ Same

(* ... and the buffer taken, if the head is what it was.                   *)
Pop(t) ==
  /\ wpc[t] = "pop"
  /\ \/ bufList = wbuf[t] /\ bufList' = wnext[t] /\ Move(t, "write")
     \/ Move(t, "retry") /\ UNCHANGED bufList
  /\ UNCHANGED <<link, text, storage, wbuf, wnext>> /\ Same

(* bufferAcquire of a worker                                               *)
AcquireOwn ==
  /\ wpc[EventWorker] = "idle"
  /\ IF own = NoBuffer
     THEN Create /\ own' = Fresh
     ELSE UNCHANGED <<storage, link, text, own>>
  /\ Look(EventWorker, own')
  /\ Move(EventWorker, "write")
  /\ UNCHANGED <<bufList, wnext, logging>>

(* eventWrite: the event is written into the buffer ...                    *)
WriteEvent(t) ==
  /\ wpc[t] = "write"
  /\ text' = [text EXCEPT ![wbuf[t]] = {t}]
  /\ Move(t, "sink")
  /\ UNCHANGED <<bufList, link, storage, wbuf, wnext>> /\ Same

(* ... and the buffer to the sink.                                         *)
Sink(t) ==
  /\ wpc[t] = "sink"
  /\ Move(t, IF t = EventWorker THEN "idle" ELSE "release")
  /\ UNCHANGED <<bufList, link, text, storage, wbuf, wnext>> /\ Same

(* bufferRelease: the link is set ...                                      *)
SetLink(t) ==
  /\ wpc[t] = "release"
  /\ wnext' = [wnext EXCEPT ![t] = bufList]
  /\ link' = [link EXCEPT ![wbuf[t]] = bufList]
  /\ Move(t, "push")
  /\ UNCHANGED <<bufList, text, storage, wbuf>> /\ Same

(* ... and the buffer becomes the head; a failure sets the link to the     *)
(* head found, which the loop then does again.                             *)
Push(t) ==
  /\ wpc[t] = "push"
  /\ \/ bufList = wnext[t] /\ bufList' = wbuf[t] /\ Move(t, "idle") /\ UNCHANGED link
     \/ /\ link' = [link EXCEPT ![wbuf[t]] = bufList]
        /\ Move(t, "release")
        /\ UNCHANGED bufList
  /\ UNCHANGED <<text, storage, wbuf, wnext>> /\ Same

(* chiEventWorkerStart and chiEventWorkerStop                              *)
WorkerStart ==
  /\ wpc[EventWorker] = "none" /\ logging = "on"
  /\ Move(EventWorker, "idle")
  /\ UNCHANGED <<bufList, link, text, storage, wbuf, wnext>> /\ Same

WorkerStop ==
  /\ wpc[EventWorker] = "idle"
  /\ storage' = storage \ {own}
  /\ own' = NoBuffer
  /\ Move(EventWorker, "none")
  /\ UNCHANGED <<bufList, link, text, wbuf, wnext, logging>>

(* The buffers of a list that starts at b: the least set that has b and    *)
(* the link of each of its own.                                            *)
Closed(s, b) == {b} \cup {link[x] : x \in s} \subseteq s \cup {NoBuffer}

Chain(b) == {x \in Buffer : \A s \in SUBSET Buffer : Closed(s, b) => x \in s}

(* chiEventDestroy, with bufferDestroy: the runtime is the last to write.  *)
EventDestroy ==
  /\ logging = "on"
  /\ wpc[EventWorker] = "none"
  /\ \A t \in Writers : wpc[t] = "idle"
  /\ storage' = storage \ Chain(bufList)
  /\ logging' = "off"
  /\ UNCHANGED <<bufList, link, text, wpc, wbuf, wnext, own>>

Next ==
  \/ \E t \in Writers : Load(t) \/ ReadLink(t) \/ Pop(t) \/ SetLink(t) \/ Push(t)
  \/ \E t \in Everybody : WriteEvent(t) \/ Sink(t)
  \/ AcquireOwn \/ WorkerStart \/ WorkerStop \/ EventDestroy

Spec == Init /\ [][Next]_vars

-----------------------------------------------------------------------------
Holding == {t \in Everybody : wpc[t] \in {"write", "sink", "release", "push"}}

(* A buffer goes to the sink as its writer left it; nobody has one that is *)
(* in the list or has been freed; and in the end all have been freed.      *)
EventsWhole ==
  /\ \A t \in Everybody : wpc[t] = "sink" => text[wbuf[t]] = {t}
  /\ \A t \in Holding : wbuf[t] \in storage \ Chain(bufList)
  /\ \A t, u \in Holding : t # u => wbuf[t] # wbuf[u]
  /\ logging = "off" => storage = {}

=============================================================================

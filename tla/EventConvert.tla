---------------------------- MODULE EventConvert ----------------------------
(***************************************************************************)
(* Conversion of a binary event log (native/event.c, chiEventConvert).     *)
(*                                                                         *)
(* Two buffers of the same size: what has been read and not been decoded,  *)
(* and what has been encoded and not been written.  A message is decoded   *)
(* only if all of it is there.  The log is a file, which is read as far as *)
(* the buffer goes, or a pipe (standard input is the default), where a read*)
(* may return less.  A log may end within a message.                       *)
(***************************************************************************)
EXTENDS Naturals, Sequences, SequencesExt, FiniteSetsExt

CONSTANTS
  BufSize,   \* bytes of each buffer
  Messages,  \* sizes of messages, as they are in the log
  Longer,    \* how much longer than that they are when written
  MaxLog,    \* bound on the messages of a log
  Pipe       \* whether reads may be short

VARIABLES
  log,      \* sizes of the messages
  left,     \* bytes not read yet
  inRead,   \* bytes in the input buffer
  inPos,    \* those of them decoded
  outPos,   \* bytes in the output buffer
  decoded,  \* messages decoded
  written,  \* messages written
  status    \* "read", "parse", and the ways to end

vars == <<log, left, inRead, inPos, outPos, decoded, written, status>>

Sum(s) == FoldLeft(LAMBDA a, b : a + b, 0, s)

Init ==
  /\ log \in UNION {[1 .. n -> Messages] : n \in 0 .. MaxLog}
  /\ left \in {n \in 0 .. Sum(log) : n = Sum(log) \/ n > Sum(Front(log))}
  /\ inRead = 0 /\ inPos = 0 /\ outPos = 0
  /\ decoded = 0 /\ written = 0
  /\ status = "read"

(* chiFileRead returns these numbers of bytes                              *)
Returned ==
  LET most == Min({left, BufSize - inRead})
  IN  IF Pipe /\ most > 0 THEN 1 .. most ELSE {most}

(* The rest is written when nothing is left.                               *)
Read ==
  /\ status = "read"
  /\ \E n \in Returned :
       /\ left' = left - n
       /\ inRead' = inRead + n
       /\ IF inRead + n = 0
          THEN status' = "done" /\ outPos' = 0 /\ written' = decoded
          ELSE status' = "parse" /\ UNCHANGED <<outPos, written>>
  /\ UNCHANGED <<log, inPos, decoded>>

(* readBinEvent finds a message in what has been read and is not decoded.  *)
Complete == decoded < Len(log) /\ inPos + log[decoded + 1] <= inRead

(* Broken: the buffer that was written is not emptied.                     *)
Convert_keep ==
  /\ status = "parse" /\ Complete
  /\ LET size == log[decoded + 1] + Longer
         flush == size > BufSize - outPos
     IN  /\ inPos' = inPos + log[decoded + 1]
         /\ written' = IF flush THEN decoded ELSE written
         /\ outPos' = outPos + size
         /\ decoded' = decoded + 1
         /\ status' = "parse"
  /\ UNCHANGED <<log, left, inRead>>

(* A message is decoded and encoded, the output written when it is full.   *)
Convert ==
  /\ status = "parse" /\ Complete
  /\ LET size == log[decoded + 1] + Longer
         flush == size > BufSize - outPos
     IN  /\ inPos' = inPos + log[decoded + 1]
         /\ written' = IF flush THEN decoded ELSE written
         /\ IF size > BufSize
            THEN status' = "too long" /\ outPos' = 0 /\ UNCHANGED decoded
            ELSE /\ outPos' = (IF flush THEN 0 ELSE outPos) + size
                 /\ decoded' = decoded + 1
                 /\ UNCHANGED status
  /\ UNCHANGED <<log, left, inRead>>

(* No message is complete: what is left of the input moves to the front.   *)
Refill ==
  /\ status = "parse" /\ ~Complete
  /\ IF inPos = 0
     THEN status' = "unexpected end" /\ UNCHANGED <<inRead, inPos>>
     ELSE status' = "read" /\ inRead' = inRead - inPos /\ inPos' = 0
  /\ UNCHANGED <<log, left, outPos, decoded, written>>

Next == Read \/ Convert \/ Refill

Spec == Init /\ [][Next]_vars

-----------------------------------------------------------------------------
(* The log was cut off, or a message is longer than the input buffer.      *)
Damaged(s) == inRead + left < Sum(SubSeq(s, decoded + 1, Len(s))) \/ \E i \in DOMAIN s : s[i] > BufSize

(* All messages are written when the conversion ends well; it complains of *)
(* an unexpected end only if the log has one, or a message that does not   *)
(* fit; and no buffer overflows.                                           *)
Converted ==
  /\ inPos <= inRead /\ inRead <= BufSize /\ outPos <= BufSize
  /\ status = "done" => written = Len(log)
  /\ status = "unexpected end" => Damaged(log)
  /\ status = "too long" => \E i \in DOMAIN log : log[i] + Longer > BufSize

=============================================================================

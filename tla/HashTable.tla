----------------------------- MODULE HashTable -----------------------------
(***************************************************************************)
(* The hash tables of the runtime (generic/hashtable.h): open addressing   *)
(* with linear probing, deletion that shifts entries back instead of       *)
(* leaving tombstones, growth by a factor of two.  An entry is its key.    *)
(***************************************************************************)
EXTENDS Naturals, FiniteSets, FiniteSetsExt

CONSTANTS
  Keys,      \* the keys
  Hashes,    \* the hash values they may have
  InitSize   \* 1 << CHI_HT_INITSHIFT

MaxFill == 80  \* CHI_HT_MAXFILL, percent
NoKey == "none"

VARIABLES
  entry,    \* 0 .. capacity - 1 |-> key, or the empty function for no memory
  used,     \* h->used
  hash,     \* key |-> its hash value
  entries   \* the keys the program has inserted and not deleted

hashTable == <<entry, used>>
vars == <<hashTable, hash, entries>>

Capacity(e) == Cardinality(DOMAIN e)
Probe(e, i, n) == (i + n) % Capacity(e)
Full == used >= (MaxFill * Capacity(entry)) \div 100

(* HT_INSERTPOS: the first free entry from that of the hash value on.      *)
InsertPos(e, i) ==
  Probe(e, i, Min({n \in DOMAIN e : e[Probe(e, i, n)] = NoKey}))

(* HT_FINDPOS: the first entry that is free or has the key.                *)
FindPos(k) ==
  Probe(entry, hash[k], Min({n \in DOMAIN entry : entry[Probe(entry, hash[k], n)] \in {NoKey, k}}))
Found(k) == DOMAIN entry # {} /\ entry[FindPos(k)] = k

(* HT_GROW: the entries move in the order of the old table.                *)
Grown ==
  LET size == IF entry = <<>> THEN InitSize ELSE 2 * Capacity(entry)
      Moved[n \in 0 .. Capacity(entry)] ==
        IF n = 0 THEN [i \in 0 .. size - 1 |-> NoKey]
        ELSE LET k == entry[n - 1]
             IN  IF k = NoKey THEN Moved[n - 1]
                 ELSE [Moved[n - 1] EXCEPT ![InsertPos(Moved[n - 1], hash[k])] = k]
  IN  Moved[Capacity(entry)]

Init ==
  /\ entry = <<>>
  /\ used = 0
  /\ hash \in [Keys -> Hashes]
  /\ entries = {}

(* HT_CREATE of a new key: where the search ended, unless the table is     *)
(* full or has no memory; HT_INSERT otherwise.                             *)
Create(k) ==
  /\ ~Found(k)
  /\ LET full == entry = <<>> \/ Full
         e == IF full THEN Grown ELSE entry
         at == IF full THEN InsertPos(e, hash[k]) ELSE FindPos(k)
     IN  entry' = [e EXCEPT ![at] = k]
  /\ used' = used + 1
  /\ entries' = entries \cup {k}
  /\ UNCHANGED hash

(* HT_INSERT by a caller that knows the key is new.                        *)
Insert(k) ==
  /\ k \notin entries
  /\ LET e == IF Full THEN Grown ELSE entry
     IN  entry' = [e EXCEPT ![InsertPos(e, hash[k])] = k]
  /\ used' = used + 1
  /\ entries' = entries \cup {k}
  /\ UNCHANGED hash

(* Broken: every entry behind the gap moves, whatever its hash value.      *)
Shifted_all(e, gap) ==
  LET Walk[n \in 0 .. Capacity(e)] ==
        IF n = 0 THEN [e |-> e, gap |-> gap, f |-> Probe(e, gap, 1)]
        ELSE LET w == Walk[n - 1]
                 k == w.e[w.f]
             IN  IF k = NoKey THEN w
                 ELSE [e |-> [w.e EXCEPT ![w.gap] = k], gap |-> w.f, f |-> Probe(e, w.f, 1)]
      end == Walk[Capacity(e)]
  IN  [end.e EXCEPT ![end.gap] = NoKey]

(* The entries behind the gap, up to the next free one: one that is at     *)
(* least shift behind its own place moves into the gap and leaves one.     *)
Shifted(e, gap) ==
  LET Walk[n \in 0 .. Capacity(e)] ==
        IF n = 0 THEN [e |-> e, gap |-> gap, f |-> Probe(e, gap, 1), shift |-> 1]
        ELSE LET w == Walk[n - 1]
                 k == w.e[w.f]
                 far == ((w.f + Capacity(e)) - (hash[k] % Capacity(e))) % Capacity(e) >= w.shift
                 next == [w EXCEPT !.f = Probe(e, @, 1)]
             IN  IF k = NoKey THEN w
                 ELSE IF far THEN [next EXCEPT !.e[w.gap] = k, !.gap = w.f, !.shift = 1]
                 ELSE [next EXCEPT !.shift = @ + 1]
      end == Walk[Capacity(e)]
  IN  [end.e EXCEPT ![end.gap] = NoKey]

(* HT_DELETE                                                               *)
Delete(k) ==
  /\ Found(k)
  /\ entry' = Shifted(entry, FindPos(k))
  /\ used' = used - 1
  /\ entries' = entries \ {k}
  /\ UNCHANGED hash

Next == \E k \in Keys : Create(k) \/ Insert(k) \/ Delete(k)

Spec == Init /\ [][Next]_vars

-----------------------------------------------------------------------------
(* The table is the set of the keys inserted and not deleted: each of them *)
(* is found, in one entry only, whatever was deleted in front of it and    *)
(* however its run wraps around; a search for any other key ends.          *)
HashFinds ==
  /\ used = Cardinality(entries)
  /\ \A k \in Keys : Found(k) <=> k \in entries
  /\ entry # <<>> => /\ used < Capacity(entry)
                     /\ Cardinality({i \in DOMAIN entry : entry[i] # NoKey}) = used

=============================================================================

---------------------------- MODULE HistoryRing ----------------------------
(***************************************************************************)
(* The history ring of the line editor, microrl.cpp: the saved lines lie in*)
(* a ring buffer one after the other, each behind a byte with its length,  *)
(* and a zero length ends them.  A space in a line is a zero byte too.     *)
(***************************************************************************)
EXTENDS Integers, Sequences

CONSTANT RingLen   \* _RING_HISTORY_LEN
ASSUME RingAssumption == RingLen \in Nat /\ RingLen > 2

VARIABLES
  ring_buf,
  begin,   \* the oldest line's length byte
  end,     \* the zero length
  cur      \* how many lines back the user has gone

ringVars == <<ring_buf, begin, end, cur>>

RingInit ==
  /\ ring_buf = [p \in 0 .. RingLen - 1 |-> 0]
  /\ begin = 0
  /\ end = 0
  /\ cur = 0

Wrap(p) == IF p >= RingLen THEN p - RingLen ELSE p

(* The place of the k-th length byte; the zero one is its own successor. *)
Header[k \in 0 .. RingLen] ==
  IF k = 0 THEN begin
  ELSE LET p == Header[k - 1]
       IN IF ring_buf[p] = 0 THEN p ELSE Wrap(p + ring_buf[p] + 1)

Count ==
  CHOOSE k \in 0 .. RingLen :
    /\ ring_buf[Header[k]] = 0
    /\ \A j \in 0 .. k - 1 : ring_buf[Header[j]] # 0

(* The text behind a length byte, up to the end of the buffer and on from   *)
(* its beginning.                                                            *)
Text(p) == [i \in 1 .. ring_buf[p] |-> ring_buf[Wrap(p + i)]]

Saved == [k \in 1 .. Count |-> Text(Header[k - 1])]

(* Mutant: the last unit is given away, too. *)
SpaceForNewNoEnd(b, len) ==
  \/ ring_buf[b] = 0
  \/ end >= b /\ RingLen - end + b - 1 >= len
  \/ end < b /\ b - end - 1 >= len

(* hist_is_space_for_new, when the oldest line is at b *)
SpaceForNew(b, len) ==
  \/ ring_buf[b] = 0
  \/ end >= b /\ RingLen - end + b - 1 > len
  \/ end < b /\ b - end - 1 > len

(* hist_save_line: the oldest lines are erased until there is space, the    *)
(* text is written behind the length, and the next length is zero.           *)
SaveLine(line) ==
  LET len == Len(line)
      b == Header[CHOOSE k \in 0 .. RingLen :
                    /\ SpaceForNew(Header[k], len)
                    /\ \A j \in 0 .. k - 1 : ~SpaceForNew(Header[j], len)]
      e == Wrap(end + len + 1)
      At(p) == Wrap(RingLen + p - end)
  IN IF len > RingLen - 2 THEN UNCHANGED ringVars
     ELSE /\ cur' = 0
          /\ begin' = b
          /\ end' = e
          /\ ring_buf' = [p \in DOMAIN ring_buf |->
                CASE p = e -> 0
                  [] p = end -> len
                  [] p # e /\ At(p) \in 1 .. len -> line[At(p)]
                  [] OTHER -> ring_buf[p]]

(* hist_restore_line: the line to show, if there is one to go to.            *)
RestoreUp == IF cur < Count THEN Text(Header[Count - 1 - cur]) ELSE <<>>

RestoreDown == IF cur > 0 THEN Text(Header[Count - cur + 1]) ELSE <<>>
=============================================================================

------------------------------ MODULE ServerRx ------------------------------
(***************************************************************************)
(* SlidingWindowRxControl, server/wtp/wtp/transmission.py: the receive     *)
(* control of the uplink.  The object is a record and handle_packet an     *)
(* operator that returns the object after the call, with its result.       *)
(*                                                                         *)
(* Two details of the Python loops are kept because they decide what is    *)
(* accepted: after a search loop that was not left by `break' the index is *)
(* that of the last item, not one beyond it; and the loop that assembles   *)
(* fragments counts the one at which it stopped among those to remove.     *)
(***************************************************************************)
EXTENDS WtpParams

\* SlidingWindowRxControl.__init__
NewRxCtrl ==
  [seq       |-> 0,      \* seq_num: everything before it is assembled
   data      |-> <<>>,   \* _msg_data
   fragments |-> <<>>,   \* _fragments
   infos     |-> <<>>]   \* _msg_info

\* Sequence number s as seen under `with self.seq_num.as_zero()'.
RelRx(r, s) == SeqSub(s, r.seq)

\* `pkt_range not in sliding_window', CyclicRange.__contains__
OutOfWindow(r, seq, len) ==
  \/ RelRx(r, SeqAdd(seq, len)) < RelRx(r, seq)
  \/ Window < RelRx(r, SeqAdd(seq, len))

\* The index the search loop ends with: the first number larger than n, or the
\* last of all.
SearchIndex(nums, n) ==
  LET larger == {i \in DOMAIN nums : n < nums[i]}
  IN IF nums = <<>> THEN 1 ELSE IF larger = {} THEN Len(nums) ELSE Min(larger)

\* Does size bytes from n on reach over the number found?
ReachesOver(nums, n, size) ==
  nums # <<>> /\ SeqAdd(n, size) > nums[SearchIndex(nums, n)]

\* The fragment f continues what has been assembled up to seq.
Continues(seq, f) == f.seq = seq

\* One turn of the loop over the fragments.
Gather(w, f) ==
  LET seq  == SeqAdd(w.seq, Len(f.data))
      data == w.data \o f.data
      ends == w.infos # <<>> /\ SeqAdd(Head(w.infos).begin, Head(w.infos).size) = seq
  IN CASE ~w.going -> w
       [] w.going /\ ~Continues(w.seq, f) ->
            [w EXCEPT !.looked = @ + 1, !.going = FALSE]
       [] w.going /\ Continues(w.seq, f) ->
            [w EXCEPT !.looked = @ + 1, !.seq = seq,
                      !.data  = IF ends THEN <<>> ELSE data,
                      !.infos = IF ends THEN Tail(@) ELSE @,
                      !.msgs  = IF ends THEN Append(@, data) ELSE @]

\* How many fragments are removed: all that the loop looked at.
Looked(w) == w.looked

\* handle_packet: the object after the call and the messages that became
\* complete.  msgSize is 0 for a packet that begins no message.
RxCtrlHandlePacket(r, seq, data, msgSize) ==
  LET begins   == [i \in DOMAIN r.infos |-> RelRx(r, r.infos[i].begin)]
      numbers  == [i \in DOMAIN r.fragments |-> RelRx(r, r.fragments[i].seq)]
      n        == RelRx(r, seq)
      noted    == IF msgSize = 0 THEN r
                  ELSE [r EXCEPT !.infos = InsertAt(@, SearchIndex(begins, n),
                                             [begin |-> seq, size |-> msgSize])]
      inserted == InsertAt(r.fragments, SearchIndex(numbers, n),
                           [seq |-> seq, data |-> data])
      start    == [seq |-> r.seq, data |-> r.data, infos |-> noted.infos,
                   msgs |-> <<>>, looked |-> 0, going |-> TRUE]
      Outcome(w) ==
        [rx   |-> [seq |-> w.seq, data |-> w.data, infos |-> w.infos,
                   fragments |-> SubSeq(inserted, Looked(w) + 1, Len(inserted))],
         msgs |-> w.msgs]
  IN IF OutOfWindow(r, seq, Len(data)) THEN [rx |-> r, msgs |-> <<>>]
     ELSE IF msgSize > 0 /\ ReachesOver(begins, n, msgSize) THEN [rx |-> r, msgs |-> <<>>]
     ELSE IF ReachesOver(numbers, n, Len(data)) THEN [rx |-> noted, msgs |-> <<>>]
     ELSE Strictly(Outcome, Fold(Gather, start, inserted))
=============================================================================

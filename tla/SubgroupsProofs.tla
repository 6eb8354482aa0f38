-------------------------- MODULE SubgroupsProofs --------------------------
(***************************************************************************)
(* Proofs about Subgroups, for any number of subgroups, objects and        *)
(* tolerated failures: every hop holds a prefix of the hop before it, and  *)
(* the far reader sees what GroupFeed promises.                            *)
(***************************************************************************)
EXTENDS Subgroups, FiniteSetTheorems, TLAPS

\* The constants bound sets of numbers.
LEMMA Bounds ==
  /\ MaxSubgroups \in Nat /\ MaxObjects \in Nat /\ MaxErrors \in Nat
  /\ MaxSubgroups > 0 /\ MaxObjects > 0 /\ MaxErrors > 0
BY SubgroupsAssumption

\* A subgroup is a number between 1 and the bound.
LEMMA Numbers == \A g : g \in Subgroup <=> g \in Nat /\ 1 <= g /\ g <= MaxSubgroups
BY Bounds DEF Subgroup

\* Nothing has been served, sent or read in the initial state.
LEMMA InitInv == Init => SubgroupsInv
<1> SUFFICES ASSUME Init PROVE SubgroupsInv
  OBVIOUS
<1> USE Bounds, Numbers DEF Init
<1>1. TrackTypeOK
  BY DEF TrackTypeOK
<1>2. ServerTypeOK
  BY DEF ServerTypeOK
<1>3. RecvTypeOK
  <2>1. entry \in BOOLEAN /\ overtaken \in BOOLEAN
    OBVIOUS
  <2>2. QED
    BY <2>1 DEF RecvTypeOK
<1>4. ReaderTypeOK
  BY DEF ReaderTypeOK
<1>5. PrefixAtEveryHop
  BY DEF PrefixAtEveryHop
<1>6. StreamsOfServed
  BY DEF StreamsOfServed
<1>7. QED
  BY <1>1, <1>2, <1>3, <1>4, <1>5, <1>6 DEF SubgroupsInv, TypeOK

\* Steps of the publisher's track.
LEMMA TrackInv ==
  ASSUME SubgroupsInv, NEW g \in Subgroup,
         \/ AppendSubgroup(g) \/ WriteObject(g) \/ FinishSubgroup(g)
         \/ BreakSubgroup(g) \/ EndTrack
  PROVE  SubgroupsInv'
<1> USE Bounds, Numbers DEF SubgroupsInv, TypeOK, serverVars, recvVars, readerVars
<1>1. CASE AppendSubgroup(g)
  <2> USE <1>1 DEF AppendSubgroup
  <2>1. TrackTypeOK'
    BY DEF TrackTypeOK
  <2>2. ServerTypeOK' /\ RecvTypeOK' /\ ReaderTypeOK'
    BY DEF ServerTypeOK, RecvTypeOK, ReaderTypeOK
  <2>3. PrefixAtEveryHop'
    BY DEF TrackTypeOK, ServerTypeOK, RecvTypeOK, ReaderTypeOK, PrefixAtEveryHop, StreamsOfServed
  <2>4. StreamsOfServed'
    BY DEF TrackTypeOK, ServerTypeOK, RecvTypeOK, ReaderTypeOK, PrefixAtEveryHop, StreamsOfServed
  <2>5. QED
    BY <2>1, <2>2, <2>3, <2>4
<1>2. CASE WriteObject(g)
  <2> USE <1>2 DEF WriteObject
  <2>1. TrackTypeOK'
    BY DEF TrackTypeOK
  <2>2. ServerTypeOK' /\ RecvTypeOK' /\ ReaderTypeOK'
    BY DEF ServerTypeOK, RecvTypeOK, ReaderTypeOK
  <2>3. PrefixAtEveryHop'
    BY DEF TrackTypeOK, ServerTypeOK, RecvTypeOK, ReaderTypeOK, PrefixAtEveryHop, StreamsOfServed
  <2>4. StreamsOfServed'
    BY DEF TrackTypeOK, ServerTypeOK, RecvTypeOK, ReaderTypeOK, PrefixAtEveryHop, StreamsOfServed
  <2>5. QED
    BY <2>1, <2>2, <2>3, <2>4
<1>3. CASE FinishSubgroup(g)
  <2> USE <1>3 DEF FinishSubgroup
  <2>1. TrackTypeOK'
    BY DEF TrackTypeOK
  <2>2. ServerTypeOK' /\ RecvTypeOK' /\ ReaderTypeOK'
    BY DEF ServerTypeOK, RecvTypeOK, ReaderTypeOK
  <2>3. PrefixAtEveryHop'
    BY DEF TrackTypeOK, ServerTypeOK, RecvTypeOK, ReaderTypeOK, PrefixAtEveryHop, StreamsOfServed
  <2>4. StreamsOfServed'
    BY DEF TrackTypeOK, ServerTypeOK, RecvTypeOK, ReaderTypeOK, PrefixAtEveryHop, StreamsOfServed
  <2>5. QED
    BY <2>1, <2>2, <2>3, <2>4
<1>4. CASE EndTrack
  <2> USE <1>4 DEF EndTrack
  <2>1. TrackTypeOK'
    BY DEF TrackTypeOK
  <2>2. ServerTypeOK' /\ RecvTypeOK' /\ ReaderTypeOK'
    BY DEF ServerTypeOK, RecvTypeOK, ReaderTypeOK
  <2>3. PrefixAtEveryHop'
    BY DEF TrackTypeOK, ServerTypeOK, RecvTypeOK, ReaderTypeOK, PrefixAtEveryHop, StreamsOfServed
  <2>4. StreamsOfServed'
    BY DEF TrackTypeOK, ServerTypeOK, RecvTypeOK, ReaderTypeOK, PrefixAtEveryHop, StreamsOfServed
  <2>5. QED
    BY <2>1, <2>2, <2>3, <2>4
<1>5. CASE BreakSubgroup(g)
  <2> USE <1>5 DEF BreakSubgroup
  <2>1. TrackTypeOK'
    BY DEF TrackTypeOK
  <2>2. ServerTypeOK' /\ RecvTypeOK' /\ ReaderTypeOK'
    BY DEF ServerTypeOK, RecvTypeOK, ReaderTypeOK
  <2>3. PrefixAtEveryHop'
    BY DEF TrackTypeOK, ServerTypeOK, RecvTypeOK, ReaderTypeOK, PrefixAtEveryHop, StreamsOfServed
  <2>4. StreamsOfServed'
    BY DEF TrackTypeOK, ServerTypeOK, RecvTypeOK, ReaderTypeOK, PrefixAtEveryHop, StreamsOfServed
  <2>5. QED
    BY <2>1, <2>2, <2>3, <2>4
<1>6. QED
  BY <1>1, <1>2, <1>3, <1>4, <1>5

\* Steps of serve_subgroups and its tasks.
LEMMA ServerInv ==
  ASSUME SubgroupsInv, NEW g \in Subgroup,
         \/ NextSubgroup \/ ServeEnds
         \/ OpenStream(g) \/ SendObject(g) \/ CutStream(g) \/ FinishStream(g)
  PROVE  SubgroupsInv'
<1> USE Bounds, Numbers DEF SubgroupsInv, TypeOK, trackVars, recvVars, readerVars
<1>1. CASE NextSubgroup
  <2> USE <1>1 DEF NextSubgroup
  <2>0. latest \in Subgroup
    <3>1. latest \in Nat /\ served \in Nat /\ served < latest /\ latest <= MaxSubgroups
      BY DEF TrackTypeOK, ServerTypeOK, PrefixAtEveryHop
    <3>2. QED
      BY <3>1
  <2>1. ServerTypeOK'
    BY <2>0 DEF ServerTypeOK, TrackTypeOK
  <2>2. TrackTypeOK' /\ RecvTypeOK' /\ ReaderTypeOK'
    BY DEF TrackTypeOK, RecvTypeOK, ReaderTypeOK
  <2>3. PrefixAtEveryHop'
    BY DEF TrackTypeOK, ServerTypeOK, RecvTypeOK, ReaderTypeOK, PrefixAtEveryHop, StreamsOfServed
  <2>4. StreamsOfServed'
    <3>1. served <= latest /\ latest \in Nat /\ served \in Nat
      BY DEF TrackTypeOK, ServerTypeOK, PrefixAtEveryHop
    <3>2. \A h \in Subgroup : task'[h] # "none" => h <= latest
      BY <2>0, <3>1 DEF ServerTypeOK, StreamsOfServed
    <3>3. \A i \in DOMAIN opened : opened[i] <= latest
      BY <3>1 DEF ServerTypeOK, StreamsOfServed
    <3>4. QED
      BY <3>1, <3>2, <3>3 DEF RecvTypeOK, StreamsOfServed
  <2>5. QED
    BY <2>1, <2>2, <2>3, <2>4
<1>2. CASE ServeEnds
  <2> USE <1>2 DEF ServeEnds
  <2>1. ServerTypeOK'
    BY DEF ServerTypeOK, StreamsOfServed
  <2>2. TrackTypeOK' /\ RecvTypeOK' /\ ReaderTypeOK'
    BY DEF TrackTypeOK, RecvTypeOK, ReaderTypeOK
  <2>3. PrefixAtEveryHop'
    BY DEF TrackTypeOK, ServerTypeOK, RecvTypeOK, ReaderTypeOK, PrefixAtEveryHop, StreamsOfServed
  <2>4. StreamsOfServed'
    BY DEF TrackTypeOK, ServerTypeOK, RecvTypeOK, ReaderTypeOK, PrefixAtEveryHop, StreamsOfServed
  <2>5. QED
    BY <2>1, <2>2, <2>3, <2>4
<1>3. CASE OpenStream(g)
  <2> USE <1>3 DEF OpenStream
  <2>1. ServerTypeOK'
    BY DEF ServerTypeOK, StreamsOfServed
  <2>2. TrackTypeOK' /\ RecvTypeOK' /\ ReaderTypeOK'
    BY DEF TrackTypeOK, RecvTypeOK, ReaderTypeOK
  <2>3. PrefixAtEveryHop'
    BY DEF TrackTypeOK, ServerTypeOK, RecvTypeOK, ReaderTypeOK, PrefixAtEveryHop, StreamsOfServed
  <2>4. StreamsOfServed'
    <3>1. \A i \in DOMAIN opened' : opened'[i] <= served
      BY DEF ServerTypeOK, StreamsOfServed
    <3>2. \A h \in Subgroup : task'[h] # "none" => h <= served
      BY DEF ServerTypeOK, StreamsOfServed
    <3>3. QED
      BY <3>1, <3>2 DEF StreamsOfServed
  <2>5. QED
    BY <2>1, <2>2, <2>3, <2>4
<1>4. CASE SendObject(g)
  <2> USE <1>4 DEF SendObject
  <2>1. ServerTypeOK'
    BY DEF ServerTypeOK, TrackTypeOK
  <2>2. TrackTypeOK' /\ RecvTypeOK' /\ ReaderTypeOK'
    BY DEF TrackTypeOK, RecvTypeOK, ReaderTypeOK
  <2>3. PrefixAtEveryHop'
    BY DEF TrackTypeOK, ServerTypeOK, RecvTypeOK, ReaderTypeOK, PrefixAtEveryHop, StreamsOfServed
  <2>4. StreamsOfServed'
    BY DEF TrackTypeOK, ServerTypeOK, RecvTypeOK, ReaderTypeOK, PrefixAtEveryHop, StreamsOfServed
  <2>5. QED
    BY <2>1, <2>2, <2>3, <2>4
<1>5. CASE CutStream(g)
  <2> USE <1>5 DEF CutStream
  <2>1. ServerTypeOK'
    BY DEF ServerTypeOK, StreamsOfServed
  <2>2. TrackTypeOK' /\ RecvTypeOK' /\ ReaderTypeOK'
    BY DEF TrackTypeOK, RecvTypeOK, ReaderTypeOK
  <2>3. PrefixAtEveryHop'
    BY DEF TrackTypeOK, ServerTypeOK, RecvTypeOK, ReaderTypeOK, PrefixAtEveryHop, StreamsOfServed
  <2>4. StreamsOfServed'
    BY DEF TrackTypeOK, ServerTypeOK, RecvTypeOK, ReaderTypeOK, PrefixAtEveryHop, StreamsOfServed
  <2>5. QED
    BY <2>1, <2>2, <2>3, <2>4
<1>6. CASE FinishStream(g)
  <2> USE <1>6 DEF FinishStream
  <2>1. ServerTypeOK'
    BY DEF ServerTypeOK, StreamsOfServed
  <2>2. TrackTypeOK' /\ RecvTypeOK' /\ ReaderTypeOK'
    BY DEF TrackTypeOK, RecvTypeOK, ReaderTypeOK
  <2>3. PrefixAtEveryHop'
    BY DEF TrackTypeOK, ServerTypeOK, RecvTypeOK, ReaderTypeOK, PrefixAtEveryHop, StreamsOfServed
  <2>4. StreamsOfServed'
    BY DEF TrackTypeOK, ServerTypeOK, RecvTypeOK, ReaderTypeOK, PrefixAtEveryHop, StreamsOfServed
  <2>5. QED
    BY <2>1, <2>2, <2>3, <2>4
<1>7. QED
  BY <1>1, <1>2, <1>3, <1>4, <1>5, <1>6

\* accept_uni takes the first of the streams and leaves the others as they are.
LEMMA Accepted ==
  ASSUME ServerTypeOK, AcceptStream
  PROVE  /\ 1 \in DOMAIN opened /\ current' = opened[1] /\ opened[1] \in Subgroup
         /\ \A i \in DOMAIN opened' :
              i + 1 \in DOMAIN opened /\ opened'[i] = opened[i + 1] /\ i + 1 # 1
<1> USE DEF AcceptStream, ServerTypeOK
<1>1. 1 \in DOMAIN opened /\ current' = opened[1] /\ opened[1] \in Subgroup
  OBVIOUS
<1>2. /\ Len(opened) \in Nat
      /\ DOMAIN opened = 1 .. Len(opened) /\ DOMAIN opened' = 1 .. Len(opened) - 1
  OBVIOUS
<1>3. \A i \in 1 .. Len(opened) - 1 : opened'[i] = opened[i + 1]
  OBVIOUS
<1>4. QED
  BY <1>1, <1>2, <1>3

\* Steps of run_streams and recv_stream.
LEMMA RecvInv ==
  ASSUME SubgroupsInv,
         \/ AcceptStream \/ RecvHeader \/ RejectHeader \/ RecvObject \/ RejectObject
         \/ RecvFin \/ RecvCut \/ RecvSubscribeDone
  PROVE  SubgroupsInv'
<1> USE Bounds, Numbers DEF SubgroupsInv, TypeOK, trackVars, serverVars, readerVars
<1>1. CASE AcceptStream
  <2> USE <1>1 DEF AcceptStream
  <2>1. ServerTypeOK'
    BY DEF ServerTypeOK, StreamsOfServed
  <2>2. RecvTypeOK'
    BY DEF RecvTypeOK, ServerTypeOK
  <2>3. TrackTypeOK' /\ ReaderTypeOK'
    BY DEF TrackTypeOK, ReaderTypeOK
  <2>4. PrefixAtEveryHop'
    BY DEF TrackTypeOK, ServerTypeOK, RecvTypeOK, ReaderTypeOK, PrefixAtEveryHop, StreamsOfServed
  <2>5. StreamsOfServed'
    <3>1. \A i \in DOMAIN opened' : opened'[i] <= served
      BY Accepted DEF StreamsOfServed
    <3>2. current' \in Subgroup /\ current' <= served
      BY Accepted DEF StreamsOfServed
    <3>3. QED
      BY <3>1, <3>2 DEF StreamsOfServed
  <2>6. QED
    BY <2>1, <2>2, <2>3, <2>4, <2>5
<1>2. CASE RecvHeader
  <2> USE <1>2 DEF RecvHeader, CreateCopy
  <2>1. RecvTypeOK'
    BY DEF RecvTypeOK, StreamsOfServed
  <2>2. TrackTypeOK' /\ ServerTypeOK' /\ ReaderTypeOK'
    BY DEF TrackTypeOK, ServerTypeOK, ReaderTypeOK
  <2>3. PrefixAtEveryHop'
    BY DEF TrackTypeOK, ServerTypeOK, RecvTypeOK, ReaderTypeOK, PrefixAtEveryHop, StreamsOfServed
  <2>4. StreamsOfServed'
    BY DEF TrackTypeOK, ServerTypeOK, RecvTypeOK, ReaderTypeOK, PrefixAtEveryHop, StreamsOfServed
  <2>5. QED
    BY <2>1, <2>2, <2>3, <2>4
<1>3. CASE RejectHeader
  <2> USE <1>3 DEF RejectHeader, StreamFailed
  <2>1. RecvTypeOK'
    BY DEF RecvTypeOK, StreamsOfServed
  <2>2. TrackTypeOK' /\ ServerTypeOK' /\ ReaderTypeOK'
    BY DEF TrackTypeOK, ServerTypeOK, ReaderTypeOK
  <2>3. PrefixAtEveryHop'
    BY DEF TrackTypeOK, ServerTypeOK, RecvTypeOK, ReaderTypeOK, PrefixAtEveryHop, StreamsOfServed
  <2>4. StreamsOfServed'
    BY DEF TrackTypeOK, ServerTypeOK, RecvTypeOK, ReaderTypeOK, PrefixAtEveryHop, StreamsOfServed
  <2>5. QED
    BY <2>1, <2>2, <2>3, <2>4
<1>4. CASE RecvObject
  <2> USE <1>4 DEF RecvObject, CopyReadable
  <2>0. copied[current] + 1 \in 0 .. MaxObjects
    <3>1. current \in Subgroup
      BY DEF RecvTypeOK, StreamsOfServed
    <3>2. copied[current] \in 0 .. MaxObjects /\ sent[current] \in 0 .. MaxObjects
      BY <3>1 DEF RecvTypeOK, ServerTypeOK
    <3>3. QED
      BY <3>2
  <2>1. RecvTypeOK'
    BY <2>0 DEF RecvTypeOK
  <2>2. TrackTypeOK' /\ ServerTypeOK' /\ ReaderTypeOK'
    BY DEF TrackTypeOK, ServerTypeOK, ReaderTypeOK
  <2>3. PrefixAtEveryHop'
    BY DEF TrackTypeOK, ServerTypeOK, RecvTypeOK, ReaderTypeOK, PrefixAtEveryHop, StreamsOfServed
  <2>4. StreamsOfServed'
    BY DEF TrackTypeOK, ServerTypeOK, RecvTypeOK, ReaderTypeOK, PrefixAtEveryHop, StreamsOfServed
  <2>5. QED
    BY <2>1, <2>2, <2>3, <2>4
<1>5. CASE RejectObject
  <2> USE <1>5 DEF RejectObject, StreamFailed
  <2>1. RecvTypeOK'
    BY DEF RecvTypeOK, StreamsOfServed
  <2>2. TrackTypeOK' /\ ServerTypeOK' /\ ReaderTypeOK'
    BY DEF TrackTypeOK, ServerTypeOK, ReaderTypeOK
  <2>3. PrefixAtEveryHop'
    BY DEF TrackTypeOK, ServerTypeOK, RecvTypeOK, ReaderTypeOK, PrefixAtEveryHop, StreamsOfServed
  <2>4. StreamsOfServed'
    BY DEF TrackTypeOK, ServerTypeOK, RecvTypeOK, ReaderTypeOK, PrefixAtEveryHop, StreamsOfServed
  <2>5. QED
    BY <2>1, <2>2, <2>3, <2>4
<1>6. CASE RecvFin
  <2> USE <1>6 DEF RecvFin, StreamOk
  <2>1. RecvTypeOK'
    BY DEF RecvTypeOK, StreamsOfServed
  <2>2. TrackTypeOK' /\ ServerTypeOK' /\ ReaderTypeOK'
    BY DEF TrackTypeOK, ServerTypeOK, ReaderTypeOK
  <2>3. PrefixAtEveryHop'
    BY DEF TrackTypeOK, ServerTypeOK, RecvTypeOK, ReaderTypeOK, PrefixAtEveryHop, StreamsOfServed
  <2>4. StreamsOfServed'
    BY DEF TrackTypeOK, ServerTypeOK, RecvTypeOK, ReaderTypeOK, PrefixAtEveryHop, StreamsOfServed
  <2>5. QED
    BY <2>1, <2>2, <2>3, <2>4
<1>7. CASE RecvCut
  <2> USE <1>7 DEF RecvCut, StreamFailed
  <2>1. RecvTypeOK'
    BY DEF RecvTypeOK, StreamsOfServed
  <2>2. TrackTypeOK' /\ ServerTypeOK' /\ ReaderTypeOK'
    BY DEF TrackTypeOK, ServerTypeOK, ReaderTypeOK
  <2>3. PrefixAtEveryHop'
    BY DEF TrackTypeOK, ServerTypeOK, RecvTypeOK, ReaderTypeOK, PrefixAtEveryHop, StreamsOfServed
  <2>4. StreamsOfServed'
    BY DEF TrackTypeOK, ServerTypeOK, RecvTypeOK, ReaderTypeOK, PrefixAtEveryHop, StreamsOfServed
  <2>5. QED
    BY <2>1, <2>2, <2>3, <2>4
<1>8. CASE RecvSubscribeDone
  <2> USE <1>8 DEF RecvSubscribeDone
  <2>1. RecvTypeOK'
    BY DEF RecvTypeOK, StreamsOfServed
  <2>2. TrackTypeOK' /\ ServerTypeOK' /\ ReaderTypeOK'
    BY DEF TrackTypeOK, ServerTypeOK, ReaderTypeOK
  <2>3. PrefixAtEveryHop'
    BY DEF TrackTypeOK, ServerTypeOK, RecvTypeOK, ReaderTypeOK, PrefixAtEveryHop, StreamsOfServed
  <2>4. StreamsOfServed'
    BY DEF TrackTypeOK, ServerTypeOK, RecvTypeOK, ReaderTypeOK, PrefixAtEveryHop, StreamsOfServed
  <2>5. QED
    BY <2>1, <2>2, <2>3, <2>4
<1>9. QED
  BY <1>1, <1>2, <1>3, <1>4, <1>5, <1>6, <1>7, <1>8

(***************************************************************************)
(* SubgroupsReader::next hands out a subgroup later than all it handed out *)
(* before, because the latest of the copy only grows.                      *)
(***************************************************************************)
LEMMA HandsLater ==
  ASSUME SubgroupsInv, ReaderNext
  PROVE  newest \in Subgroup /\ \A h \in handed : h < newest
<1> USE Bounds, Numbers DEF SubgroupsInv, TypeOK, RecvTypeOK, ReaderTypeOK, PrefixAtEveryHop
<1>1. newest # 0
  BY DEF ReaderNext, Last
<1>2. newest \notin handed
  <2>1. SUFFICES ASSUME newest \in handed PROVE FALSE
    OBVIOUS
  <2>2. \E g \in handed : \A h \in handed : h <= g
    BY <2>1
  <2>3. Last \in handed /\ \A h \in handed : h <= Last
    BY <2>1, <2>2 DEF Last
  <2>4. Last = newest
    BY <2>1, <2>3
  <2>5. QED
    BY <2>4 DEF ReaderNext
<1>3. QED
  BY <1>1, <1>2

\* Steps of the far reader.
LEMMA ReaderInv ==
  ASSUME SubgroupsInv, NEW g \in Subgroup, ReaderNext \/ ReadObject(g) \/ DropReader
  PROVE  SubgroupsInv'
<1> USE Bounds, Numbers DEF SubgroupsInv, TypeOK, trackVars, serverVars, recvVars
<1>1. CASE ReaderNext
  <2> USE <1>1, HandsLater DEF ReaderNext
  <2>1. ReaderTypeOK'
    BY DEF ReaderTypeOK
  <2>2. TrackTypeOK' /\ ServerTypeOK' /\ RecvTypeOK'
    BY DEF TrackTypeOK, ServerTypeOK, RecvTypeOK
  <2>3. PrefixAtEveryHop'
    BY DEF TrackTypeOK, ServerTypeOK, RecvTypeOK, ReaderTypeOK, PrefixAtEveryHop, StreamsOfServed
  <2>4. StreamsOfServed'
    BY DEF TrackTypeOK, ServerTypeOK, RecvTypeOK, ReaderTypeOK, PrefixAtEveryHop, StreamsOfServed
  <2>5. QED
    BY <2>1, <2>2, <2>3, <2>4
<1>2. CASE ReadObject(g)
  <2> USE <1>2 DEF ReadObject
  <2>1. ReaderTypeOK'
    BY DEF ReaderTypeOK, RecvTypeOK
  <2>2. TrackTypeOK' /\ ServerTypeOK' /\ RecvTypeOK'
    BY DEF TrackTypeOK, ServerTypeOK, RecvTypeOK
  <2>3. PrefixAtEveryHop'
    BY DEF TrackTypeOK, ServerTypeOK, RecvTypeOK, ReaderTypeOK, PrefixAtEveryHop, StreamsOfServed
  <2>4. StreamsOfServed'
    BY DEF TrackTypeOK, ServerTypeOK, RecvTypeOK, ReaderTypeOK, PrefixAtEveryHop, StreamsOfServed
  <2>5. QED
    BY <2>1, <2>2, <2>3, <2>4
<1>3. CASE DropReader
  <2> USE <1>3 DEF DropReader
  <2>1. ReaderTypeOK'
    BY DEF ReaderTypeOK
  <2>2. TrackTypeOK' /\ ServerTypeOK' /\ RecvTypeOK'
    BY DEF TrackTypeOK, ServerTypeOK, RecvTypeOK
  <2>3. PrefixAtEveryHop'
    BY DEF TrackTypeOK, ServerTypeOK, RecvTypeOK, ReaderTypeOK, PrefixAtEveryHop, StreamsOfServed
  <2>4. StreamsOfServed'
    BY DEF TrackTypeOK, ServerTypeOK, RecvTypeOK, ReaderTypeOK, PrefixAtEveryHop, StreamsOfServed
  <2>5. QED
    BY <2>1, <2>2, <2>3, <2>4
<1>4. QED
  BY <1>1, <1>2, <1>3

\* There is a subgroup to instantiate the lemmas above with.
LEMMA StepInv == SubgroupsInv /\ [Next]_vars => SubgroupsInv'
<1> SUFFICES ASSUME SubgroupsInv, [Next]_vars PROVE SubgroupsInv'
  OBVIOUS
<1>1. 1 \in Subgroup
  BY Bounds DEF Subgroup
<1>2. CASE UNCHANGED vars
  BY <1>2 DEF vars, SubgroupsInv, TypeOK, TrackTypeOK, ServerTypeOK, RecvTypeOK, ReaderTypeOK,
              PrefixAtEveryHop, StreamsOfServed
<1>3. CASE Next
  BY <1>1, <1>3, TrackInv, ServerInv, RecvInv, ReaderInv DEF Next
<1>4. QED
  BY <1>2, <1>3

(***************************************************************************)
(* At every hop a subgroup is a prefix of what the hop before holds, for   *)
(* any interleaving of publisher, tasks, streams, refusals and readers.    *)
(***************************************************************************)
THEOREM SubgroupsInvariant == Spec => []SubgroupsInv
<1>1. QED
  BY InitInv, StepInv, PTL DEF Spec

-----------------------------------------------------------------------------
\* Every step is a step of GroupFeed or leaves what it shows unchanged.
LEMMA StepFeed ==
  ASSUME SubgroupsInv, [Next]_vars
  PROVE  [Feed!Next]_(Feed!vars)
<1> USE Bounds, Numbers DEF Feed!vars
<1>1. ASSUME NEW g \in Subgroup, AppendSubgroup(g) PROVE Feed!Next
  <2>1. Feed!Create(g)
    BY <1>1 DEF AppendSubgroup, Feed!Create, readerVars, SubgroupsInv, TypeOK, TrackTypeOK
  <2>2. QED
    BY <2>1 DEF Feed!Next
<1>2. ASSUME NEW g \in Subgroup, WriteObject(g) PROVE Feed!Next
  <2>1. g \in 1 .. latest
    <3>1. served \in Nat /\ latest \in Nat /\ served <= latest
      BY DEF SubgroupsInv, TypeOK, TrackTypeOK, ServerTypeOK, PrefixAtEveryHop
    <3>2. g = latest \/ g <= served
      BY <1>2 DEF WriteObject, Readable, SubgroupsInv, TypeOK, ServerTypeOK, StreamsOfServed
    <3>3. QED
      BY <3>1, <3>2
  <2>2. Feed!Write(g)
    BY <1>2, <2>1 DEF WriteObject, Feed!Write, readerVars
  <2>3. QED
    BY <2>2 DEF Feed!Next
<1>3. ASSUME ReaderNext PROVE Feed!Next
  <2>1. Feed!Hand(newest)
    BY <1>3, HandsLater DEF ReaderNext, Feed!Hand, trackVars, recvVars, SubgroupsInv, TypeOK,
                            TrackTypeOK, ServerTypeOK, RecvTypeOK, ReaderTypeOK, PrefixAtEveryHop
  <2>2. QED
    BY <1>3, <2>1, HandsLater DEF Feed!Next
<1>4. ASSUME NEW g \in Subgroup, ReadObject(g) PROVE Feed!Next
  <2>1. read[g] < written[g]
    BY <1>4 DEF ReadObject, SubgroupsInv, TypeOK, TrackTypeOK, ServerTypeOK, RecvTypeOK,
                ReaderTypeOK, PrefixAtEveryHop
  <2>2. Feed!Read(g)
    BY <1>4, <2>1 DEF ReadObject, Feed!Read, trackVars
  <2>3. QED
    BY <2>2 DEF Feed!Next
<1>5. ASSUME NEW g \in Subgroup,
             \/ FinishSubgroup(g) \/ BreakSubgroup(g) \/ EndTrack
             \/ OpenStream(g) \/ SendObject(g) \/ CutStream(g) \/ FinishStream(g)
             \/ NextSubgroup \/ ServeEnds
      PROVE  UNCHANGED Feed!vars
  BY <1>5 DEF FinishSubgroup, BreakSubgroup, EndTrack, OpenStream, SendObject, CutStream,
              FinishStream, NextSubgroup, ServeEnds, trackVars, readerVars
<1>6. ASSUME \/ AcceptStream \/ RecvHeader \/ RejectHeader \/ RecvObject \/ RejectObject
             \/ RecvFin \/ RecvCut \/ RecvSubscribeDone \/ DropReader
      PROVE  UNCHANGED Feed!vars
  BY <1>6 DEF AcceptStream, RecvHeader, RejectHeader, RecvObject, RejectObject, RecvFin, RecvCut,
              RecvSubscribeDone, DropReader, trackVars, readerVars
<1>7. 1 \in Subgroup
  BY DEF Subgroup
<1>8. CASE UNCHANGED vars
  BY <1>8 DEF vars
<1>9. CASE Next
  BY <1>1, <1>2, <1>3, <1>4, <1>5, <1>6, <1>7, <1>9 DEF Next
<1>10. QED
  BY <1>8, <1>9

(***************************************************************************)
(* Subgroups implements GroupFeed: whatever is cut, refused, overtaken or  *)
(* closed on the way, the far reader is handed later and later subgroups   *)
(* and of each an unbroken beginning of what the publisher wrote.          *)
(***************************************************************************)
THEOREM SubgroupsRefineFeed == Spec => ImplementsFeed
<1>1. Init => Feed!Init
  BY Bounds DEF Init, Feed!Init, Subgroup
<1>2. SubgroupsInv /\ [Next]_vars => [Feed!Next]_(Feed!vars)
  BY StepFeed
<1>3. QED
  BY <1>1, <1>2, SubgroupsInvariant, PTL DEF Spec, ImplementsFeed, Feed!Spec

-----------------------------------------------------------------------------
(***************************************************************************)
(* What SurvivesInOrder needs: a subgroup has one stream, which is opened  *)
(* by its task, accepted once and then no longer waiting, ...              *)
(***************************************************************************)
Started(g) == task[g] \in {"sending", "over"}

OneStreamEach ==
  /\ \A i, j \in DOMAIN opened : opened[i] = opened[j] => i = j
  /\ \A i \in DOMAIN opened : Started(opened[i]) /\ opened[i] # current /\ opened[i] # newest
  /\ current # 0 => Started(current)
  /\ newest # 0 => Started(newest)
  /\ stage = "header" => current # newest

(***************************************************************************)
(* ... a stream breaks off when its task gives it up, and each one that    *)
(* did and was accepted counts for one failure; nothing else fails unless  *)
(* it was overtaken, nobody reads or serve_subgroups has returned.         *)
(***************************************************************************)
Failed == {g \in Cut : g # current /\ \A i \in DOMAIN opened : opened[i] # g}

CutIsOver == \A g \in Cut : task[g] = "over"

FailuresCounted ==
  /\ stage = "orphan" => overtaken
  /\ ~Excused => /\ entry
                 /\ errors <= Cardinality(Failed)
                 /\ session = "closed" => errors >= MaxErrors

InOrderInv == OneStreamEach /\ CutIsOver /\ FailuresCounted

\* The streams that broke off can be counted.
LEMMA Countable ==
  /\ IsFiniteSet(Cut) /\ Cardinality(Cut) \in Nat
  /\ IsFiniteSet(Failed) /\ Cardinality(Failed) \in Nat
  /\ Cardinality(Failed) <= Cardinality(Cut)
<1>1. IsFiniteSet(Subgroup)
  BY Bounds, FS_Interval DEF Subgroup
<1>2. IsFiniteSet(Cut)
  BY <1>1, FS_Subset DEF Cut
<1>3. IsFiniteSet(Failed) /\ Cardinality(Failed) <= Cardinality(Cut)
  BY <1>2, FS_Subset DEF Failed
<1>4. QED
  BY <1>2, <1>3, FS_CardinalityType

\* Neither has anything to refuse in the initial state.
LEMMA InitInOrder == Init => InOrderInv
<1> SUFFICES ASSUME Init PROVE InOrderInv
  OBVIOUS
<1>1. OneStreamEach
  BY Bounds, Numbers DEF Init, OneStreamEach, Started
<1>2. CutIsOver
  BY DEF Init, CutIsOver, Cut
<1>3. FailuresCounted
  BY Countable DEF Init, FailuresCounted, Excused
<1>4. QED
  BY <1>1, <1>2, <1>3 DEF InOrderInv

\* serve_subgroups is handed a subgroup that has no task yet.
LEMMA NextIsNew ==
  ASSUME SubgroupsInv, NextSubgroup
  PROVE  latest \in Subgroup /\ task[latest] = "none"
<1> USE Bounds, Numbers DEF SubgroupsInv, TypeOK
<1>1. latest \in Nat /\ served \in Nat /\ served < latest /\ latest <= MaxSubgroups
  BY DEF NextSubgroup, TrackTypeOK, ServerTypeOK, PrefixAtEveryHop
<1>2. QED
  BY <1>1 DEF StreamsOfServed

\* A subgroup gets no second stream.
LEMMA StepOneStream ==
  ASSUME SubgroupsInv, OneStreamEach, [Next]_vars
  PROVE  OneStreamEach'
<1> USE Bounds, Numbers DEF SubgroupsInv, TypeOK, Started
<1> DEFINE seen == <<opened, task, current, newest, stage>>
<1>0. ASSUME \A h \in Subgroup : Started(h) => Started(h)',
             UNCHANGED <<opened, current, newest, stage>>
      PROVE  OneStreamEach'
  <2>1. \A i \in DOMAIN opened : opened[i] \in Subgroup
    BY DEF ServerTypeOK
  <2>2. (current # 0 => current \in Subgroup) /\ (newest # 0 => newest \in Subgroup)
    BY DEF RecvTypeOK
  <2>3. \A i \in DOMAIN opened : Started(opened[i])'
    BY <1>0, <2>1 DEF OneStreamEach
  <2>4. (current # 0 => Started(current)') /\ (newest # 0 => Started(newest)')
    BY <1>0, <2>2 DEF OneStreamEach
  <2>5. QED
    BY <1>0, <2>3, <2>4 DEF OneStreamEach
<1>1. ASSUME UNCHANGED seen PROVE OneStreamEach'
  BY <1>1 DEF OneStreamEach
<1>2. ASSUME NEW g \in Subgroup,
             \/ AppendSubgroup(g) \/ WriteObject(g) \/ FinishSubgroup(g) \/ BreakSubgroup(g)
             \/ EndTrack \/ ServeEnds
             \/ SendObject(g) \/ RecvObject \/ RecvSubscribeDone
             \/ ReaderNext \/ ReadObject(g) \/ DropReader
      PROVE  UNCHANGED seen
  BY <1>2 DEF AppendSubgroup, WriteObject, FinishSubgroup, BreakSubgroup, EndTrack, ServeEnds,
              SendObject, RecvObject, RecvSubscribeDone, ReaderNext, ReadObject, DropReader,
              serverVars, recvVars
<1>3. CASE NextSubgroup
  <2>1. latest \in Subgroup /\ task[latest] = "none"
    BY <1>3, NextIsNew
  <2>2. \A g \in Subgroup : Started(g) => Started(g)'
    BY <1>3, <2>1 DEF NextSubgroup, ServerTypeOK
  <2>3. UNCHANGED <<opened, current, newest, stage>>
    BY <1>3 DEF NextSubgroup, recvVars
  <2>4. QED
    BY <1>0, <2>2, <2>3
<1>4. ASSUME NEW g \in Subgroup, OpenStream(g) PROVE OneStreamEach'
  <2> USE DEF OpenStream, recvVars
  <2>1. ~Started(g) /\ Started(g)'
    BY <1>4 DEF ServerTypeOK
  <2>2. \A h \in Subgroup : Started(h) => Started(h)'
    BY <1>4 DEF ServerTypeOK
  <2>3. \A i \in DOMAIN opened : opened[i] # g
    BY <2>1 DEF OneStreamEach
  <2>4. g # current /\ g # newest
    BY <2>1 DEF OneStreamEach
  <2>5. \A i, j \in DOMAIN opened' : opened'[i] = opened'[j] => i = j
    BY <1>4, <2>3, SMTT(30) DEF OneStreamEach, ServerTypeOK
  <2>6. \A i \in DOMAIN opened' : opened'[i] \in Subgroup /\ (opened'[i] = g \/ Started(opened'[i]))
    BY <1>4 DEF OneStreamEach, ServerTypeOK
  <2>7. \A i \in DOMAIN opened' : opened'[i] # current /\ opened'[i] # newest
    BY <1>4, <2>4 DEF OneStreamEach, ServerTypeOK
  <2>8. QED
    BY <1>4, <2>1, <2>2, <2>5, <2>6, <2>7 DEF OneStreamEach, RecvTypeOK
<1>5. ASSUME NEW g \in Subgroup, CutStream(g) \/ FinishStream(g) PROVE OneStreamEach'
  <2>1. \A h \in Subgroup : Started(h) => Started(h)'
    BY <1>5 DEF CutStream, FinishStream, ServerTypeOK
  <2>2. UNCHANGED <<opened, current, newest, stage>>
    BY <1>5 DEF CutStream, FinishStream, recvVars
  <2>3. QED
    BY <1>0, <2>1, <2>2
<1>6. CASE AcceptStream
  <2> USE <1>6 DEF AcceptStream
  <2>1. 1 \in DOMAIN opened /\ current' = opened[1]
    BY Accepted
  <2>2. \A i \in DOMAIN opened' : i + 1 \in DOMAIN opened /\ opened'[i] = opened[i + 1] /\ i + 1 # 1
    BY Accepted
  <2>3. \A i, j \in DOMAIN opened' : opened'[i] = opened'[j] => i = j
    BY <2>2 DEF OneStreamEach, ServerTypeOK
  <2>4. UNCHANGED <<task, newest>> /\ stage' = "header"
    OBVIOUS
  <2>5. QED
    BY <2>1, <2>2, <2>3, <2>4 DEF OneStreamEach
<1>7. CASE RecvHeader
  <2>1. UNCHANGED <<opened, task, current>> /\ stage' # "header" /\ newest' \in {newest, current}
    BY <1>7 DEF RecvHeader, CreateCopy, serverVars
  <2>2. QED
    BY <2>1 DEF OneStreamEach
<1>8. CASE RejectHeader \/ RejectObject \/ RecvFin \/ RecvCut
  <2>1. UNCHANGED <<opened, task, newest>> /\ current' = 0 /\ stage' = "idle"
    BY <1>8 DEF RejectHeader, RejectObject, RecvFin, RecvCut, StreamFailed, StreamOk, serverVars
  <2>2. QED
    BY <2>1 DEF OneStreamEach, ServerTypeOK
<1>9. 1 \in Subgroup
  OBVIOUS
<1>10. CASE UNCHANGED vars
  BY <1>1, <1>10 DEF vars
<1>11. CASE Next
  BY <1>1, <1>2, <1>3, <1>4, <1>5, <1>6, <1>7, <1>8, <1>9, <1>11 DEF Next
<1>12. QED
  BY <1>10, <1>11

\* A stream that broke off stays as it is, and its task does not come back.
LEMMA StepCut ==
  ASSUME SubgroupsInv, CutIsOver, [Next]_vars
  PROVE  CutIsOver' /\ Cut \subseteq Cut'
<1> USE DEF SubgroupsInv, TypeOK, ServerTypeOK, CutIsOver, Cut
<1>1. ASSUME UNCHANGED <<task, ending>> PROVE CutIsOver' /\ Cut \subseteq Cut'
  BY <1>1
<1>2. ASSUME NEW g \in Subgroup,
             \/ AppendSubgroup(g) \/ WriteObject(g) \/ FinishSubgroup(g) \/ BreakSubgroup(g)
             \/ EndTrack \/ ServeEnds \/ SendObject(g)
             \/ ReaderNext \/ ReadObject(g) \/ DropReader
      PROVE  UNCHANGED <<task, ending>>
  BY <1>2 DEF AppendSubgroup, WriteObject, FinishSubgroup, BreakSubgroup, EndTrack, ServeEnds,
              SendObject, ReaderNext, ReadObject, DropReader, serverVars
<1>3. ASSUME \/ AcceptStream \/ RecvHeader \/ RejectHeader \/ RecvObject \/ RejectObject
             \/ RecvFin \/ RecvCut \/ RecvSubscribeDone
      PROVE  UNCHANGED <<task, ending>>
  BY <1>3 DEF AcceptStream, RecvHeader, RejectHeader, RecvObject, RejectObject, RecvFin, RecvCut,
              RecvSubscribeDone, serverVars
<1>4. CASE NextSubgroup
  <2>1. latest \in Subgroup /\ task[latest] = "none"
    BY <1>4, NextIsNew
  <2>2. UNCHANGED ending /\ \A h \in Subgroup : h # latest => task'[h] = task[h]
    BY <1>4 DEF NextSubgroup
  <2>3. QED
    BY <2>1, <2>2
<1>5. ASSUME NEW g \in Subgroup, OpenStream(g) PROVE CutIsOver' /\ Cut \subseteq Cut'
  BY <1>5 DEF OpenStream
<1>6. ASSUME NEW g \in Subgroup, CutStream(g) \/ FinishStream(g)
      PROVE  CutIsOver' /\ Cut \subseteq Cut'
  BY <1>6 DEF CutStream, FinishStream
<1>7. 1 \in Subgroup
  BY Bounds DEF Subgroup
<1>8. CASE UNCHANGED vars
  BY <1>1, <1>8 DEF vars
<1>9. CASE Next
  BY <1>1, <1>2, <1>3, <1>4, <1>5, <1>6, <1>7, <1>9 DEF Next
<1>10. QED
  BY <1>8, <1>9

\* A stream counted as failed stays counted.
LEMMA StepFailed ==
  ASSUME SubgroupsInv, CutIsOver, [Next]_vars
  PROVE  Failed \subseteq Failed'
<1> SUFFICES ASSUME NEW f \in Failed PROVE f \in Failed'
  OBVIOUS
<1> USE DEF SubgroupsInv, TypeOK, ServerTypeOK
<1>1. f \in Cut /\ f \in Cut' /\ f # current /\ task[f] = "over" /\ f \in Subgroup
  BY StepCut DEF Failed, CutIsOver, Cut
<1>2. \A i \in DOMAIN opened : opened[i] # f
  BY DEF Failed
<1>3. ASSUME f # current', \A i \in DOMAIN opened' : opened'[i] # f PROVE f \in Failed'
  BY <1>1, <1>3 DEF Failed
<1>4. f # 0
  BY <1>1, Numbers
<1>5. ASSUME NEW g \in Subgroup,
             \/ AppendSubgroup(g) \/ WriteObject(g) \/ FinishSubgroup(g) \/ BreakSubgroup(g)
             \/ EndTrack \/ NextSubgroup \/ ServeEnds \/ SendObject(g) \/ CutStream(g)
             \/ FinishStream(g) \/ ReaderNext \/ ReadObject(g) \/ DropReader
             \/ RecvHeader \/ RecvObject \/ RecvSubscribeDone
      PROVE  UNCHANGED <<opened, current>>
  BY <1>5 DEF AppendSubgroup, WriteObject, FinishSubgroup, BreakSubgroup, EndTrack, NextSubgroup,
              ServeEnds, SendObject, CutStream, FinishStream, ReaderNext, ReadObject, DropReader,
              RecvHeader, RecvObject, RecvSubscribeDone, serverVars, recvVars
<1>6. ASSUME RejectHeader \/ RejectObject \/ RecvFin \/ RecvCut
      PROVE  UNCHANGED opened /\ current' = 0
  BY <1>6 DEF RejectHeader, RejectObject, RecvFin, RecvCut, StreamFailed, StreamOk, serverVars
<1>7. ASSUME NEW g \in Subgroup, OpenStream(g) PROVE f \in Failed'
  <2>1. g # f /\ current' = current
    BY <1>1, <1>7 DEF OpenStream, recvVars
  <2>2. \A i \in DOMAIN opened' : opened'[i] # f
    BY <1>2, <1>7, <2>1 DEF OpenStream
  <2>3. QED
    BY <1>1, <1>3, <2>1, <2>2
<1>8. CASE AcceptStream
  <2>1. f # current'
    BY <1>2, <1>8, Accepted
  <2>2. \A i \in DOMAIN opened' : opened'[i] # f
    BY <1>2, <1>8, Accepted
  <2>3. QED
    BY <1>3, <2>1, <2>2
<1>9. ASSUME UNCHANGED opened, current' \in {0, current} PROVE f \in Failed'
  BY <1>1, <1>2, <1>3, <1>4, <1>9
<1>10. 1 \in Subgroup
  BY Bounds DEF Subgroup
<1>11. CASE UNCHANGED vars
  BY <1>9, <1>11 DEF vars
<1>12. CASE Next
  BY <1>5, <1>6, <1>7, <1>8, <1>9, <1>10, <1>12 DEF Next
<1>13. QED
  BY <1>11, <1>12

\* Without an excuse only a stream that broke off fails.
LEMMA StepFailures ==
  ASSUME SubgroupsInv, OneStreamEach, CutIsOver, FailuresCounted, [Next]_vars
  PROVE  FailuresCounted'
<1> USE Bounds DEF SubgroupsInv, TypeOK
<1> DEFINE rest == <<server, reader>>
<1>0. /\ Cardinality(Failed) \in Nat /\ Cardinality(Failed') \in Nat /\ IsFiniteSet(Failed')
      /\ Cardinality(Failed) <= Cardinality(Failed')
  <2>1. Cardinality(Failed) \in Nat
    BY Countable
  <2>2. IsFiniteSet(Cut')
    <3>1. IsFiniteSet(Subgroup)
      BY FS_Interval DEF Subgroup
    <3>2. QED
      BY <3>1, FS_Subset DEF Cut
  <2>3. IsFiniteSet(Failed')
    BY <2>2, FS_Subset DEF Failed
  <2>4. QED
    BY <2>1, <2>3, StepFailed, FS_Subset, FS_CardinalityType
<1>1. ASSUME NEW g \in Subgroup,
             \/ AppendSubgroup(g) \/ WriteObject(g) \/ FinishSubgroup(g) \/ BreakSubgroup(g)
             \/ EndTrack \/ NextSubgroup \/ OpenStream(g) \/ SendObject(g) \/ AcceptStream
             \/ CutStream(g) \/ FinishStream(g) \/ RecvObject \/ ReaderNext \/ ReadObject(g)
      PROVE  FailuresCounted'
  <2>1. UNCHANGED <<rest, overtaken, entry, session, errors>> /\ (stage' = stage \/ stage' = "header")
    BY <1>1 DEF AppendSubgroup, WriteObject, FinishSubgroup, BreakSubgroup, EndTrack, NextSubgroup,
                OpenStream, SendObject, AcceptStream, CutStream, FinishStream, RecvObject,
                ReaderNext, ReadObject, serverVars, recvVars, readerVars
  <2>2. QED
    BY <1>0, <2>1 DEF FailuresCounted, Excused, RecvTypeOK
<1>2. ASSUME ServeEnds \/ DropReader PROVE FailuresCounted'
  BY <1>2 DEF ServeEnds, DropReader, FailuresCounted, Excused, serverVars, recvVars
<1>3. CASE RecvHeader
  <2>1. stage' = "orphan" => overtaken'
    <3>1. current \in Nat /\ newest \in Nat /\ current # newest
      BY <1>3 DEF RecvHeader, RecvTypeOK
    <3>2. stage' = "orphan" => current < newest
      BY <1>3, <3>1 DEF RecvHeader, CreateCopy
    <3>3. QED
      BY <1>3, <3>2 DEF RecvHeader, CreateCopy
  <2>2. overtaken => overtaken'
    BY <1>3 DEF RecvHeader, CreateCopy
  <2>3. UNCHANGED <<rest, entry, session, errors>>
    BY <1>3 DEF RecvHeader, serverVars, readerVars
  <2>4. QED
    BY <1>0, <2>1, <2>2, <2>3 DEF FailuresCounted, Excused, RecvTypeOK
<1>4. CASE RejectHeader
  <2>1. Excused
    BY <1>4 DEF RejectHeader, OneStreamEach, FailuresCounted, Excused
  <2>2. QED
    BY <1>4, <2>1 DEF RejectHeader, StreamFailed, FailuresCounted, Excused, serverVars, readerVars
<1>5. CASE RejectObject
  <2>1. Excused
    BY <1>5 DEF RejectObject, CopyReadable, FailuresCounted, Excused
  <2>2. QED
    BY <1>5, <2>1 DEF RejectObject, StreamFailed, FailuresCounted, Excused, serverVars, readerVars
<1>6. CASE RecvFin
  <2>1. /\ UNCHANGED <<rest, overtaken, entry, session>>
        /\ errors' = 0 /\ stage' = "idle" /\ session = "up"
    BY <1>6 DEF RecvFin, StreamOk, serverVars, readerVars
  <2>2. QED
    BY <1>0, <2>1 DEF FailuresCounted, Excused
<1>7. CASE RecvCut
  <2>1. PICK serve \in BOOLEAN : /\ serve => stage # "header" /\ ~CopyReadable
                                 /\ StreamFailed(serve)
    BY <1>7 DEF RecvCut
  <2>2. UNCHANGED <<rest, overtaken>> /\ stage' = "idle" /\ errors' = errors + 1
        /\ current' = 0 /\ UNCHANGED <<opened, ending>>
    BY <1>7, <2>1 DEF RecvCut, StreamFailed, serverVars, readerVars
  <2>3. current \in Cut /\ current \in Subgroup /\ current # 0
    BY <1>7, Numbers DEF RecvCut, Cut, StreamsOfServed, RecvTypeOK
  <2>4. current \notin Failed /\ current \in Failed'
    <3>1. \A i \in DOMAIN opened : opened[i] # current
      BY DEF OneStreamEach
    <3>2. QED
      BY <2>2, <2>3, <3>1 DEF Failed, Cut
  <2>5. Cardinality(Failed) + 1 <= Cardinality(Failed')
    <3>1. IsFiniteSet(Failed)
      BY Countable
    <3>2. /\ IsFiniteSet(Failed \cup {current})
          /\ Cardinality(Failed \cup {current}) = Cardinality(Failed) + 1
      BY <2>4, <3>1, FS_AddElement
    <3>3. Failed \cup {current} \subseteq Failed'
      BY <2>4, StepFailed
    <3>4. QED
      BY <1>0, <3>2, <3>3, FS_Subset
  <2>6. ~Excused => entry'
    <3>1. ASSUME ~Excused PROVE entry /\ reader /\ stage # "orphan"
      BY <3>1 DEF FailuresCounted, Excused
    <3>2. stage # "idle"
      BY <1>7 DEF RecvCut
    <3>3. ASSUME ~Excused PROVE ~serve
      BY <2>1, <3>1, <3>2, <3>3 DEF CopyReadable, RecvTypeOK
    <3>4. entry' = (entry /\ ~serve)
      BY <2>1 DEF StreamFailed
    <3>5. QED
      BY <3>1, <3>3, <3>4
  <2>7. session' = "closed" => errors' >= MaxErrors
    BY <1>7, <2>1 DEF RecvCut, StreamFailed
  <2>8. errors \in Nat
    BY DEF RecvTypeOK
  <2>9. ~Excused' => ~Excused
    BY <2>2 DEF Excused
  <2>10. ~Excused' => /\ entry' /\ errors' <= Cardinality(Failed')
                      /\ session' = "closed" => errors' >= MaxErrors
    BY <1>0, <2>2, <2>5, <2>6, <2>7, <2>8, <2>9 DEF FailuresCounted
  <2>11. QED
    BY <2>2, <2>10 DEF FailuresCounted
<1>8. CASE RecvSubscribeDone
  BY <1>8 DEF RecvSubscribeDone, FailuresCounted, Excused, serverVars, readerVars
<1>9. 1 \in Subgroup
  BY Numbers
<1>10. CASE UNCHANGED vars
  <2>1. UNCHANGED <<stage, rest, overtaken, entry, errors, session>>
    BY <1>10 DEF vars
  <2>2. QED
    BY <1>0, <2>1 DEF FailuresCounted, Excused, RecvTypeOK
<1>11. CASE Next
  BY <1>1, <1>2, <1>3, <1>4, <1>5, <1>6, <1>7, <1>8, <1>9, <1>11 DEF Next
<1>12. QED
  BY <1>10, <1>11

(***************************************************************************)
(* A subscription whose streams arrive in order is never ended by them     *)
(* while it is served and read, whether they are finished or broken off in *)
(* any place, and its session only by as many broken ones as run_streams   *)
(* tolerates.                                                              *)
(***************************************************************************)
THEOREM InOrderSurvives == Spec => []SurvivesInOrder
<1>1. SubgroupsInv /\ InOrderInv /\ [Next]_vars => InOrderInv'
  BY StepOneStream, StepCut, StepFailures DEF InOrderInv
<1>2. SubgroupsInv /\ InOrderInv => SurvivesInOrder
  <2>1. SubgroupsInv => errors \in Nat
    BY Bounds DEF SubgroupsInv, TypeOK, RecvTypeOK
  <2>2. QED
    BY <2>1, Bounds, Countable DEF InOrderInv, FailuresCounted, SurvivesInOrder, TooManyCut
<1>3. QED
  BY InitInOrder, <1>1, <1>2, SubgroupsInvariant, PTL DEF Spec
=============================================================================

---------------------------- MODULE MCYthreadProofs ----------------------------
(***************************************************************************)
(* The properties that the runs of MCYthread check, for every pool of      *)
(* external threads, choice of operations and number of requests and       *)
(* revivals those runs leave open: each of the three programs is an        *)
(* instance of Ythread.                                                    *)
(***************************************************************************)
EXTENDS MCYthread, TLAPS

\* The invariants of Ythread, of the program that runs: no ULT of "to" migrates.
KindInv ==
    /\ kind \in Kinds
    /\ kind = "join" => Jn!IInv
    /\ kind = "to" => To!CountInv
    /\ kind = "live" => Live!IInv

\* The states in which the programs start.
LEMMA KindInit == YthreadInit => KindInv
<1> SUFFICES ASSUME YthreadInit PROVE KindInv
  OBVIOUS
<1>1. kind \in {"join", "to", "live"}
  BY YthreadAssumption DEF YthreadInit
<1>2. CASE kind = "join"
  BY <1>2, Jn!InitOK, YthreadAssumption DEF YthreadInit, KindInv
<1>3. CASE kind = "to"
  BY <1>3, To!CountInit, YthreadAssumption DEF YthreadInit, KindInv
<1>4. CASE kind = "live"
  BY <1>4, Live!InitOK, YthreadAssumption DEF YthreadInit, KindInv
<1> QED BY <1>1, <1>2, <1>3, <1>4

\* Every step is one of the program that runs; it never turns into another.
LEMMA KindNext == KindInv /\ [YthreadNext]_yvars => KindInv'
<1> SUFFICES ASSUME KindInv, [YthreadNext]_yvars PROVE KindInv'
  OBVIOUS
<1>1. kind \in {"join", "to", "live"} /\ kind' = kind
  BY YthreadAssumption DEF KindInv, YthreadNext, yvars
<1>2. CASE kind = "join"
  <2>1. Jn!Next \/ UNCHANGED Jn!vars
    BY <1>2 DEF YthreadNext, yvars, Jn!vars, Jn!threadVars, Jn!descVars, Jn!poolVars,
                Jn!userVars, Jn!limitVars
  <2>2. (Jn!IInv)'
    BY <1>2, <2>1, Jn!NextOK, Jn!StutterOK, YthreadAssumption DEF KindInv
  <2> QED BY <1>1, <1>2, <2>2 DEF KindInv
<1>3. CASE kind = "to"
  <2>1. To!Next \/ UNCHANGED To!vars
    BY <1>3 DEF YthreadNext, yvars, To!vars, To!threadVars, To!descVars, To!poolVars,
                To!userVars, To!limitVars
  <2>2. (To!CountInv)'
    BY <1>3, <2>1, To!CountNext, YthreadAssumption DEF KindInv
  <2> QED BY <1>1, <1>3, <2>2 DEF KindInv
<1>4. CASE kind = "live"
  <2>1. Live!Next \/ UNCHANGED Live!vars
    BY <1>4 DEF YthreadNext, yvars, Live!vars, Live!threadVars, Live!descVars, Live!poolVars,
                Live!userVars, Live!limitVars
  <2>2. (Live!IInv)'
    BY <1>4, <2>1, Live!NextOK, Live!StutterOK, YthreadAssumption DEF KindInv
  <2> QED BY <1>1, <1>4, <2>2 DEF KindInv
<1> QED BY <1>1, <1>2, <1>3, <1>4

\* In every program a ULT is in one pool, or on one execution stream, or in the hands of one
\* callback, and in none of them when it is BLOCKED or TERMINATED.
THEOREM OnePlaceOfPrograms == YthreadSpec => []OnePlace
<1>1. KindInv => OnePlace
  BY Jn!TypesMean, Jn!PlacesOK, To!TypesMean, To!PlacesOK, Live!TypesMean, Live!PlacesOK,
     YthreadAssumption DEF KindInv, OnePlace, To!CountInv
<1> QED BY <1>1, KindInit, KindNext, PTL DEF YthreadSpec

\* In every program the store of TERMINATED is the last use of a ULT but its joiner's.
THEOREM NoUseAfterFreeOfPrograms == YthreadSpec => []NoUseAfterFree
<1>1. KindInv => NoUseAfterFree
  BY Jn!UsesOK, To!UsesOK, Live!UsesOK, YthreadAssumption
     DEF KindInv, NoUseAfterFree, To!CountInv
<1> QED BY <1>1, KindInit, KindNext, PTL DEF YthreadSpec

\* With the directed switches, num_blocked counts the BLOCKED ULTs of its pool exactly whenever
\* no callback is under way.
THEOREM NumBlockedExactOfPrograms == YthreadSpec => []NumBlockedExact
<1>1. KindInv => NumBlockedExact
  BY To!CountExact, YthreadAssumption DEF KindInv, NumBlockedExact
<1> QED BY <1>1, KindInit, KindNext, PTL DEF YthreadSpec

\* And a scheduler that finds its pool empty with a count of 0 strands no suspended ULT.
THEOREM NoUltStrandedOfPrograms == YthreadSpec => []NoUltStranded
<1>1. KindInv => NoUltStranded
  BY To!CountStrandsNobody, YthreadAssumption DEF KindInv, NoUltStranded
<1> QED BY <1>1, KindInit, KindNext, PTL DEF YthreadSpec
================================================================================

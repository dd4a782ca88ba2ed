------------------------- MODULE OptimizeAllProofs -------------------------
(***************************************************************************)
(* Proof that optimize_all never sends more transactions than the rounds *)
(* it announced, for every set of output counts.  SentWithinRounds is not *)
(* inductive: a round sends when a < rounds, and that keeps sent within   *)
(* rounds only if sent stays below the loop counter a, which starts at 1 *)
(* and grows with every send.  OptInv adds that fact.                     *)
(***************************************************************************)
EXTENDS OptimizeAll, TLAPS

(* The counters are natural numbers; failed plays no part in the proof.   *)
CountersOK ==
    /\ opc \in {"Idle", "Loop"}
    /\ rounds \in Nat
    /\ a \in Nat
    /\ sent \in Nat

(* Inside the loop every send so far advanced a past it.                   *)
SentBelowCounter == opc = "Loop" => sent + 1 <= a

OptInv == CountersOK /\ SentBelowCounter /\ SentWithinRounds

(* The rounds announced for a count of outputs is a natural number.       *)
LEMMA RoundsNat ==
    ASSUME NEW n \in OutputCounts \cup {0}
    PROVE  Rounds(n) \in Nat
<1>1. n \in Nat
    BY OptimizeAssumption
<1>2. n % 100 \in 0..99 /\ n % 100 <= n
    BY <1>1
<1>3. QED
    BY <1>1, <1>2 DEF Rounds, OutputsPerRound

LEMMA InitOptInv == Init => OptInv
BY DEF Init, OptInv, CountersOK, SentBelowCounter, SentWithinRounds

LEMMA NextOptInv == OptInv /\ [Next]_vars => OptInv'
<1> SUFFICES ASSUME OptInv, [Next]_vars PROVE OptInv'
    OBVIOUS
<1> USE DEF OptInv, CountersOK, SentBelowCounter, SentWithinRounds
<1>1. CASE optimize_outputs
    BY <1>1 DEF optimize_outputs, SendOutcomes, SentOutcomes
<1>2. CASE optimize_all_start
    <2>1. PICK n \in OutputCounts \cup {0} : rounds' = Rounds(n)
        BY <1>2 DEF optimize_all_start
    <2>2. rounds' \in Nat
        BY <2>1, RoundsNat
    <2>3. QED
        BY <1>2, <2>2 DEF optimize_all_start
<1>3. CASE optimize_all_round
    <2>1. PICK o \in SendOutcomes :
              /\ sent' = IF o \in SentOutcomes THEN sent + 1 ELSE sent
              /\ IF o \in {"ok", "thrown"}
                    THEN /\ a' = a + 1
                         /\ UNCHANGED <<opc, failed>>
                    ELSE /\ opc' = "Idle"
                         /\ failed' = TRUE
                         /\ UNCHANGED a
        BY <1>3 DEF optimize_all_round
    <2>2. opc = "Loop" /\ a < rounds /\ rounds' = rounds
        BY <1>3 DEF optimize_all_round
    <2>3. CASE o = "ok"
        BY <2>1, <2>2, <2>3 DEF SentOutcomes
    <2>4. CASE o = "thrown"
        BY <2>1, <2>2, <2>4 DEF SentOutcomes
    <2>5. CASE o = "store"
        BY <2>1, <2>2, <2>5 DEF SentOutcomes
    <2>6. CASE o \in {"invalid", "error"}
        BY <2>1, <2>2, <2>6 DEF SentOutcomes
    <2>7. QED
        BY <2>3, <2>4, <2>5, <2>6 DEF SendOutcomes
<1>4. CASE optimize_all_end
    BY <1>4 DEF optimize_all_end
<1>5. CASE UNCHANGED vars
    BY <1>5 DEF vars
<1>6. QED
    BY <1>1, <1>2, <1>3, <1>4, <1>5 DEF Next

(* optimize_all never sends more optimisation transactions than the      *)
(* rounds it announced, whatever getNumUnlockedOutputs returns and however *)
(* the sends fail (SentWithinRounds).                                     *)
THEOREM SentWithinRoundsHolds == Spec => []SentWithinRounds
<1>1. Spec => []OptInv
    BY InitOptInv, NextOptInv, PTL DEF Spec
<1>2. QED
    BY <1>1, PTL DEF OptInv

====

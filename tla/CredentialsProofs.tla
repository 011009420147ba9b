------------------------- MODULE CredentialsProofs -------------------------
(***************************************************************************)
(* Proofs about the Credential Manager, for every value of the constants:  *)
(* the type invariant, the consistency of the stored id/token pair while   *)
(* at most one storage operation has failed, and that the thing's          *)
(* credentials in memory only change to what the file holds.               *)
(***************************************************************************)
EXTENDS Credentials, TLAPS

(* The failure and crash counters never decrease, so "at most one       *)
(* failure and no crash" after a step implies it before the step: the     *)
(* implication of CredPairConsistentUnderOneFault is inductive as it      *)
(* stands, once the types are known.                                      *)
IInv == TypeOK /\ CredPairConsistentUnderOneFault

(* Erasing a key of a credentials record keeps it a credentials record.    *)
LEMMA EraseKeyType ==
    ASSUME NEW c \in CredRecs, NEW k \in {"id", "token"}
    PROVE  EraseKey(c, k) \in CredRecs
BY DEF EraseKey, CredRecs, Empty

(* Writing a token, or EMPTY_STRING, into a credentials record.            *)
LEMMA SetTokenType ==
    ASSUME NEW c \in CredRecs, NEW t \in Tokens \cup {Empty}
    PROVE  [c EXCEPT !.token = t] \in CredRecs
BY DEF CredRecs

LEMMA InitCredsType == InitCreds \subseteq CredRecs
<1>1. [id |-> Empty, token |-> Empty] \in CredRecs
  BY DEF CredRecs
<1>2. ASSUME NEW p \in Issued PROVE [id |-> p[1], token |-> p[2]] \in CredRecs
  BY CredAssumption DEF CredRecs
<1>3. QED
  BY <1>1, <1>2 DEF InitCreds

(* The files properties_store_credentials can leave behind.                *)
StoreResults(p) ==
    {[id |-> p[1], token |-> p[2]], cred,
     Rollback([cred EXCEPT !.token = p[2]]), [cred EXCEPT !.token = p[2]]}

LEMMA StoreResultsType ==
    ASSUME TypeOK, NEW p \in Issued PROVE StoreResults(p) \subseteq CredRecs
<1>1. p[1] \in Ids /\ p[2] \in Tokens
  BY CredAssumption
<1>2. [cred EXCEPT !.token = p[2]] \in CredRecs
  BY <1>1, SetTokenType DEF TypeOK
<1>3. Rollback([cred EXCEPT !.token = p[2]]) \in CredRecs
  BY <1>2, SetTokenType DEF Rollback
<1>4. QED
  BY <1>1, <1>2, <1>3 DEF TypeOK, CredRecs, StoreResults

-----------------------------------------------------------------------------
(* Every step, a stutter included, keeps the types.                        *)
LEMMA TypeStep == TypeOK /\ [Next]_vars => TypeOK'
<1> SUFFICES ASSUME TypeOK, [Next]_vars PROVE TypeOK'
  OBVIOUS
<1>1. ASSUME NEW p \in Issued, StoreTokenTooLong(p[1], p[2]) PROVE TypeOK'
  BY <1>1 DEF StoreTokenTooLong, TypeOK, EINVAL, OpenErr
<1>2. ASSUME NEW p \in Issued, StoreCredentials(p[1], p[2]) PROVE TypeOK'
  <2>1. cred' \in StoreResults(p)
    BY <1>2 DEF StoreCredentials, StoreResults
  <2>2. cred' \in CredRecs
    BY <2>1, StoreResultsType
  <2>3. failures' \in 0..MaxFailures
    BY <1>2, CredAssumption DEF StoreCredentials, TypeOK
  <2>4. /\ mem' = mem /\ phase' = phase /\ lastClear' = lastClear
        /\ crashes' = crashes /\ lastRc' \in {0, EINVAL, OpenErr}
    BY <1>2 DEF StoreCredentials
  <2>5. QED
    BY <2>2, <2>3, <2>4 DEF TypeOK
<1>7. ASSUME NEW p \in Issued, StoreCrashes(p[1], p[2]) PROVE TypeOK'
  <2>1. p[2] \in Tokens
    BY CredAssumption
  <2>2. cred' \in CredRecs
    BY <1>7, <2>1, SetTokenType DEF StoreCrashes, TypeOK
  <2>3. crashes' \in 0..MaxCrashes
    BY <1>7, CredAssumption DEF StoreCrashes, TypeOK
  <2>4. /\ mem' = mem /\ phase' = "down" /\ lastClear' = lastClear
        /\ failures' = failures /\ lastRc' = lastRc
    BY <1>7 DEF StoreCrashes
  <2>5. QED
    BY <2>2, <2>3, <2>4 DEF TypeOK
<1>3. CASE ClearCredentials
  <2>1. /\ cred' \in {EraseKey(EraseKey(cred, "token"), "id"), cred, EraseKey(cred, "token")}
        /\ mem' \in {EraseKey(EraseKey(mem, "token"), "id"), mem, EraseKey(mem, "token")}
    BY <1>3 DEF ClearCredentials, EraseFailed
  <2>2. /\ EraseKey(EraseKey(cred, "token"), "id") \in CredRecs
        /\ EraseKey(EraseKey(mem, "token"), "id") \in CredRecs
        /\ EraseKey(cred, "token") \in CredRecs
        /\ EraseKey(mem, "token") \in CredRecs
    BY EraseKeyType DEF TypeOK
  <2>3. cred' \in CredRecs /\ mem' \in CredRecs
    BY <2>1, <2>2 DEF TypeOK
  <2>4. failures' \in 0..MaxFailures
    BY <1>3, CredAssumption DEF ClearCredentials, TypeOK
  <2>5. phase' = phase /\ crashes' = crashes /\ lastRc' \in {0, EINVAL, OpenErr}
    BY <1>3 DEF ClearCredentials
  <2>6. lastClear' \in {[opened |-> TRUE, tried |-> {"token", "id"}],
                        [opened |-> FALSE, tried |-> {}],
                        [opened |-> TRUE, tried |-> {"token"}]}
    BY <1>3 DEF ClearCredentials
  <2>7. {[opened |-> TRUE, tried |-> {"token", "id"}],
         [opened |-> FALSE, tried |-> {}],
         [opened |-> TRUE, tried |-> {"token"}]}
          \subseteq [opened : BOOLEAN, tried : SUBSET {"token", "id"}]
    OBVIOUS
  <2>8. QED
    BY <2>3, <2>4, <2>5, <2>6, <2>7 DEF TypeOK
<1>4. CASE Restart
  BY <1>4, CredAssumption DEF Restart, TypeOK
<1>5. CASE UNCHANGED vars
  BY <1>5 DEF vars, TypeOK
<1>6. QED
  BY <1>1, <1>2, <1>3, <1>4, <1>5, <1>7 DEF Next

(* The type invariant holds in every reachable state.                      *)
THEOREM TypeCorrect == Spec => []TypeOK
<1>1. Init => TypeOK
  BY InitCredsType, CredAssumption DEF Init, TypeOK
<1>2. QED
  BY <1>1, TypeStep, PTL DEF Spec

-----------------------------------------------------------------------------
(* A stored pair is consistent when the file starts.                     *)
LEMMA InitCredsConsistent == \A c \in InitCreds : PairConsistent(c)
<1>1. PairConsistent([id |-> Empty, token |-> Empty])
  BY DEF PairConsistent
<1>2. ASSUME NEW p \in Issued PROVE PairConsistent([id |-> p[1], token |-> p[2]])
  <2>1. p = <<p[1], p[2]>>
    BY CredAssumption
  <2>2. QED
    BY <2>1 DEF PairConsistent
<1>3. QED
  BY <1>1, <1>2 DEF InitCreds

(* Spec 4.5, for every value of the constants: while at most one storage   *)
(* operation has failed, the credentials file never holds a token without  *)
(* the id it was issued with.                                              *)
THEOREM PairConsistentUnderOneFault == Spec => []CredPairConsistentUnderOneFault
<1>1. Init => IInv
  <2> SUFFICES ASSUME Init PROVE IInv
    OBVIOUS
  <2>1. TypeOK
    BY InitCredsType, CredAssumption DEF Init, TypeOK
  <2>2. PairConsistent(cred)
    BY InitCredsConsistent DEF Init
  <2>3. QED
    BY <2>1, <2>2 DEF IInv, CredPairConsistentUnderOneFault
<1>2. IInv /\ [Next]_vars => IInv'
  <2> SUFFICES ASSUME IInv, [Next]_vars PROVE IInv'
    OBVIOUS
  <2>1. TypeOK'
    BY TypeStep DEF IInv
  <2>2. ASSUME NEW p \in Issued, StoreTokenTooLong(p[1], p[2])
        PROVE  CredPairConsistentUnderOneFault'
    BY <2>2 DEF StoreTokenTooLong, IInv, CredPairConsistentUnderOneFault
  <2>3. ASSUME NEW p \in Issued, StoreCredentials(p[1], p[2])
        PROVE  CredPairConsistentUnderOneFault'
    <3> SUFFICES ASSUME failures' <= 1, crashes' = 0 PROVE PairConsistent(cred')
      BY DEF CredPairConsistentUnderOneFault
    <3>1. p = <<p[1], p[2]>>
      BY CredAssumption
    <3>2. failures \in Nat /\ failures <= 1 /\ PairConsistent(cred)
      BY <2>3 DEF StoreCredentials, IInv, TypeOK, CredPairConsistentUnderOneFault
    <3>3. \/ cred' = [id |-> p[1], token |-> p[2]]
          \/ cred' = cred
          \/ cred' = Rollback([cred EXCEPT !.token = p[2]])
      BY <2>3, <3>2 DEF StoreCredentials
    <3>4. cred \in CredRecs
      BY DEF IInv, TypeOK
    <3>5. Rollback([cred EXCEPT !.token = p[2]]).token = Empty
      BY <3>4 DEF Rollback, CredRecs
    <3>6. QED
      BY <3>1, <3>2, <3>3, <3>5 DEF PairConsistent
  <2>4. ASSUME ClearCredentials PROVE CredPairConsistentUnderOneFault'
    <3> SUFFICES ASSUME failures' <= 1, crashes' = 0 PROVE PairConsistent(cred')
      BY DEF CredPairConsistentUnderOneFault
    <3>1. failures \in Nat /\ failures <= 1 /\ PairConsistent(cred)
      BY <2>4 DEF ClearCredentials, IInv, TypeOK, CredPairConsistentUnderOneFault
    <3>2. cred \in CredRecs
      BY DEF IInv, TypeOK
    <3>3. cred' = cred \/ cred'.token = Empty
      BY <2>4, <3>2 DEF ClearCredentials, EraseKey, CredRecs
    <3>4. QED
      BY <3>1, <3>3 DEF PairConsistent
  <2>5. ASSUME Restart PROVE CredPairConsistentUnderOneFault'
    BY <2>5 DEF Restart, IInv, TypeOK, CredPairConsistentUnderOneFault
  <2>6. ASSUME UNCHANGED vars PROVE CredPairConsistentUnderOneFault'
    BY <2>6 DEF vars, IInv, CredPairConsistentUnderOneFault
  <2>8. ASSUME NEW p \in Issued, StoreCrashes(p[1], p[2])
        PROVE  CredPairConsistentUnderOneFault'
    <3>1. crashes \in Nat /\ crashes' = crashes + 1
      BY <2>8 DEF StoreCrashes, IInv, TypeOK
    <3>2. QED
      BY <3>1 DEF CredPairConsistentUnderOneFault
  <2>7. QED
    BY <2>1, <2>2, <2>3, <2>4, <2>5, <2>6, <2>8 DEF Next, IInv
<1>3. IInv => CredPairConsistentUnderOneFault
  BY DEF IInv
<1>4. QED
  BY <1>1, <1>2, <1>3, PTL DEF Spec

-----------------------------------------------------------------------------
(* The step relation of MemoryFollowsFile.                                 *)
MemStep == \A k \in {"id", "token"} : mem'[k] # mem[k] => mem'[k] = cred'[k]

(* Every step keeps the thing's credentials in memory equal to, or moving  *)
(* to, what the file holds: a clear that failed does not touch memory.     *)
LEMMA MemStepHolds == TypeOK /\ [Next]_vars => MemStep
<1> SUFFICES ASSUME TypeOK, [Next]_vars PROVE MemStep
  OBVIOUS
<1>1. ASSUME NEW p \in Issued,
             \/ StoreTokenTooLong(p[1], p[2])
             \/ StoreCredentials(p[1], p[2])
             \/ StoreCrashes(p[1], p[2])
      PROVE MemStep
  BY <1>1 DEF StoreTokenTooLong, StoreCredentials, StoreCrashes, MemStep
<1>2. ASSUME ClearCredentials PROVE MemStep
  <2>1. cred \in CredRecs /\ mem \in CredRecs
    BY DEF TypeOK
  <2>2. \/ mem' = mem
        \/ mem' = EraseKey(EraseKey(mem, "token"), "id") /\ cred' = EraseKey(EraseKey(cred, "token"), "id")
        \/ mem' = EraseKey(mem, "token") /\ cred' = EraseKey(cred, "token")
    BY <1>2 DEF ClearCredentials, EraseFailed
  <2>3. QED
    BY <2>1, <2>2 DEF EraseKey, CredRecs, MemStep
<1>3. ASSUME Restart PROVE MemStep
  BY <1>3 DEF Restart, MemStep
<1>4. ASSUME UNCHANGED vars PROVE MemStep
  BY <1>4 DEF vars, MemStep
<1>5. QED
  BY <1>1, <1>2, <1>3, <1>4 DEF Next

(* The thing's id or token in memory only ever changes to what the file    *)
(* holds, for every value of the constants.                                *)
THEOREM MemoryFollows == Spec => MemoryFollowsFile
<1>1. TypeOK /\ [Next]_vars => [MemStep]_vars
  BY MemStepHolds
<1>2. QED
  BY TypeCorrect, <1>1, PTL DEF Spec, MemoryFollowsFile, MemStep
=============================================================================

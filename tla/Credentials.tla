---------------------------- MODULE Credentials ----------------------------
(***************************************************************************)
(* The Credential Manager of properties.c: properties_store_credentials,   *)
(* properties_clear_credentials (with erase_thing_token and erase_thing_id)*)
(* and set_thing_credentials, which loads the credentials file into the    *)
(* thing at start.  The credentials file holds a thing id and a token, ""  *)
(* when erased.  Opening the file or writing a key may fail, at most       *)
(* MaxFailures times in a behaviour.                                       *)
(***************************************************************************)
EXTENDS Integers

CONSTANTS
    Ids,          \* thing ids the cloud may issue
    Tokens,       \* thing tokens the cloud may issue
    LongTokens,   \* tokens longer than KNOT_PROTOCOL_TOKEN_LEN
    Issued,       \* the <<id, token>> pairs the cloud issues together
    MaxFailures,  \* bound on the storage operations that fail in a behaviour
    MaxCrashes    \* bound on the times the process dies in the middle of a store

(* EMPTY_STRING, written to erase a key.                                   *)
Empty == ""

ASSUME CredAssumption ==
    /\ Empty \notin Ids \cup Tokens
    /\ LongTokens \subseteq Tokens
    /\ Issued \subseteq Ids \X Tokens
    /\ MaxFailures \in Nat
    /\ MaxCrashes \in Nat

(* Return codes: 0, -EINVAL and storage_open's errno.                      *)
EINVAL == -22
OpenErr == -5

CredRecs == [id : Ids \cup {Empty}, token : Tokens \cup {Empty}]

VARIABLES
    cred,       \* the credentials file: [id, token]
    mem,        \* the thing's credentials in memory: [id, token]
    phase,      \* "run"; "failed" when the last start could not open the file;
                \* "down" when the process died
    failures,   \* storage operations that have failed so far
    lastRc,     \* what the last store or clear call returned
    lastClear,  \* the last clear call: did it open the file, which keys it tried
    crashes     \* times the process died between the two writes of a store

vars == <<cred, mem, phase, failures, lastRc, lastClear, crashes>>

-----------------------------------------------------------------------------
(* properties_store_credentials(id, token).                                *)

(* strlen(token) > KNOT_PROTOCOL_TOKEN_LEN: refused before the file is     *)
(* opened.                                                                 *)
StoreTokenTooLong(id, tok) ==
    /\ phase = "run"
    /\ tok \in LongTokens
    /\ lastRc' = EINVAL
    /\ UNCHANGED <<cred, mem, phase, failures, lastClear, crashes>>

(* Mutant: the rollback write is dropped.                                  *)
NoRollback(c) == c

(* Mutant: the rollback writes the id argument into the token key.         *)
RollbackWritesId(c) == [c EXCEPT !.token = c.id]

(* The token write is undone by writing EMPTY_STRING over it.              *)
Rollback(c) == [c EXCEPT !.token = Empty]

(* The token is written first, then the id; when the id write fails the    *)
(* token is overwritten with EMPTY_STRING, and the result of that write is *)
(* not checked.  Memory is not touched.                                    *)
StoreCredentials(id, tok) ==
    /\ phase = "run"
    /\ tok \notin LongTokens
    /\ \/ /\ cred' = [id |-> id, token |-> tok]
          /\ failures' = failures
          /\ lastRc' = 0
       \/ \* storage_open fails
          /\ failures < MaxFailures
          /\ failures' = failures + 1
          /\ cred' = cred
          /\ lastRc' = OpenErr
       \/ \* the token write fails
          /\ failures < MaxFailures
          /\ failures' = failures + 1
          /\ cred' = cred
          /\ lastRc' = EINVAL
       \/ \* the id write fails, the rollback write succeeds
          /\ failures < MaxFailures
          /\ failures' = failures + 1
          /\ cred' = Rollback([cred EXCEPT !.token = tok])
          /\ lastRc' = EINVAL
       \/ \* the id write fails and so does the rollback write
          /\ failures + 2 <= MaxFailures
          /\ failures' = failures + 2
          /\ cred' = [cred EXCEPT !.token = tok]
          /\ lastRc' = EINVAL
    /\ UNCHANGED <<mem, phase, lastClear, crashes>>

(* The process dies after the token write of properties_store_credentials *)
(* and before the id write: the file keeps the new token with the old id. *)
StoreCrashes(id, tok) ==
    /\ phase = "run"
    /\ tok \notin LongTokens
    /\ crashes < MaxCrashes
    /\ crashes' = crashes + 1
    /\ cred' = [cred EXCEPT !.token = tok]
    /\ phase' = "down"
    /\ UNCHANGED <<mem, failures, lastRc, lastClear>>

-----------------------------------------------------------------------------
(* properties_clear_credentials: erase_thing_token, then erase_thing_id;   *)
(* each clears the thing in memory only after its write succeeded, and a   *)
(* failed erase jumps to error without trying the next one.                *)

(* erase_thing_token / erase_thing_id when the write succeeds: the file    *)
(* key and then the thing field become EMPTY_STRING.                       *)
EraseKey(c, k) == [c EXCEPT ![k] = Empty]

(* Mutant: the thing field is cleared whatever the write returned.         *)
EraseFailedClears(m, k) == [m EXCEPT ![k] = Empty]

(* erase_thing_token / erase_thing_id when the write fails: l_error only,  *)
(* the thing keeps its field.                                              *)
EraseFailed(m, k) == m

ClearCredentials ==
    /\ phase = "run"
    /\ \/ /\ cred' = EraseKey(EraseKey(cred, "token"), "id")
          /\ mem' = EraseKey(EraseKey(mem, "token"), "id")
          /\ failures' = failures
          /\ lastRc' = 0
          /\ lastClear' = [opened |-> TRUE, tried |-> {"token", "id"}]
       \/ \* storage_open fails
          /\ failures < MaxFailures
          /\ failures' = failures + 1
          /\ UNCHANGED <<cred, mem>>
          /\ lastRc' = OpenErr
          /\ lastClear' = [opened |-> FALSE, tried |-> {}]
       \/ \* the token erase fails
          /\ failures < MaxFailures
          /\ failures' = failures + 1
          /\ cred' = cred
          /\ mem' = EraseFailed(mem, "token")
          /\ lastRc' = EINVAL
          /\ lastClear' = [opened |-> TRUE, tried |-> {"token"}]
       \/ \* the token is erased, the id erase fails
          /\ failures < MaxFailures
          /\ failures' = failures + 1
          /\ cred' = EraseKey(cred, "token")
          /\ mem' = EraseFailed(EraseKey(mem, "token"), "id")
          /\ lastRc' = EINVAL
          /\ lastClear' = [opened |-> TRUE, tried |-> {"token", "id"}]
    /\ UNCHANGED <<phase, crashes>>

-----------------------------------------------------------------------------
(* The process starts again and properties_create_device reaches           *)
(* set_thing_credentials, which copies the file into the thing; if the     *)
(* file cannot be opened the start fails.                                  *)
Restart ==
    /\ \/ /\ mem' = cred
          /\ phase' = "run"
          /\ failures' = failures
       \/ /\ failures < MaxFailures
          /\ failures' = failures + 1
          /\ phase' = "failed"
          /\ mem' = mem
    /\ UNCHANGED <<cred, lastRc, lastClear, crashes>>

-----------------------------------------------------------------------------
(* The file starts erased or holding an issued pair, and is loaded.        *)
InitCreds ==
    {[id |-> Empty, token |-> Empty]} \cup {[id |-> p[1], token |-> p[2]] : p \in Issued}

Init ==
    /\ cred \in InitCreds
    /\ mem = cred
    /\ phase = "run"
    /\ failures = 0
    /\ lastRc = 0
    /\ lastClear = [opened |-> FALSE, tried |-> {}]
    /\ crashes = 0

Next ==
    \/ \E p \in Issued : \/ StoreTokenTooLong(p[1], p[2])
                        \/ StoreCredentials(p[1], p[2])
                        \/ StoreCrashes(p[1], p[2])
    \/ ClearCredentials
    \/ Restart

Spec == Init /\ [][Next]_vars

-----------------------------------------------------------------------------
(* Type invariant.                                                         *)
TypeOK ==
    /\ cred \in CredRecs
    /\ mem \in CredRecs
    /\ phase \in {"run", "failed", "down"}
    /\ failures \in 0..MaxFailures
    /\ lastRc \in {0, EINVAL, OpenErr}
    /\ lastClear \in [opened : BOOLEAN, tried : SUBSET {"token", "id"}]
    /\ crashes \in 0..MaxCrashes

(* The file holds no token, or a token with the id it was issued with.     *)
PairConsistent(c) == c.token = Empty \/ <<c.id, c.token>> \in Issued

(* Spec 4.5: the file is never left with a token but no matching id.  The  *)
(* rollback in properties_store_credentials and the token-first order of   *)
(* properties_clear_credentials guarantee it as long as at most one        *)
(* storage operation has failed and the process has not died in the middle *)
(* of a store.                                                             *)
CredPairConsistentUnderOneFault ==
    failures <= 1 /\ crashes = 0 => PairConsistent(cred)

(* Spec 4.5: the file is never left with a token but no matching id,       *)
(* whatever storage operations fail.                                       *)
CredPairConsistent == PairConsistent(cred)

(* The thing's id or token in memory only ever changes to what the file    *)
(* holds: erase_thing_* clear memory only after the write succeeded, and   *)
(* set_thing_credentials copies the file.                                  *)
MemoryFollowsFile ==
    [][\A k \in {"id", "token"} : mem'[k] # mem[k] => mem'[k] = cred'[k]]_vars

(* Spec 4.5: clear_credentials attempts the second erase even when the     *)
(* first one fails.                                                        *)
ClearAttemptsBoth == lastClear.opened => lastClear.tried = {"token", "id"}
=============================================================================

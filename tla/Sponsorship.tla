---------------------------- MODULE Sponsorship ----------------------------
(***************************************************************************)
(* internal/sponsor and the part of internal/paymaster that decides who is *)
(* sponsored: pm_getPaymasterData with invite-code gating.  Each request   *)
(* is served by a goroutine of its own, and the invite tool writes to the  *)
(* same database file, so requests interleave at every statement that      *)
(* reads or writes it.                                                     *)
(*                                                                         *)
(* RedeemCode is one transaction that reads first and writes last.  SQLite *)
(* (WAL mode, no busy timeout) fixes its snapshot at the first read and    *)
(* refuses the first write if anyone has committed since.                  *)
(***************************************************************************)
EXTENDS Naturals

CONSTANTS
    Accounts,   \* op.Sender of the requests
    Codes,      \* invite codes that may be generated
    Requests,   \* the requests clients make, a retry being a new attempt
    account,    \* [Requests -> Accounts]
    code,       \* [Requests -> Codes \cup {NoCode}], context.invite_code
    NoCode,     \* the request has no code, the row no invite_code
    Nobody,     \* used_by is NULL
    DbErrors    \* whether a statement may fail (SQLITE_BUSY by another writer)

ASSUME SponsorAssumption ==
    /\ account \in [Requests -> Accounts]
    /\ code \in [Requests -> Codes \cup {NoCode}]
    /\ NoCode \notin Codes
    /\ Nobody \notin Accounts
    /\ DbErrors \in BOOLEAN

VARIABLES
    usedBy,     \* invite_codes: used_by of every code that was generated
    inviteCode, \* whitelisted_senders: invite_code of every sender in it
    version,    \* commits of the database so far
    pc,         \* where GetPaymasterData is, per request
    snapshot,   \* version at the first read of the request's RedeemCode
    signed      \* requests that got a paymaster signature

tables == <<usedBy, inviteCode, version>>
sponsorVars == <<tables, pc, snapshot, signed>>

Generated == DOMAIN usedBy
Whitelisted == DOMAIN inviteCode

Pcs == {"idle", "access", "redeem", "commit", "policy"}

SponsorTypeOK ==
    /\ Generated \subseteq Codes
    /\ usedBy \in [Generated -> Accounts \cup {Nobody}]
    /\ Whitelisted \subseteq Accounts
    /\ inviteCode \in [Whitelisted -> Codes]
    /\ version \in Nat
    /\ pc \in [Requests -> Pcs]
    /\ snapshot \in [Requests -> Nat]
    /\ signed \subseteq Requests

SponsorInit ==
    /\ usedBy = [c \in {} |-> Nobody]
    /\ inviteCode = [s \in {} |-> NoCode]
    /\ version = 0
    /\ pc = [r \in Requests |-> "idle"]
    /\ snapshot = [r \in Requests |-> 0]
    /\ signed = {}

-----------------------------------------------------------------------------
GoOn(r, p) == pc' = [pc EXCEPT ![r] = p]

(* cmd/invite: one transaction; the codes are random, a collision with one *)
(* that is there fails it.                                                 *)
GenerateCodes(C) ==
    /\ C \cap Generated = {}
    /\ usedBy' = [c \in Generated \cup C |-> IF c \in C THEN Nobody ELSE usedBy[c]]
    /\ version' = version + 1
    /\ UNCHANGED <<inviteCode, pc, snapshot, signed>>

(* pm_getPaymasterData is called (again).                                  *)
GetPaymasterData(r) ==
    /\ pc[r] = "idle"
    /\ GoOn(r, "access")
    /\ UNCHANGED <<tables, snapshot, signed>>

(* checkSponsorAccess: CheckSender, where an error counts as "not listed". *)
CheckSponsorAccess(r) ==
    /\ pc[r] = "access"
    /\ \/ account[r] \in Whitelisted /\ GoOn(r, "policy")
       \/ /\ account[r] \notin Whitelisted \/ DbErrors
          /\ GoOn(r, IF code[r] = NoCode THEN "idle" ELSE "redeem")
    /\ UNCHANGED <<tables, snapshot, signed>>

(* Mutant: a refused code does not end the request.                        *)
ReadIgnoringRefusal(r) ==
    /\ pc[r] = "redeem"
    /\ snapshot' = [snapshot EXCEPT ![r] = version]
    /\ IF /\ account[r] \notin Whitelisted
          /\ code[r] \in Generated /\ usedBy[code[r]] = Nobody
       THEN GoOn(r, "commit") ELSE GoOn(r, "policy")
    /\ UNCHANGED <<tables, signed>>

(* RedeemCode up to its first write: an account that has been listed       *)
(* meanwhile spends nothing; an unknown or used code is refused.           *)
ReadForRedeem(r) ==
    /\ pc[r] = "redeem"
    /\ snapshot' = [snapshot EXCEPT ![r] = version]
    /\ \/ account[r] \in Whitelisted /\ GoOn(r, "policy")
       \/ /\ account[r] \notin Whitelisted
          /\ IF code[r] \in Generated /\ usedBy[code[r]] = Nobody
             THEN GoOn(r, "commit") ELSE GoOn(r, "idle")
       \/ DbErrors /\ GoOn(r, "idle")
    /\ UNCHANGED <<tables, signed>>

(* Mutant: the statements run on the pool, not in the transaction.         *)
RedeemOutsideTransaction(r) ==
    /\ pc[r] = "commit"
    /\ usedBy' = [usedBy EXCEPT ![code[r]] = account[r]]
    /\ inviteCode' = [s \in Whitelisted \cup {account[r]} |->
                        IF s = account[r] THEN code[r] ELSE inviteCode[s]]
    /\ version' = version + 1
    /\ GoOn(r, "policy")
    /\ UNCHANGED <<snapshot, signed>>

(* The rest of RedeemCode: both rows are written, or the transaction rolls *)
(* back and the request is refused.                                        *)
CommitRedeem(r) ==
    /\ pc[r] = "commit"
    /\ \/ /\ version = snapshot[r]
          /\ usedBy' = [usedBy EXCEPT ![code[r]] = account[r]]
          /\ inviteCode' = [s \in Whitelisted \cup {account[r]} |->
                              IF s = account[r] THEN code[r] ELSE inviteCode[s]]
          /\ version' = version + 1
          /\ GoOn(r, "policy")
       \/ /\ version # snapshot[r] \/ DbErrors
          /\ GoOn(r, "idle")
          /\ UNCHANGED tables
    /\ UNCHANGED <<snapshot, signed>>

(* checkShouldSponsor asks the paymaster contract (external: yes, no or an *)
(* error); only then the answer is signed.  A refusal takes nothing back.  *)
CheckShouldSponsor(r) ==
    /\ pc[r] = "policy"
    /\ GoOn(r, "idle")
    /\ signed' \in {signed, signed \cup {r}}
    /\ UNCHANGED <<tables, snapshot>>

(* The process is restarted: the requests in flight are gone.              *)
Restart ==
    /\ pc' = [r \in Requests |-> "idle"]
    /\ UNCHANGED <<tables, snapshot, signed>>

SponsorNext ==
    \/ \E C \in SUBSET Codes \ {{}} : GenerateCodes(C)
    \/ \E r \in Requests :
          \/ GetPaymasterData(r)
          \/ CheckSponsorAccess(r)
          \/ ReadForRedeem(r)
          \/ CommitRedeem(r)
          \/ CheckShouldSponsor(r)
    \/ Restart

SponsorSpec == SponsorInit /\ [][SponsorNext]_sponsorVars

-----------------------------------------------------------------------------
(* The two tables tell one story: a sender is listed with a code exactly   *)
(* when that code says it was used by this sender.  So one code buys one   *)
(* sender, one sender spends one code, and no code is spent for nothing,   *)
(* however requests for the same code or the same sender interleave.       *)
CodesMatchSenders ==
    /\ \A s \in Whitelisted :
          inviteCode[s] \in Generated /\ usedBy[inviteCode[s]] = s
    /\ \A c \in Generated : usedBy[c] # Nobody =>
          usedBy[c] \in Whitelisted /\ inviteCode[usedBy[c]] = c

(* With gating on, a paymaster signature is given only for a sender that   *)
(* is listed, by way of whichever of the checks the request came.          *)
SignedIsWhitelisted == \A r \in signed : account[r] \in Whitelisted

(* A request about to write decided on tables that are still what they     *)
(* were, unless someone has committed since and its write is refused.      *)
PendingRedeemIsCurrent ==
    \A r \in Requests :
        /\ snapshot[r] <= version
        /\ pc[r] = "policy" => account[r] \in Whitelisted
        /\ pc[r] = "commit" /\ snapshot[r] = version =>
             /\ account[r] \notin Whitelisted
             /\ code[r] \in Generated
             /\ usedBy[code[r]] = Nobody

SponsorInductive ==
    /\ SponsorTypeOK
    /\ CodesMatchSenders
    /\ SignedIsWhitelisted
    /\ PendingRedeemIsCurrent
=============================================================================

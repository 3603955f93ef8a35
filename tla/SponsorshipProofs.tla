------------------------- MODULE SponsorshipProofs -------------------------
(***************************************************************************)
(* For any number of accounts, codes and concurrent requests: one code     *)
(* buys one sender, and only listed senders are sponsored.  The invariant  *)
(* needs PendingRedeemIsCurrent: a request that passed the checks may only *)
(* write if the tables are still the ones it checked.                      *)
(***************************************************************************)
EXTENDS Sponsorship, TLAPS

LEMMA SponsorInitially == SponsorInit => SponsorInductive
BY SponsorAssumption DEF SponsorInit, SponsorInductive, SponsorTypeOK, Generated,
    Whitelisted, CodesMatchSenders, SignedIsWhitelisted, PendingRedeemIsCurrent, Pcs

(* A step of one request that writes no table and lets it sign only past   *)
(* the access check.                                                       *)
LEMMA RequestReads ==
    ASSUME SponsorInductive, NEW r \in Requests, NEW p \in Pcs,
           UNCHANGED <<tables, signed>>, GoOn(r, p),
           snapshot' \in {snapshot, [snapshot EXCEPT ![r] = version]},
           p # "commit", p = "policy" => account[r] \in Whitelisted
    PROVE  SponsorInductive'
BY DEF SponsorInductive, SponsorTypeOK, CodesMatchSenders, SignedIsWhitelisted,
    PendingRedeemIsCurrent, Generated, Whitelisted, tables, GoOn, Pcs

LEMMA GenerateStep ==
    ASSUME SponsorInductive, NEW C \in SUBSET Codes, GenerateCodes(C)
    PROVE  SponsorInductive'
<1>1. /\ Generated' = Generated \cup C
      /\ \A c \in Generated : usedBy'[c] = usedBy[c]
      /\ \A c \in C : usedBy'[c] = Nobody
      /\ Whitelisted' = Whitelisted
  BY DEF GenerateCodes, Generated, Whitelisted
<1>2. SponsorTypeOK'
  BY <1>1 DEF SponsorInductive, SponsorTypeOK, GenerateCodes, Generated, Whitelisted
<1>3. CodesMatchSenders'
  BY <1>1 DEF SponsorInductive, CodesMatchSenders, GenerateCodes
<1>4. SignedIsWhitelisted'
  BY <1>1 DEF SponsorInductive, SignedIsWhitelisted, GenerateCodes
<1>5. PendingRedeemIsCurrent'
  BY <1>1 DEF SponsorInductive, SponsorTypeOK, PendingRedeemIsCurrent, GenerateCodes
<1> QED
  BY <1>2, <1>3, <1>4, <1>5 DEF SponsorInductive

LEMMA ReadStep ==
    ASSUME SponsorInductive, NEW r \in Requests, ReadForRedeem(r)
    PROVE  SponsorInductive'
<1>1. CASE account[r] \in Whitelisted /\ GoOn(r, "policy")
  BY <1>1, RequestReads DEF ReadForRedeem, Pcs
<1>2. CASE GoOn(r, "idle")
  BY <1>2, RequestReads DEF ReadForRedeem, Pcs
<1>3. CASE /\ account[r] \notin Whitelisted
           /\ code[r] \in Generated /\ usedBy[code[r]] = Nobody
           /\ GoOn(r, "commit")
  BY <1>3 DEF ReadForRedeem, SponsorInductive, SponsorTypeOK, CodesMatchSenders,
      SignedIsWhitelisted, PendingRedeemIsCurrent, Generated, Whitelisted, tables, GoOn, Pcs
<1> QED
  BY <1>1, <1>2, <1>3 DEF ReadForRedeem

(* The one step where the tables grow together.                            *)
LEMMA CommitStep ==
    ASSUME SponsorInductive, NEW r \in Requests, CommitRedeem(r)
    PROVE  SponsorInductive'
<1>1. CASE GoOn(r, "idle") /\ UNCHANGED tables
  BY <1>1, RequestReads DEF CommitRedeem, Pcs
<1>2. CASE /\ version = snapshot[r]
           /\ usedBy' = [usedBy EXCEPT ![code[r]] = account[r]]
           /\ inviteCode' = [s \in Whitelisted \cup {account[r]} |->
                               IF s = account[r] THEN code[r] ELSE inviteCode[s]]
           /\ version' = version + 1
           /\ GoOn(r, "policy")
  <2> DEFINE s == account[r]
             c == code[r]
  <2>1. s \in Accounts \ Whitelisted /\ c \in Generated /\ usedBy[c] = Nobody /\ s # Nobody
    BY <1>2, SponsorAssumption
    DEF CommitRedeem, SponsorInductive, PendingRedeemIsCurrent
  <2>2. /\ Generated' = Generated
        /\ Whitelisted' = Whitelisted \cup {s}
        /\ usedBy'[c] = s /\ inviteCode'[s] = c
        /\ \A d \in Generated \ {c} : usedBy'[d] = usedBy[d]
        /\ \A t \in Whitelisted : inviteCode'[t] = inviteCode[t]
    BY <1>2, <2>1 DEF SponsorInductive, SponsorTypeOK, Generated, Whitelisted
  <2>3. SponsorTypeOK'
    <3>1. Generated' \subseteq Codes /\ usedBy' \in [Generated' -> Accounts \cup {Nobody}]
      BY <1>2, <2>1, <2>2 DEF SponsorInductive, SponsorTypeOK, Generated
    <3>2. Whitelisted' \subseteq Accounts /\ inviteCode' \in [Whitelisted' -> Codes]
      BY <1>2, <2>1, <2>2 DEF SponsorInductive, SponsorTypeOK, Whitelisted
    <3>3. version' \in Nat /\ snapshot' \in [Requests -> Nat] /\ signed' \subseteq Requests
      BY <1>2 DEF CommitRedeem, SponsorInductive, SponsorTypeOK
    <3>4. pc' \in [Requests -> Pcs]
      BY <1>2 DEF SponsorInductive, SponsorTypeOK, GoOn, Pcs
    <3> QED
      BY <3>1, <3>2, <3>3, <3>4 DEF SponsorTypeOK
  <2>4. CodesMatchSenders'
    <3>1. \A t \in Whitelisted : inviteCode[t] # c
      BY <2>1, SponsorAssumption DEF SponsorInductive, SponsorTypeOK, CodesMatchSenders
    <3> QED
      BY <2>1, <2>2, <3>1 DEF SponsorInductive, CodesMatchSenders
  <2>5. SignedIsWhitelisted'
    BY <2>2 DEF CommitRedeem, SponsorInductive, SignedIsWhitelisted
  <2>6. PendingRedeemIsCurrent'
    BY <1>2, <2>2
    DEF CommitRedeem, SponsorInductive, SponsorTypeOK, PendingRedeemIsCurrent, GoOn
  <2> QED
    BY <2>3, <2>4, <2>5, <2>6 DEF SponsorInductive
<1> QED
  BY <1>1, <1>2 DEF CommitRedeem

LEMMA PolicyStep ==
    ASSUME SponsorInductive, NEW r \in Requests, CheckShouldSponsor(r)
    PROVE  SponsorInductive'
BY DEF CheckShouldSponsor, SponsorInductive, SponsorTypeOK, CodesMatchSenders,
    SignedIsWhitelisted, PendingRedeemIsCurrent, Generated, Whitelisted, tables, GoOn, Pcs

LEMMA SponsorStep ==
    SponsorInductive /\ [SponsorNext]_sponsorVars => SponsorInductive'
<1> SUFFICES ASSUME SponsorInductive, [SponsorNext]_sponsorVars
             PROVE  SponsorInductive'
  OBVIOUS
<1>1. ASSUME NEW C \in SUBSET Codes, GenerateCodes(C) PROVE SponsorInductive'
  BY <1>1, GenerateStep
<1>2. ASSUME NEW r \in Requests, GetPaymasterData(r) PROVE SponsorInductive'
  BY <1>2, RequestReads DEF GetPaymasterData, Pcs
<1>3. ASSUME NEW r \in Requests, CheckSponsorAccess(r) PROVE SponsorInductive'
  <2>1. CASE account[r] \in Whitelisted /\ GoOn(r, "policy")
    BY <1>3, <2>1, RequestReads DEF CheckSponsorAccess, Pcs
  <2>2. CASE GoOn(r, "idle") \/ GoOn(r, "redeem")
    BY <1>3, <2>2, RequestReads DEF CheckSponsorAccess, Pcs
  <2> QED
    BY <1>3, <2>1, <2>2 DEF CheckSponsorAccess
<1>4. ASSUME NEW r \in Requests, ReadForRedeem(r) PROVE SponsorInductive'
  BY <1>4, ReadStep
<1>5. ASSUME NEW r \in Requests, CommitRedeem(r) PROVE SponsorInductive'
  BY <1>5, CommitStep
<1>6. ASSUME NEW r \in Requests, CheckShouldSponsor(r) PROVE SponsorInductive'
  BY <1>6, PolicyStep
<1>7. CASE Restart
  BY <1>7 DEF Restart, SponsorInductive, SponsorTypeOK, CodesMatchSenders,
      SignedIsWhitelisted, PendingRedeemIsCurrent, Generated, Whitelisted, tables, Pcs
<1>8. CASE UNCHANGED sponsorVars
  BY <1>8 DEF sponsorVars, tables, SponsorInductive, SponsorTypeOK, CodesMatchSenders,
      SignedIsWhitelisted, PendingRedeemIsCurrent, Generated, Whitelisted
<1> QED
  BY <1>1, <1>2, <1>3, <1>4, <1>5, <1>6, <1>7, <1>8 DEF SponsorNext

LEMMA SponsorAlways == SponsorSpec => []SponsorInductive
BY SponsorInitially, SponsorStep, PTL DEF SponsorSpec

(* One code buys one sender, whatever interleaves with its redemption      *)
(* (the transaction of RedeemCode).                                        *)
THEOREM OneSenderPerCode == SponsorSpec => []CodesMatchSenders
<1>1. SponsorInductive => CodesMatchSenders
  BY DEF SponsorInductive
<1> QED
  BY <1>1, SponsorAlways, PTL

(* Only listed senders get a paymaster signature (GetPaymasterData).       *)
THEOREM OnlyWhitelistedSigned == SponsorSpec => []SignedIsWhitelisted
<1>1. SponsorInductive => SignedIsWhitelisted
  BY DEF SponsorInductive
<1> QED
  BY <1>1, SponsorAlways, PTL
=============================================================================

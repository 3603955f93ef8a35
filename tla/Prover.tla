------------------------------- MODULE Prover -------------------------------
(***************************************************************************)
(* internal/prover and its place in cmd/bundler: POST /v1/prove turns a    *)
(* JWT into a zero-knowledge proof by running nargo and bb over files in   *)
(* ONE temporary directory that all requests share.  Requests run          *)
(* concurrently; each keeps its files apart by a random id, and removes    *)
(* them when Prove returns, however it returns.                            *)
(*                                                                         *)
(* nargo, bb, the file system and the issuer's key endpoint are external:  *)
(* each may fail at any time, a failing write or tool may leave a          *)
(* truncated file behind, and a file may resist its removal.               *)
(***************************************************************************)
EXTENDS Naturals, FiniteSets

CONSTANTS
    Requests,   \* HTTP requests to /v1/prove
    Inputs,     \* what they carry, see ProverAssumption
    Ids,        \* values of randomID
    Moduli,     \* RSA moduli
    MaxStuck,   \* bound: files that resist their removal
    ApiKeySet,  \* whether PROVER_API_KEY is set
    Absent,     \* no file, no id, no key
    Partial     \* a truncated file, or a proof directory without its proof

(* key: the X-API-Key header matches.  body: it is read, is JSON, and      *)
(* session_pub is hex.  pubLen: that is 33 bytes.  form: three base64      *)
(* parts, JSON header and claims of the expected types.  data: header and  *)
(* claims fit MaxDataLength.  claims: each of iss, sub, aud and azp fits   *)
(* BoundedVecMaxLen.  signer: the modulus that verifies the signature.     *)
Jwts == [form : BOOLEAN, rs256 : BOOLEAN, signer : Moduli,
         dataFits : BOOLEAN, claimsFit : BOOLEAN]

ASSUME ProverAssumption ==
    /\ \A i \in Inputs :
          /\ i.post \in BOOLEAN /\ i.key \in BOOLEAN /\ i.body \in BOOLEAN
          /\ i.pubLen \in BOOLEAN
          /\ i.jwt \in Jwts
    /\ ApiKeySet \in BOOLEAN
    /\ MaxStuck \in Nat
    /\ Absent \notin Ids

Kinds == {"toml", "witness", "proof"}
Statements == {[jwt |-> i.jwt, pub |-> i.pub, modulus |-> n] : i \in Inputs, n \in Moduli}
Contents == Statements \cup {Absent, Partial}
Pcs == {"idle", "fetch", "write", "execute", "mkdir", "prove", "read",
        "cleanup", "reply", "done", "lost"}
Dues == {"none", "proof", "error", "panic"}
Statuses == {"none", "200", "400", "401", "405", "500", "jsonrpc"}

VARIABLES
    phase,      \* of the process: starting, serving, draining, closing, exited
    enabled,    \* proverHandler != nil
    dir,        \* circuitDir: none, partial (no whole circuit in it), ready
    files,      \* the per-request files in it, by kind and id
    stuck,      \* history: the files cleanupRequest could not remove
    pc, input, id, modulus,     \* a request: where it is, and its locals
    due,        \* how Prove ends: with a proof, an error or a panic
    got,        \* the proof it read
    answer      \* the status the client got

process == <<phase, enabled, dir>>
locals == <<input, id, modulus, due, got>>
proverVars == <<process, files, stuck, pc, locals, answer>>

ProverTypeOK ==
    /\ phase \in {"starting", "serving", "draining", "closing", "exited"}
    /\ enabled \in BOOLEAN
    /\ dir \in {"none", "partial", "ready"}
    /\ files \in [Kinds -> [Ids -> Contents]]
    /\ stuck \subseteq Kinds \X Ids
    /\ pc \in [Requests -> Pcs]
    /\ input \in [Requests -> Inputs \cup {Absent}]
    /\ id \in [Requests -> Ids \cup {Absent}]
    /\ modulus \in [Requests -> Moduli \cup {Absent}]
    /\ due \in [Requests -> Dues]
    /\ got \in [Requests -> Statements \cup {Absent}]
    /\ answer \in [Requests -> Statuses]

NoFiles == [k \in Kinds |-> [n \in Ids |-> Absent]]

ProverInit ==
    /\ phase = "starting"
    /\ enabled = FALSE
    /\ dir = "none"
    /\ files = NoFiles
    /\ stuck = {}
    /\ pc = [r \in Requests |-> "idle"]
    /\ input = [r \in Requests |-> Absent]
    /\ id = [r \in Requests |-> Absent]
    /\ modulus = [r \in Requests |-> Absent]
    /\ due = [r \in Requests |-> "none"]
    /\ got = [r \in Requests |-> Absent]
    /\ answer = [r \in Requests |-> "none"]

-----------------------------------------------------------------------------
(* New, at startup: the binaries and their versions are checked, then      *)
(* extractCircuit makes and fills the directory.  On any error the prover  *)
(* is off, and what extractCircuit had made stays.                         *)
New ==
    /\ phase = "starting"
    /\ phase' = "serving"
    /\ \/ enabled' = TRUE /\ dir' = "ready"
       \/ enabled' = FALSE /\ dir' \in {"none", "partial"}
    /\ UNCHANGED <<files, stuck, pc, locals, answer>>

(* The JSON-RPC path behind RequireAPIKey, which a prove request ends up   *)
(* on while the prover is off: the body has no "jsonrpc".                  *)
RequireAPIKey(i) == IF ApiKeySet /\ ~i.key THEN "401" ELSE "jsonrpc"

(* What Handler, the checks of Prove and those of fetchJWKSPublicKey say   *)
(* before anything leaves the process.                                     *)
Refusal(i) ==
    IF ~enabled THEN RequireAPIKey(i)
    ELSE IF ~i.post THEN "405"
    ELSE IF ApiKeySet /\ ~i.key THEN "401"
    ELSE IF ~i.body THEN "400"
    ELSE IF ~i.pubLen \/ ~i.jwt.form \/ ~i.jwt.rs256 THEN "500"
    ELSE "none"

Goto(r, p) == pc' = [pc EXCEPT ![r] = p]

Answer(r, status) ==
    /\ Goto(r, "done")
    /\ answer' = [answer EXCEPT ![r] = status]

Handle(r, i) ==
    /\ phase = "serving" /\ pc[r] = "idle"
    /\ input' = [input EXCEPT ![r] = i]
    /\ IF Refusal(i) = "none" THEN Goto(r, "fetch") /\ UNCHANGED answer
                              ELSE Answer(r, Refusal(i))
    /\ UNCHANGED <<process, files, stuck, id, modulus, due, got>>

Running(r, p) == phase # "exited" /\ pc[r] = p

(* fetchJWKSPublicKey: the discovery document, then the keys, by http.Get  *)
(* without a timeout, so this step may never come.  The issuer replaces    *)
(* its keys when it likes: what it serves under the token's kid is any key *)
(* or, like a failing call, none.  Data that is too long is only refused   *)
(* after it; a modulus of zero panics, which is recovered with the same    *)
(* answer.                                                                 *)
FetchKey(r) ==
    /\ Running(r, "fetch")
    /\ \/ /\ \E key \in Moduli : modulus' = [modulus EXCEPT ![r] = key]
          /\ IF input[r].jwt.dataFits
             THEN Goto(r, "write") /\ UNCHANGED answer
             ELSE Answer(r, "500")
       \/ Answer(r, "500") /\ UNCHANGED modulus
    /\ UNCHANGED <<process, files, stuck, input, id, due, got>>

(* Mutant: the key that was fetched is not passed on.                      *)
StatementWithoutKey(r) == [jwt |-> input[r].jwt, pub |-> input[r].pub, modulus |-> Absent]

(* Every field the witness is made from: the signed data and signature of  *)
(* the JWT, its claims, the modulus and the session key.                   *)
Statement(r) == [jwt |-> input[r].jwt, pub |-> input[r].pub, modulus |-> modulus[r]]

(* Mutant: the id is not unique to the request.                            *)
AnyIds == Ids

(* randomID: 64 random bits, taken never to repeat while in use or while a *)
(* file of an earlier request lies under them.                             *)
FreshIds == Ids \ ({id[q] : q \in Requests} \cup {f[2] : f \in stuck})

Put(kind, n, content) == files' = [files EXCEPT ![kind][n] = content]

(* Whatever ends Prove from here on first runs the deferred cleanup.       *)
End(r, d) == Goto(r, "cleanup") /\ due' = [due EXCEPT ![r] = d]

(* writeProverToml.  writeBoundedVec indexes past its array when a claim   *)
(* is too long: a panic, before the file is made.                          *)
WriteToml(r) ==
    /\ Running(r, "write")
    /\ \E n \in FreshIds :
          /\ id' = [id EXCEPT ![r] = n]
          /\ \/ /\ ~input[r].jwt.claimsFit
                /\ End(r, "panic") /\ UNCHANGED files
             \/ /\ input[r].jwt.claimsFit /\ dir # "none"
                /\ Put("toml", n, Statement(r))
                /\ Goto(r, "execute") /\ UNCHANGED due
             \/ /\ input[r].jwt.claimsFit
                /\ IF dir = "none" THEN UNCHANGED files
                   ELSE \E c \in {Absent, Partial} : Put("toml", n, c)
                /\ End(r, "error")
    /\ UNCHANGED <<process, stuck, input, modulus, got, answer>>

(* nargo execute: it solves the witness, which exists only if the modulus  *)
(* verifies the signature of the JWT in the file.                          *)
NargoExecute(r) ==
    LET toml == files["toml"][id[r]] IN
    /\ Running(r, "execute")
    /\ \/ /\ dir = "ready"
          /\ toml \notin {Absent, Partial} /\ toml.jwt.signer = toml.modulus
          /\ Put("witness", id[r], toml)
          /\ Goto(r, "mkdir") /\ UNCHANGED due
       \/ /\ IF dir = "none" THEN UNCHANGED files
             ELSE \E c \in {Absent, Partial} : Put("witness", id[r], c)
          /\ End(r, "error")
    /\ UNCHANGED <<process, stuck, input, id, modulus, got, answer>>

(* MkdirAll makes the parents too: after Close it brings back a directory  *)
(* with no circuit in it.                                                  *)
MakeProofDir(r) ==
    /\ Running(r, "mkdir")
    /\ \/ /\ Put("proof", id[r], Partial)
          /\ dir' = IF dir = "none" THEN "partial" ELSE dir
          /\ Goto(r, "prove") /\ UNCHANGED due
       \/ End(r, "error") /\ UNCHANGED <<files, dir>>
    /\ UNCHANGED <<phase, enabled, stuck, input, id, modulus, got, answer>>

(* bb prove, from the circuit and the witness file.                        *)
BbProve(r) ==
    LET witness == files["witness"][id[r]] IN
    /\ Running(r, "prove")
    /\ \/ /\ dir = "ready" /\ witness \notin {Absent, Partial}
          /\ Put("proof", id[r], witness)
          /\ Goto(r, "read") /\ UNCHANGED due
       \/ End(r, "error") /\ UNCHANGED files
    /\ UNCHANGED <<process, stuck, input, id, modulus, got, answer>>

ReadProof(r) ==
    LET proof == files["proof"][id[r]] IN
    /\ Running(r, "read")
    /\ \/ /\ proof \notin {Absent, Partial}
          /\ got' = [got EXCEPT ![r] = proof]
          /\ End(r, "proof")
       \/ End(r, "error") /\ UNCHANGED got
    /\ UNCHANGED <<process, files, stuck, input, id, modulus, answer>>

(* The files of r are removed, but for those of the kinds in left.         *)
Remove(r, left) ==
    files' = [k \in Kinds |->
                IF k \in left THEN files[k] ELSE [files[k] EXCEPT ![id[r]] = Absent]]

(* Mutant: the files are removed on the way to a proof only.               *)
CleanupAfterProof(r) ==
    /\ Running(r, "cleanup")
    /\ Remove(r, IF due[r] = "proof" THEN {} ELSE Kinds)
    /\ id' = [id EXCEPT ![r] = Absent]
    /\ Goto(r, "reply")
    /\ UNCHANGED <<process, stuck, input, modulus, due, got, answer>>

(* cleanupRequest, deferred before the first file is written.  An error of *)
(* a Remove is ignored and the next one follows.                           *)
Cleanup(r) ==
    /\ Running(r, "cleanup")
    /\ \E failed \in SUBSET {k \in Kinds : files[k][id[r]] # Absent} :
          /\ Remove(r, failed)
          /\ stuck' = stuck \cup {<<k, id[r]>> : k \in failed}
          /\ failed # {} => Cardinality(stuck') <= MaxStuck
    /\ id' = [id EXCEPT ![r] = Absent]
    /\ Goto(r, "reply")
    /\ UNCHANGED <<process, input, modulus, due, got, answer>>

(* The end of Handler: claims, modulus and session key are sent back from  *)
(* the request's own locals.                                               *)
Respond(r) ==
    /\ Running(r, "reply") /\ due[r] # "panic"
    /\ Answer(r, IF due[r] = "proof" THEN "200" ELSE "500")
    /\ UNCHANGED <<process, files, stuck, locals>>

(* Mutant: the panic ends the connection, not in an answer.                *)
Unrecovered(r) == FALSE /\ UNCHANGED proverVars

(* recoverMiddleware: a panic of the handler becomes a 500.                *)
Recover(r) ==
    /\ Running(r, "reply") /\ due[r] = "panic"
    /\ Answer(r, "500")
    /\ UNCHANGED <<process, files, stuck, locals>>

-----------------------------------------------------------------------------
InFlight(r) == pc[r] \notin {"idle", "done", "lost"}

Become(p) == phase' = p /\ UNCHANGED <<enabled, stuck, locals, answer>>

(* SIGTERM: Shutdown takes no new requests.                                *)
Signal ==
    /\ phase = "serving"
    /\ Become("draining")
    /\ UNCHANGED <<dir, files, pc>>

(* Close: RemoveAll takes the directory away, or all it can of it.         *)
Close ==
    \/ ~enabled /\ UNCHANGED <<dir, files>>
    \/ enabled /\ dir' = "none" /\ files' = NoFiles
    \/ /\ enabled
       /\ dir' \in {"partial", dir}
       /\ \E left \in SUBSET {f \in Kinds \X Ids : files[f[1]][f[2]] # Absent} :
             /\ Cardinality(left \cup stuck) <= MaxStuck
             /\ files' = [k \in Kinds |-> [n \in Ids |->
                            IF <<k, n>> \in left THEN files[k][n] ELSE Absent]]

(* Mutant: Shutdown waits for every request.                               *)
DrainFully ==
    /\ phase = "draining"
    /\ \A r \in Requests : ~InFlight(r)
    /\ Become("closing")
    /\ Close
    /\ UNCHANGED pc

(* Shutdown returns when no request is left or after 5 seconds, then the   *)
(* deferred Close removes the directory with whatever is in it, requests   *)
(* in flight or not.                                                       *)
DrainAndClose ==
    /\ phase = "draining"
    /\ Become("closing")
    /\ Close
    /\ UNCHANGED pc

(* run returns and the process ends with every request it still had.       *)
Exit ==
    /\ phase = "closing"
    /\ Become("exited")
    /\ pc' = [r \in Requests |-> IF InFlight(r) THEN "lost" ELSE pc[r]]
    /\ UNCHANGED <<dir, files>>

Local(r) ==
    \/ WriteToml(r) \/ NargoExecute(r) \/ MakeProofDir(r) \/ BbProve(r)
    \/ ReadProof(r) \/ Cleanup(r) \/ Respond(r) \/ Recover(r)

ProverNext ==
    \/ New
    \/ \E r \in Requests :
          (\E i \in Inputs : Handle(r, i)) \/ FetchKey(r) \/ Local(r)
    \/ Signal \/ DrainAndClose \/ Exit

(* A goroutine that can go on does, and the tools end (runCmd waits for    *)
(* them without a timeout).  Nothing is assumed of the key endpoint.       *)
ProverFairness ==
    /\ \A r \in Requests : WF_proverVars(Local(r))
    /\ WF_proverVars(DrainAndClose) /\ WF_proverVars(Exit)

ProverSpec == ProverInit /\ [][ProverNext]_proverVars /\ ProverFairness

-----------------------------------------------------------------------------
(* A 200 carries the proof of this request's own JWT and session key, made *)
(* with the modulus it reports, which verifies that JWT: whatever other    *)
(* requests do in the same directory and whichever key each was served.    *)
RepliesAreOwn ==
    \A r \in Requests : answer[r] = "200" =>
        /\ got[r] = Statement(r)
        /\ modulus[r] = input[r].jwt.signer

(* A file in the directory belongs to a request that is not answered yet,  *)
(* unless its own removal failed: errors of the tools, panics, truncated   *)
(* writes and the failing removal of another file leave nothing behind.    *)
FilesAreInFlight ==
    \A k \in Kinds, n \in Ids : files[k][n] # Absent =>
        \/ <<k, n>> \in stuck
        \/ \E r \in Requests : id[r] = n /\ pc[r] # "done"

(* Once the issuer has answered, the client gets an answer unless the      *)
(* process ends first, whichever tool fails and even if Prove panics.      *)
ProvingEnds ==
    \A r \in Requests :
        pc[r] = "write" ~> (answer[r] # "none" \/ phase = "exited")

(* A signal ends the process, also when a request hangs at its issuer.     *)
ShutdownEnds == phase = "draining" ~> phase = "exited"

-----------------------------------------------------------------------------
Working == {"execute", "mkdir", "prove", "read", "cleanup"}

(* A request at work has an id, no two the same one, and what lies under   *)
(* it is its own statement or broken; it is past nargo only if the key it  *)
(* fetched verifies its JWT.                                               *)
RequestOK(r) ==
    /\ pc[r] # "idle" => input[r] \in Inputs
    /\ pc[r] \in Working \cup {"write"} => modulus[r] \in Moduli
    /\ pc[r] \in Working => id[r] \in Ids
    /\ id[r] \in Ids =>
          /\ pc[r] \in Working \cup {"lost"}
          /\ input[r] \in Inputs /\ modulus[r] \in Moduli
          /\ \A k \in Kinds : files[k][id[r]] \in {Absent, Partial, Statement(r)}
    /\ pc[r] \in {"mkdir", "prove", "read"} => modulus[r] = input[r].jwt.signer
    /\ due[r] = "proof" => got[r] = Statement(r) /\ modulus[r] = input[r].jwt.signer
    /\ answer[r] = "200" => due[r] = "proof" /\ pc[r] = "done"
    /\ due[r] # "none" => pc[r] \in {"cleanup", "reply", "done", "lost"}

Isolated ==
    /\ \A r \in Requests : RequestOK(r)
    /\ \A q, r \in Requests : id[q] = id[r] /\ id[q] \in Ids => q = r

ProverInductive == ProverTypeOK /\ RepliesAreOwn /\ FilesAreInFlight /\ Isolated
=============================================================================

---------------------------- MODULE ProverProofs ----------------------------
(***************************************************************************)
(* For any number of concurrent requests, ids and keys: a proof handed out *)
(* is the request's own, and a file outlives its request only if it could  *)
(* not be removed.  Neither is inductive: a reply is right because the     *)
(* files under the request's id were written by nobody else, which needs   *)
(* Isolated: ids in use are distinct, and what lies under one is its       *)
(* owner's statement or broken.                                            *)
(***************************************************************************)
EXTENDS Prover, TLAPS

LEMMA AbsentIsNoId == Absent \notin Ids
BY ProverAssumption

(* Isolated alone says that every 200 is right.                            *)
LEMMA IsolatedReplies == Isolated => RepliesAreOwn
BY DEF Isolated, RequestOK, RepliesAreOwn

LEMMA ProverInitially == ProverInit => ProverInductive
<1> SUFFICES ASSUME ProverInit PROVE ProverInductive
  OBVIOUS
<1>1. files \in [Kinds -> [Ids -> Contents]]
  BY DEF ProverInit, NoFiles, Contents
<1>2. ProverTypeOK
  BY <1>1 DEF ProverInit, ProverTypeOK, Pcs, Dues, Statuses
<1>3. Isolated
  BY AbsentIsNoId DEF ProverInit, Isolated, RequestOK, Working
<1>4. FilesAreInFlight
  BY DEF ProverInit, FilesAreInFlight, NoFiles
<1> QED
  BY <1>2, <1>3, <1>4, IsolatedReplies DEF ProverInductive

LEMMA StatementType ==
    ASSUME NEW r \in Requests, input[r] \in Inputs, modulus[r] \in Moduli
    PROVE  Statement(r) \in Statements
BY DEF Statement, Statements

(* The locals of every request but r stay as they are.                     *)
OthersStay(r) ==
    \A q \in Requests \ {r} :
        /\ pc'[q] = pc[q] /\ input'[q] = input[q] /\ id'[q] = id[q]
        /\ modulus'[q] = modulus[q] /\ due'[q] = due[q]
        /\ got'[q] = got[q] /\ answer'[q] = answer[q]

(* A step of r that leaves ids and files alone.                            *)
LEMMA RequestMoves ==
    ASSUME ProverInductive, ProverTypeOK', NEW r \in Requests, OthersStay(r),
           UNCHANGED <<id, files, stuck>>, RequestOK(r)',
           id[r] \in Ids => pc'[r] # "done"
    PROVE  ProverInductive'
<1>1. ASSUME NEW q \in Requests, q # r PROVE RequestOK(q)'
  BY <1>1 DEF ProverInductive, Isolated, RequestOK, OthersStay, Statement
<1>2. Isolated'
  BY <1>1 DEF ProverInductive, Isolated
<1>3. FilesAreInFlight'
  BY DEF ProverInductive, FilesAreInFlight, OthersStay
<1> QED
  BY <1>2, <1>3, IsolatedReplies, PTL DEF ProverInductive

(* A step of r that writes files under n, its own id or a fresh one, and   *)
(* keeps the id or gives it up with the files gone.                        *)
LEMMA RequestWrites ==
    ASSUME ProverInductive, ProverTypeOK', NEW r \in Requests, OthersStay(r),
           NEW n \in Ids, id[r] \in {n, Absent},
           \A q \in Requests \ {r} : id[q] # n,
           \A k \in Kinds, m \in Ids \ {n} : files'[k][m] = files[k][m],
           \/ id'[r] = n /\ pc'[r] # "done"
           \/ /\ id'[r] = Absent
              /\ \A k \in Kinds : files'[k][n] = Absent \/ <<k, n>> \in stuck',
           stuck \subseteq stuck',
           RequestOK(r)'
    PROVE  ProverInductive'
<1>1. ASSUME NEW q \in Requests, q # r PROVE RequestOK(q)'
  <2>1. RequestOK(q) /\ id[q] # n /\ id'[q] = id[q]
    BY <1>1 DEF ProverInductive, Isolated, OthersStay
  <2>2. id[q] \in Ids => \A k \in Kinds : files'[k][id[q]] = files[k][id[q]]
    BY <2>1
  <2> QED
    BY <1>1, <2>1, <2>2 DEF RequestOK, OthersStay, Statement
<1>2. \A p, q \in Requests : id'[p] = id'[q] /\ id'[p] \in Ids => p = q
  BY AbsentIsNoId DEF ProverInductive, Isolated, OthersStay
<1>3. Isolated'
  BY <1>1, <1>2 DEF Isolated
<1>4. FilesAreInFlight'
  <2> SUFFICES ASSUME NEW k \in Kinds, NEW m \in Ids, files'[k][m] # Absent
               PROVE  \/ <<k, m>> \in stuck'
                      \/ \E q \in Requests : id'[q] = m /\ pc'[q] # "done"
    BY DEF FilesAreInFlight
  <2>1. CASE m = n \/ <<k, m>> \in stuck
    BY <2>1
  <2>2. CASE m # n /\ <<k, m>> \notin stuck
    <3>1. PICK q \in Requests : id[q] = m /\ pc[q] # "done"
      BY <2>2 DEF ProverInductive, FilesAreInFlight
    <3>2. q # r
      BY <2>2, <3>1, AbsentIsNoId
    <3> QED
      BY <3>1, <3>2 DEF OthersStay
  <2> QED
    BY <2>1, <2>2
<1> QED
  BY <1>3, <1>4, IsolatedReplies, PTL DEF ProverInductive

-----------------------------------------------------------------------------
(* One lemma per action of a request: its types, and what it leaves true   *)
(* of the request itself; the two lemmas above do the rest.                *)
LEMMA RefusalType == \A i \in Inputs : Refusal(i) \in Statuses \ {"200"}
BY DEF Refusal, RequireAPIKey, Statuses

LEMMA HandleStep ==
    ASSUME ProverInductive, NEW r \in Requests, NEW i \in Inputs, Handle(r, i)
    PROVE  ProverInductive'
<1>1. ProverTypeOK'
  BY RefusalType DEF ProverInductive, ProverTypeOK, Handle, Goto, Answer, process, Pcs
<1>2. OthersStay(r)
  BY DEF ProverInductive, ProverTypeOK, Handle, Goto, Answer, OthersStay
<1>3. RequestOK(r)' /\ ~(id[r] \in Ids)
  BY RefusalType DEF ProverInductive, ProverTypeOK, Isolated, RequestOK, Handle, Goto,
      Answer, Working
<1> QED
  BY <1>1, <1>2, <1>3, RequestMoves DEF Handle

LEMMA FetchStep ==
    ASSUME ProverInductive, NEW r \in Requests, FetchKey(r)
    PROVE  ProverInductive'
<1>0. pc[r] = "fetch" /\ input[r] \in Inputs
  BY DEF ProverInductive, Isolated, RequestOK, FetchKey, Running
<1>1. ProverTypeOK'
  BY <1>0 DEF ProverInductive, ProverTypeOK, FetchKey, Goto, Answer, process, Pcs, Statuses
<1>2. OthersStay(r)
  BY DEF ProverInductive, ProverTypeOK, FetchKey, Goto, Answer, OthersStay
<1>3. RequestOK(r)' /\ ~(id[r] \in Ids)
  BY <1>0 DEF ProverInductive, ProverTypeOK, Isolated, RequestOK, FetchKey, Goto,
      Answer, Working
<1> QED
  BY <1>1, <1>2, <1>3, RequestMoves DEF FetchKey

LEMMA WriteTomlStep ==
    ASSUME ProverInductive, NEW r \in Requests, WriteToml(r)
    PROVE  ProverInductive'
<1>1. PICK n \in FreshIds :
        /\ id' = [id EXCEPT ![r] = n]
        /\ \/ End(r, "panic") /\ UNCHANGED files
           \/ /\ Put("toml", n, Statement(r))
              /\ Goto(r, "execute") /\ UNCHANGED due
           \/ /\ UNCHANGED files \/ \E c \in {Absent, Partial} : Put("toml", n, c)
              /\ End(r, "error")
  BY DEF WriteToml
<1>2. /\ n \in Ids /\ pc[r] = "write"
      /\ input[r] \in Inputs /\ modulus[r] \in Moduli
      /\ id[r] = Absent
      /\ \A q \in Requests : id[q] # n
      /\ \A k \in Kinds : <<k, n>> \notin stuck
  BY <1>1 DEF FreshIds, ProverInductive, ProverTypeOK, Isolated, RequestOK, Working,
      WriteToml, Running
<1>3. \A k \in Kinds : files[k][n] = Absent
  BY <1>2 DEF ProverInductive, FilesAreInFlight
<1>4. /\ files' \in [Kinds -> [Ids -> Contents]]
      /\ \A k \in Kinds, m \in Ids \ {n} : files'[k][m] = files[k][m]
      /\ \A k \in Kinds : files'[k][n] \in {Absent, Partial, Statement(r)}
  BY <1>1, <1>2, <1>3, StatementType
     DEF ProverInductive, ProverTypeOK, Put, Contents, Kinds
<1>5. ProverTypeOK'
  BY <1>1, <1>2, <1>4 DEF ProverInductive, ProverTypeOK, WriteToml, Goto, End, process,
      Pcs, Dues
<1>6. OthersStay(r)
  BY <1>1 DEF ProverInductive, ProverTypeOK, WriteToml, Goto, End, OthersStay
<1>7. /\ id'[r] = n
      /\ \/ pc'[r] = "execute" /\ due'[r] = due[r]
         \/ pc'[r] = "cleanup" /\ due'[r] # "proof"
  BY <1>1 DEF ProverInductive, ProverTypeOK, Goto, End
<1>8. UNCHANGED <<input, modulus, got, answer>> /\ Statement(r)' = Statement(r)
  BY DEF WriteToml, Statement
<1>9. RequestOK(r)'
  BY <1>2, <1>4, <1>7, <1>8 DEF ProverInductive, Isolated, RequestOK, Working
<1> QED
  BY <1>2, <1>4, <1>5, <1>6, <1>7, <1>9, RequestWrites DEF WriteToml

(* A step of a request at work, which may rewrite its own files with its   *)
(* own statement or a broken one.                                          *)
LEMMA WorkStep ==
    ASSUME ProverInductive, NEW r \in Requests, pc[r] \in Working,
           ProverTypeOK', OthersStay(r), UNCHANGED <<input, id, modulus, stuck>>,
           \/ UNCHANGED files
           \/ \E k \in Kinds, c \in {Absent, Partial, Statement(r)} : Put(k, id[r], c),
           pc'[r] \in Working,
           pc'[r] \in {"mkdir", "prove", "read"} => modulus[r] = input[r].jwt.signer,
           due'[r] = "proof" => got'[r] = Statement(r) /\ modulus[r] = input[r].jwt.signer,
           due'[r] # "none" => pc'[r] = "cleanup",
           answer'[r] # "200"
    PROVE  ProverInductive'
<1>1. id[r] \in Ids /\ RequestOK(r)
  BY DEF ProverInductive, Isolated, RequestOK
<1>2. /\ \A k \in Kinds, m \in Ids \ {id[r]} : files'[k][m] = files[k][m]
      /\ \A k \in Kinds : files'[k][id[r]] \in {Absent, Partial, Statement(r)}
  <2>1. /\ files \in [Kinds -> [Ids -> Contents]]
        /\ \A k \in Kinds : files[k][id[r]] \in {Absent, Partial, Statement(r)}
    BY <1>1 DEF ProverInductive, ProverTypeOK, RequestOK
  <2>2. CASE UNCHANGED files
    BY <2>1, <2>2
  <2>3. ASSUME NEW k \in Kinds, NEW c \in {Absent, Partial, Statement(r)}, Put(k, id[r], c)
        PROVE  <1>2!1 /\ <1>2!2
    BY <1>1, <2>1, <2>3 DEF Put
  <2> QED
    BY <2>2, <2>3
<1>3. \A q \in Requests \ {r} : id[q] # id[r]
  BY <1>1 DEF ProverInductive, Isolated
<1>4. RequestOK(r)'
  BY <1>1, <1>2 DEF RequestOK, Working, Statement
<1>5. id'[r] = id[r] /\ pc'[r] # "done"
  BY DEF Working
<1> QED
  BY <1>1, <1>2, <1>3, <1>4, <1>5, RequestWrites

(* What is known of a request at work.                                     *)
LEMMA AtWork ==
    ASSUME ProverInductive, NEW r \in Requests, pc[r] \in Working
    PROVE  /\ id[r] \in Ids /\ Statement(r) \in Statements
           /\ \A k \in Kinds : files[k][id[r]] \in {Absent, Partial, Statement(r)}
           /\ answer[r] # "200"
           /\ pc[r] # "cleanup" => due[r] = "none"
           /\ pc[r] \in {"mkdir", "prove", "read"} => modulus[r] = input[r].jwt.signer
BY StatementType DEF ProverInductive, ProverTypeOK, Isolated, RequestOK, Working, Dues

LEMMA NargoStep ==
    ASSUME ProverInductive, NEW r \in Requests, NargoExecute(r)
    PROVE  ProverInductive'
<1>0. pc[r] = "execute" /\ pc[r] \in Working
  BY DEF NargoExecute, Running, Working
<1>1. \/ /\ files["toml"][id[r]] = Statement(r) /\ modulus[r] = input[r].jwt.signer
         /\ Put("witness", id[r], Statement(r))
         /\ Goto(r, "mkdir") /\ UNCHANGED due
      \/ /\ UNCHANGED files \/ \E c \in {Absent, Partial} : Put("witness", id[r], c)
         /\ End(r, "error")
  <2>1. files["toml"][id[r]] \in {Absent, Partial, Statement(r)}
    BY <1>0, AtWork DEF Kinds
  <2> QED
    BY <2>1 DEF NargoExecute, Statement
<1>2. files' \in [Kinds -> [Ids -> Contents]]
  BY <1>0, <1>1, AtWork DEF ProverInductive, ProverTypeOK, Put, Contents, Kinds
<1>3. ProverTypeOK'
  BY <1>1, <1>2 DEF ProverInductive, ProverTypeOK, NargoExecute, Goto, End, process, Pcs, Dues
<1>4. OthersStay(r)
  BY <1>1 DEF ProverInductive, ProverTypeOK, NargoExecute, Goto, End, OthersStay
<1>5. /\ pc'[r] \in Working /\ due'[r] # "proof"
      /\ pc'[r] \in {"mkdir", "prove", "read"} => modulus[r] = input[r].jwt.signer
      /\ due'[r] # "none" => pc'[r] = "cleanup"
  BY <1>0, <1>1, AtWork DEF ProverInductive, ProverTypeOK, Goto, End, Working
<1>6. UNCHANGED files \/ \E k \in Kinds, c \in {Absent, Partial, Statement(r)} : Put(k, id[r], c)
  BY <1>1 DEF Kinds
<1>7. UNCHANGED <<input, id, modulus, stuck>> /\ answer'[r] # "200"
  BY <1>0, AtWork DEF NargoExecute
<1> QED
  BY <1>0, <1>3, <1>4, <1>5, <1>6, <1>7, WorkStep

LEMMA MakeProofDirStep ==
    ASSUME ProverInductive, NEW r \in Requests, MakeProofDir(r)
    PROVE  ProverInductive'
<1>0. pc[r] = "mkdir" /\ pc[r] \in Working
  BY DEF MakeProofDir, Running, Working
<1>2. files' \in [Kinds -> [Ids -> Contents]]
  BY <1>0, AtWork DEF ProverInductive, ProverTypeOK, MakeProofDir, Put, Contents, Kinds
<1>3. ProverTypeOK'
  BY <1>2 DEF ProverInductive, ProverTypeOK, MakeProofDir, Goto, End, Pcs, Dues
<1>4. OthersStay(r)
  BY DEF ProverInductive, ProverTypeOK, MakeProofDir, Goto, End, OthersStay
<1>5. /\ pc'[r] \in Working /\ due'[r] # "proof"
      /\ pc'[r] \in {"mkdir", "prove", "read"} => modulus[r] = input[r].jwt.signer
      /\ due'[r] # "none" => pc'[r] = "cleanup"
  BY <1>0, AtWork DEF ProverInductive, ProverTypeOK, MakeProofDir, Goto, End, Working
<1>6. UNCHANGED files \/ \E k \in Kinds, c \in {Absent, Partial, Statement(r)} : Put(k, id[r], c)
  BY DEF MakeProofDir, Kinds
<1>7. UNCHANGED <<input, id, modulus, stuck>> /\ answer'[r] # "200"
  BY <1>0, AtWork DEF MakeProofDir
<1> QED
  BY <1>0, <1>3, <1>4, <1>5, <1>6, <1>7, WorkStep

LEMMA BbProveStep ==
    ASSUME ProverInductive, NEW r \in Requests, BbProve(r)
    PROVE  ProverInductive'
<1>0. pc[r] = "prove" /\ pc[r] \in Working
  BY DEF BbProve, Running, Working
<1>1. \/ Put("proof", id[r], Statement(r)) /\ Goto(r, "read") /\ UNCHANGED due
      \/ UNCHANGED files /\ End(r, "error")
  <2>1. files["witness"][id[r]] \in {Absent, Partial, Statement(r)}
    BY <1>0, AtWork DEF Kinds
  <2> QED
    BY <2>1 DEF BbProve
<1>2. files' \in [Kinds -> [Ids -> Contents]]
  BY <1>0, <1>1, AtWork DEF ProverInductive, ProverTypeOK, Put, Contents, Kinds
<1>3. ProverTypeOK'
  BY <1>1, <1>2 DEF ProverInductive, ProverTypeOK, BbProve, Goto, End, process, Pcs, Dues
<1>4. OthersStay(r)
  BY <1>1 DEF ProverInductive, ProverTypeOK, BbProve, Goto, End, OthersStay
<1>5. /\ pc'[r] \in Working /\ due'[r] # "proof"
      /\ pc'[r] \in {"mkdir", "prove", "read"} => modulus[r] = input[r].jwt.signer
      /\ due'[r] # "none" => pc'[r] = "cleanup"
  BY <1>0, <1>1, AtWork DEF ProverInductive, ProverTypeOK, Goto, End, Working
<1>6. UNCHANGED files \/ \E k \in Kinds, c \in {Absent, Partial, Statement(r)} : Put(k, id[r], c)
  BY <1>1 DEF Kinds
<1>7. UNCHANGED <<input, id, modulus, stuck>> /\ answer'[r] # "200"
  BY <1>0, AtWork DEF BbProve
<1> QED
  BY <1>0, <1>3, <1>4, <1>5, <1>6, <1>7, WorkStep

(* The proof that is read is the one its own bb wrote, or none.            *)
LEMMA ReadProofStep ==
    ASSUME ProverInductive, NEW r \in Requests, ReadProof(r)
    PROVE  ProverInductive'
<1>0. pc[r] = "read" /\ pc[r] \in Working
  BY DEF ReadProof, Running, Working
<1>1. \/ got' = [got EXCEPT ![r] = Statement(r)] /\ End(r, "proof")
      \/ UNCHANGED got /\ End(r, "error")
  <2>1. files["proof"][id[r]] \in {Absent, Partial, Statement(r)}
    BY <1>0, AtWork DEF Kinds
  <2> QED
    BY <2>1 DEF ReadProof
<1>2. /\ pc' = [pc EXCEPT ![r] = "cleanup"]
      /\ due' \in [Requests -> Dues]
      /\ got' \in [Requests -> Statements \cup {Absent}]
  BY <1>0, <1>1, AtWork, StatementType DEF ProverInductive, ProverTypeOK, Goto, End, Dues
<1>3. ProverTypeOK'
  BY <1>2 DEF ProverInductive, ProverTypeOK, ReadProof, process, Pcs
<1>4. OthersStay(r)
  BY <1>1 DEF ProverInductive, ProverTypeOK, ReadProof, Goto, End, OthersStay
<1>5. /\ pc'[r] = "cleanup" /\ pc'[r] \in Working
      /\ modulus[r] = input[r].jwt.signer
      /\ due'[r] = "proof" => got'[r] = Statement(r)
  BY <1>0, <1>1, AtWork DEF ProverInductive, ProverTypeOK, Goto, End, Working
<1>7. UNCHANGED <<input, id, modulus, files, stuck>> /\ answer'[r] # "200"
  BY <1>0, AtWork DEF ReadProof
<1> QED
  BY <1>0, <1>3, <1>4, <1>5, <1>7, WorkStep

LEMMA CleanupStep ==
    ASSUME ProverInductive, NEW r \in Requests, Cleanup(r)
    PROVE  ProverInductive'
<1>0. pc[r] = "cleanup" /\ pc[r] \in Working
  BY DEF Cleanup, Running, Working
<1>1. /\ id[r] \in Ids
      /\ \A q \in Requests \ {r} : id[q] # id[r]
  BY <1>0, AtWork DEF ProverInductive, Isolated
<1>2. /\ files' \in [Kinds -> [Ids -> Contents]]
      /\ \A k \in Kinds, m \in Ids \ {id[r]} : files'[k][m] = files[k][m]
      /\ stuck \subseteq stuck' /\ stuck' \subseteq Kinds \X Ids
      /\ \A k \in Kinds : files'[k][id[r]] = Absent \/ <<k, id[r]>> \in stuck'
  <2>1. PICK failed \in SUBSET Kinds :
          Remove(r, failed) /\ stuck' = stuck \cup {<<k, id[r]>> : k \in failed}
    BY DEF Cleanup
  <2> QED
    BY <1>1, <2>1 DEF ProverInductive, ProverTypeOK, Remove, Contents
<1>3. ProverTypeOK'
  BY <1>2 DEF ProverInductive, ProverTypeOK, Cleanup, Goto, process, Pcs
<1>4. OthersStay(r)
  BY DEF ProverInductive, ProverTypeOK, Cleanup, Goto, OthersStay
<1>5. id'[r] = Absent /\ pc'[r] = "reply" /\ Statement(r)' = Statement(r)
  BY DEF ProverInductive, ProverTypeOK, Cleanup, Goto, Statement
<1>6. RequestOK(r)'
  BY <1>0, <1>5, AbsentIsNoId DEF ProverInductive, Isolated, RequestOK, Cleanup, Working
<1> QED
  BY <1>1, <1>2, <1>3, <1>4, <1>5, <1>6, RequestWrites

LEMMA ReplyStep ==
    ASSUME ProverInductive, NEW r \in Requests, Respond(r) \/ Recover(r)
    PROVE  ProverInductive'
<1>1. ProverTypeOK'
  BY DEF ProverInductive, ProverTypeOK, Respond, Recover, Goto, Answer, process, locals,
      Pcs, Statuses
<1>2. OthersStay(r)
  BY DEF ProverInductive, ProverTypeOK, Respond, Recover, Goto, Answer, locals, OthersStay
<1>3. RequestOK(r)' /\ ~(id[r] \in Ids)
  BY DEF ProverInductive, ProverTypeOK, Isolated, RequestOK, Respond, Recover, Running, Goto,
      Answer, locals, Working, Statement
<1> QED
  BY <1>1, <1>2, <1>3, RequestMoves DEF Respond, Recover, locals

(* The steps of the process: no request's locals change, files may only    *)
(* go, and requests may be lost.                                           *)
LEMMA ProcessStep ==
    ASSUME ProverInductive,
           New \/ Signal \/ DrainAndClose \/ Exit
    PROVE  ProverInductive'
<1>1. /\ UNCHANGED <<input, id, modulus, due, got, answer, stuck>>
      /\ \A r \in Requests : pc'[r] = pc[r] \/ (InFlight(r) /\ pc'[r] = "lost")
  BY DEF New, Signal, DrainAndClose, Exit, Become, locals
<1>2. /\ files' \in [Kinds -> [Ids -> Contents]]
      /\ \A k \in Kinds, n \in Ids : files'[k][n] \in {Absent, files[k][n]}
  <2>1. CASE UNCHANGED files \/ files' = NoFiles
    BY <2>1 DEF ProverInductive, ProverTypeOK, NoFiles, Contents
  <2>2. ASSUME NEW left, files' = [k \in Kinds |-> [n \in Ids |->
                   IF <<k, n>> \in left THEN files[k][n] ELSE Absent]]
        PROVE  <1>2!1 /\ <1>2!2
    BY <2>2 DEF ProverInductive, ProverTypeOK, Contents
  <2> QED
    BY <2>1, <2>2 DEF New, Signal, DrainAndClose, Close, Exit
<1>3. dir' \in {"none", "partial", "ready"}
  BY DEF ProverInductive, ProverTypeOK, New, Signal, DrainAndClose, Close, Exit, process
<1>4. ProverTypeOK'
  <2>1. /\ phase' \in {"starting", "serving", "draining", "closing", "exited"}
        /\ enabled' \in BOOLEAN
    BY DEF ProverInductive, ProverTypeOK, New, Signal, DrainAndClose, Exit, Become, process
  <2>2. pc' \in [Requests -> Pcs]
    BY DEF ProverInductive, ProverTypeOK, New, Signal, DrainAndClose, Exit, Pcs
  <2> QED
    BY <1>1, <1>2, <1>3, <2>1, <2>2 DEF ProverInductive, ProverTypeOK
<1>5. ASSUME NEW r \in Requests PROVE RequestOK(r)'
  BY <1>1, <1>2 DEF ProverInductive, Isolated, RequestOK, InFlight, Working, Statement
<1>6. Isolated'
  BY <1>1, <1>5 DEF ProverInductive, Isolated
<1>7. FilesAreInFlight'
  BY <1>1, <1>2 DEF ProverInductive, FilesAreInFlight
<1> QED
  BY <1>4, <1>6, <1>7, IsolatedReplies, PTL DEF ProverInductive

LEMMA ProverStep == ProverInductive /\ [ProverNext]_proverVars => ProverInductive'
<1> SUFFICES ASSUME ProverInductive, [ProverNext]_proverVars PROVE ProverInductive'
  OBVIOUS
<1>1. CASE New \/ Signal \/ DrainAndClose \/ Exit
  BY <1>1, ProcessStep
<1>2. ASSUME NEW r \in Requests, NEW i \in Inputs, Handle(r, i) PROVE ProverInductive'
  BY <1>2, HandleStep
<1>3. ASSUME NEW r \in Requests, FetchKey(r) PROVE ProverInductive'
  BY <1>3, FetchStep
<1>4. ASSUME NEW r \in Requests, Local(r) PROVE ProverInductive'
  BY <1>4, WriteTomlStep, NargoStep, MakeProofDirStep, BbProveStep, ReadProofStep,
     CleanupStep, ReplyStep DEF Local
<1>5. CASE UNCHANGED proverVars
  BY <1>5 DEF proverVars, process, locals, ProverInductive, ProverTypeOK, RepliesAreOwn,
      FilesAreInFlight, Isolated, RequestOK, Statement
<1> QED
  BY <1>1, <1>2, <1>3, <1>4, <1>5 DEF ProverNext

LEMMA ProverInductiveHolds == ProverSpec => []ProverInductive
BY ProverInitially, ProverStep, PTL DEF ProverSpec

(* Types of the prover's state, for any number of requests.                *)
THEOREM ProverTypes == ProverSpec => []ProverTypeOK
BY ProverInductiveHolds, PTL DEF ProverInductive

(* Every 200 of /v1/prove carries the proof of the request's own JWT and   *)
(* session key under a modulus that verifies it, whatever runs beside it.  *)
THEOREM ProofsAreOwn == ProverSpec => []RepliesAreOwn
BY ProverInductiveHolds, PTL DEF ProverInductive

(* cleanupRequest leaves nothing of an answered request in the directory,  *)
(* after a proof, an error of any tool, or a panic, but what the file      *)
(* system refuses to remove.                                               *)
THEOREM NothingIsLeft == ProverSpec => []FilesAreInFlight
BY ProverInductiveHolds, PTL DEF ProverInductive
=============================================================================

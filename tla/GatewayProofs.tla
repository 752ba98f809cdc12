--------------------------- MODULE GatewayProofs ----------------------------
(***************************************************************************)
(* Theorems about what the panel does to the services in front of the      *)
(* host, for every set of requests, names, identifiers, destinations and   *)
(* ports. A listed certificate has its chain and its key; a lone request   *)
(* about a tunnel that is answered ok, and a lone apply of OpenVPN, have   *)
(* done all of it; no two forwards of a client configuration have one      *)
(* local port; and every part is well typed.                               *)
(*                                                                         *)
(* The proofs about OpenVPN and the tunnels go step by step through the    *)
(* commands of a request: what the documents, files and accounts are when  *)
(* it is at a command, if nothing has run beside it.                       *)
(***************************************************************************)
EXTENDS MCGateway, NginxEdgeProofs, FiniteSetTheorems, WellFoundedInduction, TLAPS

Writing == {"upload", "import"}
Holding == {"key", "meta", "source"}

\* Which request is at which step.
StageInv(t) ==
    /\ t.at \in {"certbot", "read chain", "read key", "source"} => t.op = "import"
    /\ t.at = "pfx" => t.op = "upload"
    /\ t.at \in {"verify", "chain", "key"} => t.op \in Writing
    /\ t.at = "csr" => t.op = "csr"
    /\ t.at = "meta" => t.op \in Writing \cup {"csr"}
    /\ t.at \in {"rm files", "rm meta"} => t.op = "delete"
    /\ t.at \in Holding \cup {"rm files", "rm meta"} => t.id \in CertId

\* What it has in hand was verified before anything was written.
PairInv(t) ==
    /\ t.at \in {"read key", "verify", "chain"} => t.pair.chain # 0
    /\ t.at \in {"chain"} \cup Holding /\ t.op \in Writing
          => t.pair.chain # 0 /\ t.pair.chain = t.pair.key

\* What it has written so far, unless somebody began to delete it.
WrittenInv(t) ==
    /\ t.at \in {"rm files", "rm meta"} => t.id \in doomed
    /\ t.at = "key" /\ t.id \notin doomed
          => document[t.id] = "none" /\ store[t.id].chain = t.pair.chain
    /\ t.at \in {"meta", "source"} /\ t.op \in Writing /\ t.id \notin doomed
          => store[t.id] = t.pair

\* No two requests write one certificate.
ApartInv ==
    \A g, h \in Caller :
        certTask[g].at \in Holding /\ certTask[h].at \in Holding /\ certTask[g].id = certTask[h].id
            => g = h

CertInv ==
    /\ Certs!TypeOK
    /\ \A h \in Caller : StageInv(certTask[h]) /\ PairInv(certTask[h]) /\ WrittenInv(certTask[h])
    /\ ApartInv
    /\ ListedServes

-----------------------------------------------------------------------------
CertRequest ==
    [at : {"idle", "pfx", "certbot", "read chain", "read key", "verify", "chain", "key", "meta",
           "source", "csr", "rm files", "rm meta"},
     op : {"none", "upload", "import", "csr", "delete"}, id : CertId \cup {None},
     pair : Certs!Pair]

LEMMA CertTypes ==
    /\ Certs!Empty \in Certs!Pair
    /\ Certs!Idle \in CertRequest /\ Certs!Idle.at = "idle"
BY VersionAssumption DEF Certs!Empty, Certs!Pair, Certs!Idle, CertRequest

\* A step of the request h that leaves the certificates of the others alone.
Moves(h) ==
    /\ \A g \in Caller \ {h} :
          /\ certTask'[g] = certTask[g]
          /\ certTask[g].at \in Holding /\ certTask[g].id \notin doomed'
                => /\ store'[certTask[g].id] = store[certTask[g].id]
                   /\ document'[certTask[g].id] = document[certTask[g].id]
    /\ doomed \subseteq doomed'

\* What is left to show of such a step.
LEMMA MoveKeeps ==
    ASSUME CertInv, NEW h \in Caller, Moves(h), Certs!TypeOK',
           StageInv(certTask'[h]), PairInv(certTask'[h]), WrittenInv(certTask[h])',
           certTask'[h].at \in Holding =>
               \/ certTask[h].at \in Holding /\ certTask'[h].id = certTask[h].id
               \/ \A g \in Caller : certTask[g].id # certTask'[h].id,
           ListedServes'
    PROVE  CertInv'
<1>1. ASSUME NEW g \in Caller
      PROVE  StageInv(certTask'[g]) /\ PairInv(certTask'[g]) /\ WrittenInv(certTask[g])'
  <2>1. CASE g = h
    BY <2>1
  <2>2. CASE g # h
    <3>1. certTask'[g] = certTask[g] /\ doomed \subseteq doomed'
      BY <2>2 DEF Moves
    <3>2. StageInv(certTask[g]) /\ PairInv(certTask[g]) /\ WrittenInv(certTask[g])
      BY DEF CertInv
    <3>3. certTask[g].at \in Holding /\ certTask[g].id \notin doomed'
             => store'[certTask[g].id] = store[certTask[g].id]
                /\ document'[certTask[g].id] = document[certTask[g].id]
      BY <2>2 DEF Moves
    <3>4. WrittenInv(certTask[g])'
      BY <3>1, <3>2, <3>3 DEF WrittenInv, Holding
    <3> QED BY <3>1, <3>2, <3>4
  <2> QED BY <2>1, <2>2
<1>2. ApartInv'
  BY DEF CertInv, ApartInv, Moves
<1> QED BY <1>1, <1>2 DEF CertInv, StageInv, PairInv

\* A request that changes no file.
LEMMA QuietMove ==
    ASSUME CertInv, NEW h \in Caller, NEW t \in CertRequest,
           certTask' = [certTask EXCEPT ![h] = t],
           UNCHANGED <<live, store, document, used>>,
           doomed \subseteq doomed', doomed' \subseteq CertId,
           StageInv(t), PairInv(t), t.at \notin Holding,
           t.at \in {"rm files", "rm meta"} => t.id \in doomed'
    PROVE  CertInv'
<1>1. Moves(h) /\ certTask'[h] = t
  BY DEF Moves, CertInv, Certs!TypeOK
<1>2. Certs!TypeOK'
  BY DEF CertInv, Certs!TypeOK, CertRequest
<1>3. WrittenInv(certTask[h])'
  BY <1>1 DEF WrittenInv, Holding
<1>4. ListedServes'
  BY DEF CertInv, ListedServes, Certs!ListedServes
<1> QED BY <1>1, <1>2, <1>3, <1>4, MoveKeeps

LEMMA CertStart ==
    ASSUME CertInv, NEW h \in Caller,
           \/ \E c, k \in Certs!Pem : Certs!Upload(h, c, k)
           \/ \E i \in CertId : Certs!DeleteCertificate(h, i)
           \/ Certs!ImportPfx(h) \/ Certs!AcmeIssue(h) \/ Certs!GenerateCsr(h)
    PROVE  CertInv'
<1> USE DEF Certs!Starts, Certs!Idle, StageInv, PairInv, Writing, Holding
<1>1. ASSUME NEW c \in Certs!Pem, NEW k \in Certs!Pem, Certs!Upload(h, c, k) PROVE CertInv'
  <2> DEFINE t == [Certs!Idle EXCEPT !.at = "verify", !.op = "upload",
                                    !.pair = [chain |-> c, key |-> k]]
  <2>0. [chain |-> c, key |-> k] \in Certs!Pair /\ c # 0
    BY VersionAssumption DEF Certs!Pair, Certs!Pem
  <2>1. t \in CertRequest /\ t.pair.chain # 0
    BY <2>0, CertTypes DEF CertRequest
  <2>2. certTask' = [certTask EXCEPT ![h] = t]
    BY <1>1 DEF Certs!Upload
  <2>3. doomed' \subseteq CertId
    BY <1>1 DEF Certs!Upload, CertInv, Certs!TypeOK
  <2> QED BY <1>1, <2>1, <2>2, <2>3, QuietMove DEF Certs!Upload
<1>2. ASSUME NEW i \in CertId, Certs!DeleteCertificate(h, i) PROVE CertInv'
  <2> DEFINE t == [Certs!Idle EXCEPT !.at = "rm files", !.op = "delete", !.id = i]
  <2>1. t \in CertRequest
    BY CertTypes DEF CertRequest
  <2>2. certTask' = [certTask EXCEPT ![h] = t] /\ doomed' = doomed \cup {i}
    BY <1>2 DEF Certs!DeleteCertificate
  <2>3. doomed' \subseteq CertId
    BY <2>2 DEF CertInv, Certs!TypeOK
  <2> QED BY <1>2, <2>1, <2>2, <2>3, QuietMove DEF Certs!DeleteCertificate
<1>3. CASE Certs!AcmeIssue(h)
  <2> DEFINE t == [Certs!Idle EXCEPT !.at = "certbot", !.op = "import"]
  <2>1. t \in CertRequest /\ StageInv(t) /\ PairInv(t) /\ t.at = "certbot"
    BY CertTypes DEF CertRequest
  <2>2. /\ UNCHANGED <<live, store, document, used, doomed>> /\ doomed' \subseteq CertId
        /\ certTask' = [certTask EXCEPT ![h] = t]
    BY <1>3 DEF Certs!AcmeIssue, CertInv, Certs!TypeOK
  <2> HIDE DEF t
  <2> QED BY <2>1, <2>2, QuietMove
<1>4. CASE Certs!GenerateCsr(h)
  <2> DEFINE t == [Certs!Idle EXCEPT !.at = "csr", !.op = "csr"]
  <2>1. t \in CertRequest /\ StageInv(t) /\ PairInv(t) /\ t.at = "csr"
    BY CertTypes DEF CertRequest
  <2>2. /\ UNCHANGED <<live, store, document, used, doomed>> /\ doomed' \subseteq CertId
        /\ certTask' = [certTask EXCEPT ![h] = t]
    BY <1>4 DEF Certs!GenerateCsr, CertInv, Certs!TypeOK
  <2> HIDE DEF t
  <2> QED BY <2>1, <2>2, QuietMove
<1>5. CASE Certs!ImportPfx(h)
  <2> DEFINE t == [Certs!Idle EXCEPT !.at = "pfx", !.op = "upload"]
  <2>1. t \in CertRequest /\ StageInv(t) /\ PairInv(t) /\ t.at = "pfx"
    BY CertTypes DEF CertRequest
  <2>2. /\ UNCHANGED <<live, store, document, used, doomed>> /\ doomed' \subseteq CertId
        /\ certTask' = [certTask EXCEPT ![h] = t]
    BY <1>5 DEF Certs!ImportPfx, CertInv, Certs!TypeOK
  <2> HIDE DEF t
  <2> QED BY <2>1, <2>2, QuietMove
<1> QED BY <1>1, <1>2, <1>3, <1>4, <1>5

\* The steps that read, verify, fail.
LEMMA CertRead ==
    ASSUME CertInv, NEW h \in Caller,
           \/ Certs!ReadPfx(h) \/ Certs!CertbotDone(h) \/ Certs!ReadChain(h) \/ Certs!ReadKey(h)
           \/ Certs!VerifyCertKey(h) \/ Certs!Fails(h)
    PROVE  CertInv'
<1> DEFINE t == certTask[h]
<1>0. /\ UNCHANGED <<live, store, document, used, doomed>> /\ doomed' \subseteq CertId
      /\ t \in CertRequest /\ live \in Certs!Pair
      /\ StageInv(t) /\ PairInv(t)
  BY DEF Certs!ReadPfx, Certs!CertbotDone, Certs!ReadChain, Certs!ReadKey, Certs!VerifyCertKey, Certs!Fails,
         CertInv, Certs!TypeOK, CertRequest
<1>1. CASE Certs!Ends(h)
  <2>1. certTask' = [certTask EXCEPT ![h] = Certs!Idle]
    BY <1>1 DEF Certs!Ends
  <2>2. StageInv(Certs!Idle) /\ PairInv(Certs!Idle) /\ Certs!Idle.at \notin Holding
    BY CertTypes DEF StageInv, PairInv, Holding
  <2> QED BY <1>0, <2>1, <2>2, CertTypes, QuietMove
<1>2. CASE Certs!CertbotDone(h)
  <2> DEFINE n == [t EXCEPT !.at = "read chain"]
  <2>1. certTask' = [certTask EXCEPT ![h] = n]
    BY <1>2 DEF Certs!CertbotDone, Certs!Goes
  <2>2. n \in CertRequest /\ StageInv(n) /\ PairInv(n) /\ n.at = "read chain"
    BY <1>0, <1>2 DEF Certs!CertbotDone, CertRequest, StageInv, PairInv, Holding, Writing
  <2> QED BY <1>0, <2>1, <2>2, QuietMove DEF Holding
<1>3. CASE Certs!ReadChain(h)
  <2> DEFINE n == [t EXCEPT !.at = "read key", !.pair.chain = live.chain]
  <2>1. certTask' = [certTask EXCEPT ![h] = n]
    BY <1>3 DEF Certs!ReadChain, CertInv, Certs!TypeOK
  <2>2. n \in CertRequest /\ StageInv(n) /\ PairInv(n) /\ n.at = "read key"
    BY <1>0, <1>3 DEF Certs!ReadChain, CertRequest, StageInv, PairInv, Holding, Writing, Certs!Pair
  <2> QED BY <1>0, <2>1, <2>2, QuietMove DEF Holding
<1>4. CASE Certs!ReadKey(h)
  <2> DEFINE n == [t EXCEPT !.at = "verify", !.pair.key = live.key]
  <2>1. certTask' = [certTask EXCEPT ![h] = n]
    BY <1>4 DEF Certs!ReadKey, CertInv, Certs!TypeOK
  <2>2. n \in CertRequest /\ StageInv(n) /\ PairInv(n) /\ n.at = "verify"
    BY <1>0, <1>4 DEF Certs!ReadKey, CertRequest, StageInv, PairInv, Holding, Writing, Certs!Pair
  <2> QED BY <1>0, <2>1, <2>2, QuietMove DEF Holding
<1>5. CASE Certs!VerifyCertKey(h) /\ ~Certs!Ends(h)
  <2> DEFINE n == [t EXCEPT !.at = "chain"]
  <2>1. certTask' = [certTask EXCEPT ![h] = n] /\ t.pair.chain = t.pair.key /\ t.at = "verify"
    BY <1>5 DEF Certs!VerifyCertKey, Certs!Goes, Certs!Match
  <2>2. n \in CertRequest /\ StageInv(n) /\ PairInv(n) /\ n.at = "chain"
    BY <1>0, <2>1 DEF CertRequest, StageInv, PairInv, Holding, Writing
  <2> QED BY <1>0, <2>1, <2>2, QuietMove DEF Holding
<1>6. CASE Certs!ReadPfx(h)
  <2>1. PICK c, k \in Certs!Pem :
           certTask' = [certTask EXCEPT ![h].at = "verify", ![h].pair = [chain |-> c, key |-> k]]
    BY <1>6 DEF Certs!ReadPfx
  <2>2. [chain |-> c, key |-> k] \in Certs!Pair /\ c # 0
    BY VersionAssumption DEF Certs!Pair, Certs!Pem
  <2> DEFINE n == [t EXCEPT !.at = "verify", !.pair = [chain |-> c, key |-> k]]
  <2>3. certTask' = [certTask EXCEPT ![h] = n]
    BY <2>1 DEF CertInv, Certs!TypeOK
  <2>4. n \in CertRequest /\ StageInv(n) /\ PairInv(n) /\ n.at = "verify"
    BY <1>0, <1>6, <2>2 DEF Certs!ReadPfx, CertRequest, StageInv, PairInv, Holding, Writing
  <2> QED BY <1>0, <2>3, <2>4, QuietMove DEF Holding
<1> QED BY <1>1, <1>2, <1>3, <1>4, <1>5, <1>6 DEF Certs!Fails

-----------------------------------------------------------------------------
\* What a write by the request h leaves alone: the certificates of the others.
LEMMA OthersApart ==
    ASSUME CertInv, NEW h \in Caller, certTask[h].at \in Holding
    PROVE  \A g \in Caller \ {h} : certTask[g].at \in Holding
               => certTask[g].id \in CertId /\ certTask[g].id # certTask[h].id
BY DEF CertInv, ApartInv, StageInv

\* The first file of a certificate: nobody has its identifier.
LEMMA CertFirst ==
    ASSUME CertInv, NEW h \in Caller, Certs!WriteChain(h) \/ Certs!WriteCsr(h)
    PROVE  CertInv'
<1> DEFINE t == certTask[h]
<1>0. /\ UNCHANGED <<live, document, used, doomed>>
      /\ t \in CertRequest /\ StageInv(t) /\ PairInv(t)
      /\ store \in [CertId -> Certs!Pair] /\ certTask \in [Caller -> CertRequest]
  BY DEF Certs!WriteChain, Certs!WriteCsr, CertInv, Certs!TypeOK, CertRequest
<1>1. ASSUME NEW i \in CertId, Certs!Fresh(i), NEW p \in Certs!Pair, NEW n \in CertRequest,
             store' = [store EXCEPT ![i] = p], certTask' = [certTask EXCEPT ![h] = n],
             n.at \in {"key", "meta"}, n.id = i, StageInv(n), PairInv(n),
             n.at = "key" => p.chain = n.pair.chain,
             n.at = "meta" => n.op = "csr"
      PROVE  CertInv'
  <2>1. document[i] = "none" /\ \A g \in Caller : certTask[g].id # i
    BY <1>1 DEF Certs!Fresh
  <2>2. certTask'[h] = n /\ store'[i] = p /\ n.at # "source" /\ n.at \in Holding
    BY <1>0, <1>1 DEF Holding
  <2>3. Moves(h)
    BY <1>0, <1>1, <2>1 DEF Moves
  <2>4. Certs!TypeOK'
    BY <1>0, <1>1 DEF CertInv, Certs!TypeOK, CertRequest
  <2>5. WrittenInv(certTask[h])'
    BY <1>0, <1>1, <2>1, <2>2 DEF WrittenInv, Holding, Writing
  <2>6. ListedServes'
    BY <1>0, <1>1, <2>1 DEF CertInv, ListedServes, Certs!ListedServes
  <2> QED BY <1>1, <2>1, <2>2, <2>3, <2>4, <2>5, <2>6, MoveKeeps
<1>2. CASE Certs!WriteChain(h)
  <2>1. PICK i \in CertId :
            /\ Certs!Fresh(i) /\ t.at = "chain"
            /\ store' = [store EXCEPT ![i].chain = t.pair.chain]
            /\ certTask' = [certTask EXCEPT ![h].at = "key", ![h].id = i]
    BY <1>2 DEF Certs!WriteChain
  <2> DEFINE n == [t EXCEPT !.at = "key", !.id = i]
             p == [store[i] EXCEPT !.chain = t.pair.chain]
  <2>2. certTask' = [certTask EXCEPT ![h] = n] /\ store' = [store EXCEPT ![i] = p]
    BY <1>0, <2>1
  <2>3. n \in CertRequest /\ p \in Certs!Pair /\ p.chain = n.pair.chain
    BY <1>0 DEF CertRequest, Certs!Pair
  <2>4. n.at = "key" /\ n.id = i /\ StageInv(n) /\ PairInv(n)
    BY <1>0, <2>1 DEF CertRequest, StageInv, PairInv, Holding, Writing
  <2> HIDE DEF n, p
  <2> QED BY <1>1, <2>1, <2>2, <2>3, <2>4
<1>3. CASE Certs!WriteCsr(h)
  <2>1. PICK i \in CertId, k \in {0} \cup Certs!Pem :
            /\ Certs!Fresh(i) /\ t.at = "csr"
            /\ store' = [store EXCEPT ![i].key = k]
            /\ certTask' = [certTask EXCEPT ![h].at = "meta", ![h].id = i]
    BY <1>3 DEF Certs!WriteCsr
  <2> DEFINE n == [t EXCEPT !.at = "meta", !.id = i]
             p == [store[i] EXCEPT !.key = k]
  <2>2. certTask' = [certTask EXCEPT ![h] = n] /\ store' = [store EXCEPT ![i] = p]
    BY <1>0, <2>1
  <2>3. n \in CertRequest /\ p \in Certs!Pair
    <3>1. k \in 0..MaxVersion
      BY VersionAssumption DEF Certs!Pem
    <3> QED BY <1>0, <3>1 DEF CertRequest, Certs!Pair
  <2>4. n.at = "meta" /\ n.op = "csr" /\ n.id = i /\ StageInv(n) /\ PairInv(n)
    BY <1>0, <2>1 DEF CertRequest, StageInv, PairInv, Holding, Writing
  <2> HIDE DEF n, p
  <2> QED BY <1>1, <2>1, <2>2, <2>3, <2>4
<1> QED BY <1>2, <1>3

\* The key, next to the chain it was verified against.
LEMMA CertKey ==
    ASSUME CertInv, NEW h \in Caller, Certs!WriteKey(h)
    PROVE  CertInv'
<1> DEFINE t == certTask[h]
           n == [t EXCEPT !.at = "meta"]
           p == [store[t.id] EXCEPT !.key = t.pair.key]
<1>1. /\ UNCHANGED <<live, document, used, doomed>> /\ t.at = "key"
      /\ t \in CertRequest /\ StageInv(t) /\ PairInv(t) /\ WrittenInv(t)
      /\ store \in [CertId -> Certs!Pair] /\ certTask \in [Caller -> CertRequest]
  BY DEF Certs!WriteKey, CertInv, Certs!TypeOK, CertRequest
<1>2. t.id \in CertId /\ t.op \in Writing
  BY <1>1 DEF StageInv, Holding
<1>3. /\ certTask' = [certTask EXCEPT ![h] = n] /\ store' = [store EXCEPT ![t.id] = p]
      /\ certTask'[h] = n /\ store'[t.id] = p
  BY <1>1, <1>2 DEF Certs!WriteKey, Certs!Goes
<1>4. /\ n \in CertRequest /\ p \in Certs!Pair /\ StageInv(n) /\ PairInv(n)
      /\ n.at = "meta" /\ n.id = t.id /\ n.pair = t.pair
  BY <1>1, <1>2 DEF CertRequest, Certs!Pair, StageInv, PairInv, Holding, Writing
<1>5. t.id \notin doomed => document[t.id] = "none" /\ p = t.pair
  <2>1. t.id \notin doomed => document[t.id] = "none" /\ store[t.id].chain = t.pair.chain
    BY <1>1 DEF WrittenInv
  <2>2. t.pair \in Certs!Pair /\ store[t.id] \in Certs!Pair
    BY <1>1, <1>2 DEF CertRequest
  <2> QED BY <2>1, <2>2 DEF Certs!Pair
<1> HIDE DEF n, p
<1>6. Moves(h)
  <2>1. \A g \in Caller \ {h} : certTask[g].at \in Holding
            => certTask[g].id \in CertId /\ certTask[g].id # t.id
    BY <1>1, OthersApart DEF Holding
  <2> QED BY <1>1, <1>2, <1>3, <2>1 DEF Moves
<1>7. Certs!TypeOK'
  BY <1>1, <1>2, <1>3, <1>4 DEF CertInv, Certs!TypeOK, CertRequest
<1>8. WrittenInv(certTask[h])'
  BY <1>1, <1>3, <1>4, <1>5 DEF WrittenInv
<1>9. ListedServes'
  BY <1>1, <1>2, <1>3, <1>5 DEF CertInv, ListedServes, Certs!ListedServes
<1> QED BY <1>1, <1>3, <1>4, <1>6, <1>7, <1>8, <1>9, MoveKeeps DEF Holding

\* The document of what was written, and its source.
LEMMA CertDocument ==
    ASSUME CertInv, NEW h \in Caller, Certs!WriteMeta(h) \/ Certs!WriteSource(h)
    PROVE  CertInv'
<1> DEFINE t == certTask[h]
<1>1. /\ UNCHANGED <<live, store, used, doomed>> /\ t.at \in {"meta", "source"}
      /\ t \in CertRequest /\ StageInv(t) /\ PairInv(t) /\ WrittenInv(t)
      /\ certTask \in [Caller -> CertRequest]
      /\ document \in [CertId -> {"none", "upload", "csr", "letsencrypt", "nameless"}]
  BY DEF Certs!WriteMeta, Certs!WriteSource, CertInv, Certs!TypeOK, CertRequest
<1>2. t.id \in CertId
  BY <1>1 DEF StageInv, Holding
<1>3. PICK d \in {"none", "upload", "csr", "letsencrypt", "nameless"} :
          /\ document' = [document EXCEPT ![t.id] = d]
          /\ d \in {"upload", "letsencrypt"} => d = document[t.id] \/ t.op \in Writing
  <2>1. CASE Certs!WriteMeta(h)
    <3>1. PICK done \in BOOLEAN :
              document' = IF ~done THEN document
                          ELSE [document EXCEPT ![t.id] = IF t.op = "csr" THEN "csr" ELSE "upload"]
      BY <2>1 DEF Certs!WriteMeta
    <3>2. t.op = "csr" \/ t.op \in Writing
      BY <2>1, <1>1 DEF Certs!WriteMeta, StageInv
    <3>3. CASE ~done
      <4>1. document' = [document EXCEPT ![t.id] = document[t.id]]
        BY <1>1, <3>1, <3>3
      <4> QED BY <1>1, <1>2, <4>1
    <3>4. CASE done
      <4>1. CASE t.op = "csr"
        BY <1>1, <1>2, <3>1, <3>4, <4>1
      <4>2. CASE t.op # "csr"
        BY <1>1, <1>2, <3>1, <3>2, <3>4, <4>2
      <4> QED BY <4>1, <4>2
    <3> QED BY <3>3, <3>4
  <2>2. CASE Certs!WriteSource(h)
    <3>1. PICK done \in BOOLEAN :
              document' = IF ~done THEN document
                          ELSE [document EXCEPT ![t.id] = IF @ \in {"none", "nameless"}
                                                          THEN "nameless" ELSE "letsencrypt"]
      BY <2>2 DEF Certs!WriteSource
    <3>2. t.op \in Writing
      BY <2>2, <1>1 DEF Certs!WriteSource, StageInv, Writing
    <3>3. CASE ~done
      <4>1. document' = [document EXCEPT ![t.id] = document[t.id]]
        BY <1>1, <3>1, <3>3
      <4> QED BY <1>1, <1>2, <4>1
    <3>4. CASE done
      <4>1. CASE document[t.id] \in {"none", "nameless"}
        BY <1>1, <1>2, <3>1, <3>4, <4>1
      <4>2. CASE document[t.id] \notin {"none", "nameless"}
        BY <1>1, <1>2, <3>1, <3>2, <3>4, <4>2
      <4> QED BY <4>1, <4>2
    <3> QED BY <3>3, <3>4
  <2> QED BY <2>1, <2>2
<1>4. PICK n \in CertRequest :
          /\ certTask' = [certTask EXCEPT ![h] = n]
          /\ \/ n = Certs!Idle
             \/ n.at = "source" /\ n.op = "import" /\ t.op = "import" /\ n.id = t.id /\ n.pair = t.pair
  <2>1. CASE Certs!Ends(h)
    <3>1. certTask' = [certTask EXCEPT ![h] = Certs!Idle]
      BY <2>1 DEF Certs!Ends
    <3> QED BY <3>1, CertTypes
  <2>2. CASE t.op = "import" /\ Certs!Goes(h, "source")
    <3> DEFINE m == [t EXCEPT !.at = "source"]
    <3>1. m \in CertRequest /\ m.at = "source" /\ m.op = "import" /\ m.id = t.id /\ m.pair = t.pair
      BY <1>1, <2>2 DEF CertRequest
    <3>2. certTask' = [certTask EXCEPT ![h] = m]
      BY <2>2 DEF Certs!Goes
    <3> HIDE DEF m
    <3> QED BY <2>2, <3>1, <3>2
  <2> QED BY <2>1, <2>2 DEF Certs!WriteMeta, Certs!WriteSource
<1>5. certTask'[h] = n
  BY <1>1, <1>4
<1>6. Moves(h)
  <2>1. \A g \in Caller \ {h} : certTask[g].at \in Holding
            => certTask[g].id \in CertId /\ certTask[g].id # t.id
    BY <1>1, OthersApart DEF Holding
  <2> QED BY <1>1, <1>2, <1>3, <1>4, <2>1 DEF Moves
<1>7. Certs!TypeOK'
  BY <1>1, <1>2, <1>3, <1>4 DEF CertInv, Certs!TypeOK, CertRequest
<1>8. StageInv(n) /\ PairInv(n)
  BY <1>1, <1>2, <1>4, CertTypes DEF StageInv, PairInv, Holding, Writing
<1>9. WrittenInv(certTask[h])'
  BY <1>1, <1>4, <1>5, CertTypes DEF WrittenInv, Holding, Writing
<1>10. ListedServes'
  <2> SUFFICES ASSUME NEW i \in CertId \ doomed', document'[i] \in {"upload", "letsencrypt"}
               PROVE  store'[i].chain # 0 /\ store'[i].chain = store'[i].key
    BY DEF ListedServes, Certs!ListedServes
  <2>1. CASE document[i] \in {"upload", "letsencrypt"}
    BY <1>1, <2>1 DEF CertInv, ListedServes, Certs!ListedServes
  <2>2. CASE document[i] \notin {"upload", "letsencrypt"}
    <3>1. i = t.id /\ t.op \in Writing
      BY <1>1, <1>2, <1>3, <2>2
    <3> QED BY <1>1, <3>1 DEF WrittenInv, PairInv, Holding
  <2> QED BY <2>1, <2>2
<1>11. n.at \in Holding => t.at \in Holding /\ n.id = t.id
  BY <1>1, <1>4, CertTypes DEF Holding
<1> QED BY <1>5, <1>6, <1>7, <1>8, <1>9, <1>10, <1>11, MoveKeeps

\* The two removals.
LEMMA CertRemoval ==
    ASSUME CertInv, NEW h \in Caller, Certs!RemoveFiles(h) \/ Certs!RemoveMeta(h)
    PROVE  CertInv'
<1> DEFINE t == certTask[h]
<1>1. /\ UNCHANGED <<live, used, doomed>> /\ t.at \in {"rm files", "rm meta"}
      /\ t \in CertRequest /\ StageInv(t) /\ PairInv(t) /\ WrittenInv(t)
      /\ certTask \in [Caller -> CertRequest]
  BY DEF Certs!RemoveFiles, Certs!RemoveMeta, CertInv, Certs!TypeOK, CertRequest
<1>2. t.id \in doomed /\ t.id \in CertId /\ t.op = "delete"
  BY <1>1 DEF StageInv, WrittenInv
<1>3. /\ \A i \in CertId \ {t.id} : store'[i] = store[i] /\ document'[i] = document[i]
      /\ store' \in [CertId -> Certs!Pair]
      /\ document' \in [CertId -> {"none", "upload", "csr", "letsencrypt", "nameless"}]
  BY <1>2, CertTypes DEF Certs!RemoveFiles, Certs!RemoveMeta, CertInv, Certs!TypeOK
<1>4. PICK n \in CertRequest :
          /\ certTask' = [certTask EXCEPT ![h] = n]
          /\ StageInv(n) /\ PairInv(n) /\ n.at \notin Holding
          /\ n.at \in {"rm files", "rm meta"} => n.id = t.id
  <2>1. CASE Certs!Ends(h)
    <3>1. StageInv(Certs!Idle) /\ PairInv(Certs!Idle) /\ Certs!Idle.at \notin Holding
      BY CertTypes DEF StageInv, PairInv, Holding
    <3> QED BY <2>1, <3>1, CertTypes DEF Certs!Ends
  <2>2. CASE Certs!Goes(h, "rm meta")
    <3> DEFINE m == [t EXCEPT !.at = "rm meta"]
    <3>1. m \in CertRequest /\ StageInv(m) /\ PairInv(m) /\ m.at \notin Holding /\ m.id = t.id
      BY <1>1, <1>2 DEF CertRequest, StageInv, PairInv, Holding
    <3>2. certTask' = [certTask EXCEPT ![h] = m]
      BY <2>2 DEF Certs!Goes
    <3> HIDE DEF m
    <3> QED BY <3>1, <3>2
  <2> QED BY <2>1, <2>2 DEF Certs!RemoveFiles, Certs!RemoveMeta
<1>5. certTask'[h] = n
  BY <1>1, <1>4
<1>6. Moves(h)
  <2>1. \A g \in Caller \ {h} :
            certTask[g].at \in Holding => certTask[g].id \in CertId
    BY DEF CertInv, StageInv
  <2> QED BY <1>1, <1>2, <1>3, <1>4, <2>1 DEF Moves
<1>7. Certs!TypeOK'
  BY <1>1, <1>3, <1>4 DEF CertInv, Certs!TypeOK, CertRequest
<1>8. WrittenInv(certTask[h])'
  BY <1>1, <1>2, <1>4, <1>5 DEF WrittenInv, Holding
<1>9. ListedServes'
  BY <1>1, <1>2, <1>3 DEF CertInv, ListedServes, Certs!ListedServes
<1> QED BY <1>4, <1>5, <1>6, <1>7, <1>8, <1>9, MoveKeeps

\* What nobody asked for: certbot's timer, a route, the end of the process.
LEMMA CertElsewhere ==
    ASSUME CertInv,
           \/ Certs!RenewKey \/ Certs!RenewChain \/ Certs!Crash
           \/ \E i \in CertId : Certs!UpsertRoute(i)
           \/ UNCHANGED certVars
    PROVE  CertInv'
<1>1. CASE Certs!Crash
  <2>1. /\ UNCHANGED <<live, store, document, used, doomed>>
        /\ \A h \in Caller : certTask'[h] = Certs!Idle
        /\ certTask' \in [Caller -> CertRequest]
    BY <1>1, CertTypes DEF Certs!Crash
  <2>2. Certs!TypeOK'
    BY <2>1 DEF CertInv, Certs!TypeOK, CertRequest
  <2>3. \A h \in Caller : StageInv(certTask'[h]) /\ PairInv(certTask'[h]) /\ WrittenInv(certTask[h])'
    BY <2>1, CertTypes DEF StageInv, PairInv, WrittenInv, Holding
  <2>4. ApartInv' /\ ListedServes'
    BY <2>1, CertTypes DEF CertInv, ApartInv, Holding, ListedServes, Certs!ListedServes
  <2> QED BY <2>2, <2>3, <2>4 DEF CertInv
<1>2. CASE ~Certs!Crash
  <2>1. UNCHANGED <<store, document, certTask, doomed>>
    BY <1>2 DEF Certs!RenewKey, Certs!RenewChain, Certs!UpsertRoute, certVars
  <2>2. live' \in Certs!Pair
    <3>1. live \in Certs!Pair
      BY DEF CertInv, Certs!TypeOK
    <3>2. CASE Certs!RenewKey
      <4>1. live.key + 1 \in 0..MaxVersion
        BY <3>1, <3>2, VersionAssumption DEF Certs!RenewKey, Certs!Pair
      <4> QED BY <3>1, <3>2, <4>1 DEF Certs!RenewKey, Certs!Pair
    <3>3. CASE Certs!RenewChain
      BY <3>1, <3>3 DEF Certs!RenewChain, Certs!Pair
    <3>4. CASE UNCHANGED live
      BY <3>1, <3>4
    <3> QED BY <1>2, <3>2, <3>3, <3>4 DEF Certs!UpsertRoute, certVars
  <2>3. used' \subseteq CertId
    BY DEF CertInv, Certs!TypeOK, Certs!RenewKey, Certs!RenewChain, Certs!UpsertRoute,
           Certs!Crash, certVars
  <2>4. Certs!TypeOK'
    BY <2>1, <2>2, <2>3 DEF CertInv, Certs!TypeOK
  <2>5. \A h \in Caller : WrittenInv(certTask[h])'
    BY <2>1 DEF CertInv, WrittenInv
  <2> QED BY <2>1, <2>4, <2>5 DEF CertInv, ApartInv, ListedServes, Certs!ListedServes
<1> QED BY <1>1, <1>2

LEMMA InitCertInv == Certs!Init => CertInv
<1> SUFFICES ASSUME Certs!Init PROVE CertInv
  OBVIOUS
<1>1. \A h \in Caller : certTask[h] = Certs!Idle
  BY DEF Certs!Init
<1>2. Certs!TypeOK
  BY CertTypes DEF Certs!Init, Certs!TypeOK, CertRequest
<1>3. \A h \in Caller : StageInv(certTask[h]) /\ PairInv(certTask[h]) /\ WrittenInv(certTask[h])
  BY <1>1, CertTypes DEF StageInv, PairInv, WrittenInv, Holding
<1>4. ApartInv /\ ListedServes
  BY <1>1, CertTypes DEF Certs!Init, ApartInv, Holding, ListedServes, Certs!ListedServes
<1> QED BY <1>2, <1>3, <1>4 DEF CertInv

LEMMA NextCertInv == CertInv /\ (Certs!Next \/ UNCHANGED certVars) => CertInv'
<1> SUFFICES ASSUME CertInv, Certs!Next \/ UNCHANGED certVars PROVE CertInv'
  OBVIOUS
<1> QED
  BY CertStart, CertRead, CertFirst, CertKey, CertDocument, CertRemoval, CertElsewhere
     DEF Certs!Next

\* The gateway moves one part at a time.
LEMMA GatewayMovesCerts ==
    [GatewayNext]_<<part, vars, vpnVars, tunnelVars, portVars, certVars>>
        => Certs!Next \/ UNCHANGED certVars
BY DEF GatewayNext

\* nginx.py: a certificate that the panel lists, and that nobody began to delete,
\* has a chain and the key of it, whatever certbot renews while it is imported,
\* whichever write fails and wherever the process is stopped.
THEOREM GatewayListedServes == GatewaySpec => []ListedServes
<1>1. GatewayInit => CertInv
  BY InitCertInv DEF GatewayInit
<1>2. CertInv /\ [GatewayNext]_<<part, vars, vpnVars, tunnelVars, portVars, certVars>> => CertInv'
  BY NextCertInv, GatewayMovesCerts
<1>3. CertInv => ListedServes
  BY DEF CertInv
<1> QED BY <1>1, <1>2, <1>3, PTL DEF GatewaySpec

-----------------------------------------------------------------------------
(***************************************************************************)
(* A request of the SSH tunnel module that has had no other beside it still *)
(* finds what it found when it came, as far as it has not changed it itself. *)
(***************************************************************************)
TunnelRequest ==
    [at : {"idle", "infra", "useradd", "register", "userdel", "rm", "keygen",
           "fingerprint", "rewrite", "save"},
     op : {"none", "ensure", "create", "delete", "set", "add", "remove"},
     user : TunnelUser \cup {None}, permit : Value \cup {None}, key : Key \cup {None},
     keys : SUBSET Key, before : SUBSET Key, gone : SUBSET Key, home : BOOLEAN, ok : BOOLEAN]

\* What a request brings, at the step it is at.
TunnelAsks(j) ==
    j.at # "idle" =>
    /\ ~j.ok
    /\ \/ j.op = "ensure" /\ j.at = "infra" /\ j.user = None
       \/ j.op = "create" /\ j.at \in {"infra", "useradd", "register", "rewrite"} /\ j.keys = {}
       \/ j.op = "delete" /\ j.at \in {"userdel", "rm"}
       \/ j.op = "set" /\ j.at \in {"rewrite", "save"}
       \/ j.op = "add" /\ j.at \in {"keygen", "fingerprint", "rewrite", "save"} /\ j.key \in Key
       \/ j.op = "remove" /\ j.at \in {"rewrite", "save"}
    /\ j.op # "ensure" => j.user \in TunnelUser
    /\ j.op \notin {"ensure", "delete"} /\ j.at # "keygen" => j.permit \in Value

\* What the request j, alone so far, knows of the registry, the keys and the account.
TunnelAlone(j) ==
    /\ j.op = "create" /\ j.at = "rewrite" => registry[j.user] = j.permit
    /\ j.op = "delete" /\ j.at = "rm" =>
          ~account[j.user] /\ (j.home => auth[j.user] = None)
    /\ j.at \in {"keygen", "fingerprint"} => Tunnel!KeysOf(j.user) = j.before
    /\ j.op \in {"add", "remove"} /\ j.at # "keygen" => registry[j.user] = j.permit
    /\ j.op # "create" /\ j.at = "rewrite" => j.keys = Tunnel!Expected(j)
    /\ j.at = "save" =>
          account[j.user] /\ auth[j.user] = [permit |-> j.permit, keys |-> Tunnel!Expected(j)]

AloneInv ==
    \A h \in tunnelSole :
        /\ tunnelJob[h].at # "idle" /\ TunnelAlone(tunnelJob[h])
        /\ \A k \in Caller \ {h} : tunnelJob[k].at = "idle"

TunnelInv ==
    /\ Tunnel!TypeOK /\ AloneInv
    /\ \A h \in Caller : TunnelAsks(tunnelJob[h])

TunnelState ==
    /\ infra \in BOOLEAN /\ account \in [TunnelUser -> BOOLEAN]
    /\ registry \in [TunnelUser -> Value \cup {None}]
    /\ auth \in [TunnelUser -> Tunnel!Lines \cup {None}]

LEMMA TunnelTypes ==
    /\ Tunnel!TypeOK <=> (/\ TunnelState /\ tunnelJob \in [Caller -> TunnelRequest]
                          /\ tunnelSole \subseteq Caller)
    /\ Tunnel!Idle \in TunnelRequest
    /\ Tunnel!Idle = [at |-> "idle", op |-> "none", user |-> None, permit |-> None,
                      key |-> None, keys |-> {}, before |-> {}, gone |-> {}, home |-> FALSE,
                      ok |-> FALSE]
BY DEF Tunnel!TypeOK, TunnelState, TunnelRequest, Tunnel!Idle

LEMMA KeysType ==
    ASSUME TunnelState, NEW u \in TunnelUser
    PROVE  Tunnel!KeysOf(u) \in SUBSET Key
BY ReadAssumption DEF TunnelState, Tunnel!KeysOf, Tunnel!Lines

\* While a request is at work no other is alone.
LEMMA OnlyOneAlone ==
    ASSUME TunnelInv, NEW h \in Caller, tunnelJob[h].at # "idle"
    PROVE  /\ tunnelSole \subseteq {h}
           /\ h \in tunnelSole => /\ \A k \in Caller \ {h} : tunnelJob[k].at = "idle"
                                  /\ TunnelAlone(tunnelJob[h])
BY TunnelTypes DEF TunnelInv, AloneInv

\* The request h comes to the state j, and nobody else does anything.
LEMMA TunnelMoves ==
    ASSUME TunnelInv, NEW h \in Caller, NEW j \in TunnelRequest, TunnelAsks(j),
           tunnelJob' = [tunnelJob EXCEPT ![h] = j], TunnelState',
           tunnelSole' \subseteq {h},
           h \in tunnelSole' => /\ j.at # "idle" /\ TunnelAlone(j)'
                                /\ \A k \in Caller \ {h} : tunnelJob[k].at = "idle"
    PROVE  TunnelInv'
<1>1. tunnelJob \in [Caller -> TunnelRequest]
  BY TunnelTypes DEF TunnelInv
<1>2. tunnelJob' \in [Caller -> TunnelRequest] /\ tunnelJob'[h] = j
  BY <1>1
<1>3. \A k \in Caller \ {h} : tunnelJob'[k] = tunnelJob[k]
  BY <1>1
<1>4. Tunnel!TypeOK'
  <2>1. tunnelSole' \subseteq Caller
    OBVIOUS
  <2> QED BY <1>2, <2>1 DEF Tunnel!TypeOK, TunnelState, TunnelRequest
<1>5. \A k \in Caller : TunnelAsks(tunnelJob'[k])
  BY <1>2, <1>3 DEF TunnelInv
<1>6. AloneInv'
  BY <1>2, <1>3 DEF AloneInv, TunnelAlone
<1> QED BY <1>4, <1>5, <1>6 DEF TunnelInv, TunnelAsks

\* The same, for a request that ends.
LEMMA TunnelEnds ==
    ASSUME TunnelInv, NEW h \in Caller, tunnelJob[h].at # "idle", NEW ok \in BOOLEAN,
           Tunnel!Ends(h, ok), TunnelState'
    PROVE  TunnelInv'
<1>1. PICK j : j = [Tunnel!Idle EXCEPT !.ok = ok]
  OBVIOUS
<1>2. j \in TunnelRequest /\ j.at = "idle"
  BY <1>1, TunnelTypes DEF TunnelRequest
<1>3. tunnelJob' = [tunnelJob EXCEPT ![h] = j] /\ tunnelSole' = tunnelSole \ {h}
  BY <1>1 DEF Tunnel!Ends
<1>4. tunnelSole' \subseteq {h} /\ h \notin tunnelSole'
  BY <1>3, OnlyOneAlone
<1>5. TunnelAsks(j)
  BY <1>2 DEF TunnelAsks
<1> QED BY <1>2, <1>3, <1>4, <1>5, TunnelMoves

-----------------------------------------------------------------------------
\* A request that comes.
LEMMA TunnelStarts ==
    ASSUME TunnelInv, NEW h \in Caller, NEW j \in TunnelRequest, Tunnel!Starts(h, j),
           j.at # "idle", TunnelAsks(j),
           NEW b, b = (IF j.user = None THEN {} ELSE Tunnel!KeysOf(j.user)),
           TunnelAlone([j EXCEPT !.before = b])
    PROVE  TunnelInv'
<1>1. TunnelState
  BY TunnelTypes DEF TunnelInv
<1>2. b \in SUBSET Key
  <2>1. CASE j.user = None
    BY <2>1
  <2>2. CASE j.user # None
    BY <1>1, <2>2, KeysType DEF TunnelRequest
  <2> QED BY <2>1, <2>2
<1>3. PICK i : i = [j EXCEPT !.before = b]
  OBVIOUS
<1>4. /\ i \in TunnelRequest /\ i.at = j.at /\ i.op = j.op /\ i.user = j.user
      /\ i.permit = j.permit /\ i.key = j.key /\ i.keys = j.keys /\ i.ok = j.ok
      /\ i.gone = j.gone /\ i.home = j.home
  BY <1>2, <1>3 DEF TunnelRequest
<1>5. TunnelAsks(i)
  BY <1>4 DEF TunnelAsks
<1>6. UNCHANGED <<infra, account, registry, auth>> /\ tunnelJob' = [tunnelJob EXCEPT ![h] = i]
  BY <1>3 DEF Tunnel!Starts
<1>7. TunnelState'
  BY <1>1, <1>6 DEF TunnelState, TunnelInv
<1>8. TunnelAlone(i)'
  BY <1>3, <1>6 DEF TunnelAlone, Tunnel!KeysOf, Tunnel!Expected
<1>9. /\ tunnelSole' \subseteq {h}
      /\ h \in tunnelSole' => \A k \in Caller \ {h} : tunnelJob[k].at = "idle"
  BY DEF Tunnel!Starts
<1> QED BY <1>4, <1>5, <1>6, <1>7, <1>8, <1>9, TunnelMoves

LEMMA TunnelRequests ==
    ASSUME TunnelInv, NEW h \in Caller,
           \/ Tunnel!EnsureInfra(h)
           \/ \E u \in TunnelUser :
                \/ Tunnel!DeleteUser(h, u)
                \/ \E p \in Value : Tunnel!CreateUser(h, u, p) \/ Tunnel!SetDestinations(h, u, p)
                \/ \E k \in Key : Tunnel!AddPublicKey(h, u, k) \/ Tunnel!GenerateKeypair(h, u, k)
                \/ \E gone \in SUBSET Key : Tunnel!RemovePublicKey(h, u, gone)
    PROVE  TunnelInv'
<1>1. TunnelState
  BY TunnelTypes DEF TunnelInv
<1>2. CASE Tunnel!EnsureInfra(h)
  <2>1. PICK j, i : /\ j = [Tunnel!Idle EXCEPT !.at = "infra", !.op = "ensure"]
                    /\ i = [j EXCEPT !.before = {}]
    OBVIOUS
  <2>2. j \in TunnelRequest /\ j.at = "infra" /\ j.op = "ensure" /\ j.user = None /\ ~j.ok
    BY <2>1, TunnelTypes DEF TunnelRequest
  <2>3. i.at = "infra" /\ i.op = "ensure"
    BY <2>1, <2>2 DEF TunnelRequest
  <2>4. TunnelAsks(j) /\ TunnelAlone(i)
    BY <2>2, <2>3 DEF TunnelAsks, TunnelAlone
  <2>5. Tunnel!Starts(h, j)
    BY <1>2, <2>1 DEF Tunnel!EnsureInfra
  <2> QED BY <2>1, <2>2, <2>4, <2>5, TunnelStarts
<1>3. ASSUME NEW u \in TunnelUser, Tunnel!DeleteUser(h, u) PROVE TunnelInv'
  <2>1. PICK b, j, i : /\ b = Tunnel!KeysOf(u)
                       /\ j = [Tunnel!Idle EXCEPT !.at = IF account[u] THEN "userdel" ELSE "rm",
                                                  !.op = "delete", !.user = u, !.home = account[u]]
                       /\ i = [j EXCEPT !.before = b]
    OBVIOUS
  <2>2. /\ j \in TunnelRequest /\ j.at = (IF account[u] THEN "userdel" ELSE "rm")
        /\ j.op = "delete" /\ j.user = u /\ j.home = account[u] /\ ~j.ok
    <3>1. account[u] \in BOOLEAN
      BY <1>1 DEF TunnelState
    <3> QED BY ZenonT(30), <2>1, <3>1, TunnelTypes DEF TunnelRequest
  <2>3. i.at = j.at /\ i.op = j.op /\ i.user = u /\ i.home = j.home
    BY <2>1, <2>2 DEF TunnelRequest
  <2>4. TunnelAsks(j) /\ TunnelAlone(i)
    BY <2>2, <2>3 DEF TunnelAsks, TunnelAlone
  <2>5. Tunnel!Starts(h, j)
    BY <1>3, <2>1 DEF Tunnel!DeleteUser
  <2>6. b = IF j.user = None THEN {} ELSE Tunnel!KeysOf(j.user)
    BY <2>1, <2>2, NoneAssumption
  <2>7. j \in TunnelRequest /\ j.at # "idle"
    BY <2>2
  <2> QED BY <2>1, <2>4, <2>5, <2>6, <2>7, TunnelStarts
<1>4. ASSUME NEW u \in TunnelUser, NEW p \in Value, Tunnel!CreateUser(h, u, p) PROVE TunnelInv'
  <2>1. PICK b, j, i : /\ b = Tunnel!KeysOf(u)
                       /\ j = [Tunnel!Idle EXCEPT !.at = "infra", !.op = "create", !.user = u,
                                                  !.permit = p]
                       /\ i = [j EXCEPT !.before = b]
    OBVIOUS
  <2>2. /\ j \in TunnelRequest /\ j.at = "infra" /\ j.op = "create" /\ j.user = u /\ ~j.ok
        /\ j.permit = p /\ j.keys = {}
    BY <2>1, TunnelTypes DEF TunnelRequest
  <2>3. i.at = "infra" /\ i.op = "create"
    BY <2>1, <2>2 DEF TunnelRequest
  <2>4. TunnelAsks(j) /\ TunnelAlone(i)
    BY <2>2, <2>3 DEF TunnelAsks, TunnelAlone
  <2>5. Tunnel!Starts(h, j)
    BY <1>4, <2>1 DEF Tunnel!CreateUser
  <2>6. u # None
    BY NoneAssumption
  <2> QED BY <2>1, <2>2, <2>4, <2>5, <2>6, TunnelStarts
<1>5. ASSUME NEW u \in TunnelUser, NEW p \in Value, Tunnel!SetDestinations(h, u, p)
      PROVE  TunnelInv'
  <2>1. PICK b, j, i : /\ b = Tunnel!KeysOf(u)
                       /\ j = [Tunnel!Idle EXCEPT !.at = "rewrite", !.op = "set", !.user = u,
                                                  !.permit = p, !.keys = b]
                       /\ i = [j EXCEPT !.before = b]
    OBVIOUS
  <2>2. b \in SUBSET Key
    BY <1>1, <2>1, KeysType
  <2>3. /\ j \in TunnelRequest /\ j.at = "rewrite" /\ j.op = "set" /\ j.user = u /\ ~j.ok
        /\ j.permit = p /\ j.keys = b
    BY <2>1, <2>2, TunnelTypes DEF TunnelRequest
  <2>4. i.at = "rewrite" /\ i.op = "set" /\ i.keys = b /\ i.before = b
    BY <2>1, <2>3 DEF TunnelRequest
  <2>5. TunnelAsks(j) /\ TunnelAlone(i)
    BY <2>3, <2>4 DEF TunnelAsks, TunnelAlone, Tunnel!Expected
  <2>6. Tunnel!Starts(h, j)
    BY <1>5, <2>1 DEF Tunnel!SetDestinations
  <2>7. u # None
    BY NoneAssumption
  <2> QED BY <2>1, <2>3, <2>5, <2>6, <2>7, TunnelStarts
<1>6. ASSUME NEW u \in TunnelUser, NEW k \in Key, Tunnel!AddPublicKey(h, u, k)
      PROVE  TunnelInv'
  <2>1. PICK b, j, i : /\ b = Tunnel!KeysOf(u)
                       /\ j = [Tunnel!Idle EXCEPT !.at = "fingerprint", !.op = "add", !.user = u,
                                                  !.permit = registry[u], !.key = k]
                       /\ i = [j EXCEPT !.before = b]
    OBVIOUS
  <2>2. registry[u] \in Value
    BY <1>1, <1>6 DEF TunnelState, Tunnel!AddPublicKey, Tunnel!Known
  <2>3. /\ j \in TunnelRequest /\ j.at = "fingerprint" /\ j.op = "add" /\ j.user = u /\ ~j.ok
        /\ j.permit = registry[u] /\ j.key = k
    BY <2>1, <2>2, TunnelTypes DEF TunnelRequest
  <2>4. /\ i.at = "fingerprint" /\ i.op = "add" /\ i.before = b /\ i.user = u
        /\ i.permit = registry[u]
    BY <2>1, <2>3 DEF TunnelRequest
  <2>5. TunnelAsks(j) /\ TunnelAlone(i)
    BY <2>1, <2>2, <2>3, <2>4 DEF TunnelAsks, TunnelAlone
  <2>6. Tunnel!Starts(h, j)
    BY <1>6, <2>1 DEF Tunnel!AddPublicKey
  <2>7. u # None
    BY NoneAssumption
  <2> QED BY <2>1, <2>3, <2>5, <2>6, <2>7, TunnelStarts
<1>7. ASSUME NEW u \in TunnelUser, NEW k \in Key, Tunnel!GenerateKeypair(h, u, k)
      PROVE  TunnelInv'
  <2>1. PICK b, j, i : /\ b = Tunnel!KeysOf(u)
                       /\ j = [Tunnel!Idle EXCEPT !.at = "keygen", !.op = "add", !.user = u,
                                                  !.key = k]
                       /\ i = [j EXCEPT !.before = b]
    OBVIOUS
  <2>2. /\ j \in TunnelRequest /\ j.at = "keygen" /\ j.op = "add" /\ j.user = u /\ ~j.ok
        /\ j.key = k
    BY <2>1, TunnelTypes DEF TunnelRequest
  <2>3. i.at = "keygen" /\ i.op = "add" /\ i.before = b /\ i.user = u
    BY <2>1, <2>2 DEF TunnelRequest
  <2>4. TunnelAsks(j) /\ TunnelAlone(i)
    BY <2>1, <2>2, <2>3 DEF TunnelAsks, TunnelAlone
  <2>5. Tunnel!Starts(h, j)
    BY <1>7, <2>1 DEF Tunnel!GenerateKeypair
  <2>6. u # None
    BY NoneAssumption
  <2> QED BY <2>1, <2>2, <2>4, <2>5, <2>6, TunnelStarts
<1>8. ASSUME NEW u \in TunnelUser, NEW gone \in SUBSET Key, Tunnel!RemovePublicKey(h, u, gone)
      PROVE  TunnelInv'
  <2>1. PICK b, j, i : /\ b = Tunnel!KeysOf(u)
                       /\ j = [Tunnel!Idle EXCEPT !.at = "rewrite", !.op = "remove", !.user = u,
                                                  !.permit = registry[u], !.gone = gone,
                                                  !.keys = b \ gone]
                       /\ i = [j EXCEPT !.before = b]
    OBVIOUS
  <2>2. registry[u] \in Value /\ b \ gone \in SUBSET Key
    BY <1>1, <1>8, <2>1, KeysType DEF TunnelState, Tunnel!RemovePublicKey, Tunnel!Known
  <2>3. /\ j \in TunnelRequest /\ j.at = "rewrite" /\ j.op = "remove" /\ j.user = u /\ ~j.ok
        /\ j.permit = registry[u] /\ j.gone = gone /\ j.keys = b \ gone
    BY <2>1, <2>2, TunnelTypes DEF TunnelRequest
  <2>4. /\ i.at = "rewrite" /\ i.op = "remove" /\ i.before = b /\ i.user = u
        /\ i.permit = registry[u] /\ i.gone = gone /\ i.keys = b \ gone
    BY <2>1, <2>3 DEF TunnelRequest
  <2>5. TunnelAsks(j)
    BY <2>2, <2>3 DEF TunnelAsks
  <2>6. TunnelAlone(i)
    BY <2>4 DEF TunnelAlone, Tunnel!Expected
  <2>7. Tunnel!Starts(h, j)
    BY <1>8, <2>1 DEF Tunnel!RemovePublicKey
  <2>8. u # None
    BY NoneAssumption
  <2> QED BY <2>1, <2>3, <2>5, <2>6, <2>7, <2>8, TunnelStarts
<1> QED BY <1>2, <1>3, <1>4, <1>5, <1>6, <1>7, <1>8

-----------------------------------------------------------------------------
\* A request at work on an account.
LEMMA TunnelAtWork ==
    ASSUME TunnelInv, NEW h \in Caller, tunnelJob[h].at # "idle"
    PROVE  /\ TunnelState /\ tunnelJob[h] \in TunnelRequest
           /\ tunnelJob \in [Caller -> TunnelRequest]
           /\ TunnelAsks(tunnelJob[h])
           /\ tunnelJob[h].at # "infra" =>
                 tunnelJob[h].user \in TunnelUser /\ tunnelJob[h].op # "ensure"
BY TunnelTypes DEF TunnelInv, TunnelAsks

\* One that only goes on to its next step.
LEMMA TunnelGoes ==
    ASSUME TunnelInv, NEW h \in Caller, tunnelJob[h].at # "idle",
           NEW at, Tunnel!Goes(h, at), at # "idle", TunnelState',
           NEW j, j = [tunnelJob[h] EXCEPT !.at = at], j \in TunnelRequest, TunnelAsks(j),
           h \in tunnelSole /\ TunnelAlone(tunnelJob[h]) => TunnelAlone(j)'
    PROVE  TunnelInv'
<1>1. tunnelJob' = [tunnelJob EXCEPT ![h] = j] /\ tunnelSole' = tunnelSole
  BY DEF Tunnel!Goes
<1>2. /\ tunnelSole' \subseteq {h}
      /\ h \in tunnelSole => /\ \A k \in Caller \ {h} : tunnelJob[k].at = "idle"
                             /\ TunnelAlone(tunnelJob[h])
  BY <1>1, OnlyOneAlone
<1>3. j.at # "idle"
  BY TunnelAtWork DEF TunnelRequest
<1> QED BY <1>1, <1>2, <1>3, TunnelMoves

LEMMA TunnelAccount ==
    ASSUME TunnelInv, NEW h \in Caller,
           \/ Tunnel!InfraDone(h) \/ Tunnel!UserAdd(h)
           \/ Tunnel!UserDel(h) \/ Tunnel!UserDelHalf(h)
    PROVE  TunnelInv'
<1> DEFINE t == tunnelJob[h]
<1>1. /\ t.at \in {"infra", "useradd", "userdel"} /\ t \in TunnelRequest /\ TunnelAsks(t)
      /\ TunnelState
  BY TunnelAtWork DEF Tunnel!InfraDone, Tunnel!UserAdd, Tunnel!UserDel, Tunnel!UserDelHalf
<1>2. CASE Tunnel!InfraDone(h)
  <2>1. t.at = "infra" /\ t.op \in {"ensure", "create"}
    BY <1>1, <1>2 DEF TunnelAsks, Tunnel!InfraDone
  <2>2. TunnelState'
    BY <1>1, <1>2 DEF TunnelState, Tunnel!InfraDone
  <2>3. CASE Tunnel!Ends(h, TRUE)
    BY <2>1, <2>2, <2>3, TunnelEnds
  <2>4. CASE t.op # "ensure" /\ Tunnel!Goes(h, "useradd")
    <3>1. PICK j : j = [t EXCEPT !.at = "useradd"]
      OBVIOUS
    <3>2. /\ j \in TunnelRequest /\ j.at = "useradd" /\ j.op = "create" /\ j.user = t.user
          /\ j.permit = t.permit /\ j.keys = t.keys /\ ~j.ok
      BY <1>1, <2>1, <2>4, <3>1 DEF TunnelRequest, TunnelAsks
    <3>3. TunnelAsks(j)
      BY <1>1, <2>1, <2>4, <3>2 DEF TunnelAsks
    <3>4. TunnelAlone(j)'
      BY <3>2 DEF TunnelAlone
    <3> QED BY <2>1, <2>2, <2>4, <3>1, <3>2, <3>3, <3>4, TunnelGoes
  <2> QED BY <1>2, <2>3, <2>4 DEF Tunnel!InfraDone
<1>3. CASE Tunnel!UserAdd(h)
  <2>1. t.at = "useradd" /\ t.op = "create" /\ t.user \in TunnelUser
    BY <1>1, <1>3 DEF TunnelAsks, Tunnel!UserAdd
  <2>2. TunnelState'
    BY <1>1, <1>3, <2>1 DEF TunnelState, Tunnel!UserAdd
  <2>3. PICK j : j = [t EXCEPT !.at = "register"]
    OBVIOUS
  <2>4. /\ j \in TunnelRequest /\ j.at = "register" /\ j.op = "create" /\ j.user = t.user
        /\ j.permit = t.permit /\ j.keys = t.keys /\ ~j.ok
    BY <1>1, <2>1, <2>3 DEF TunnelRequest, TunnelAsks
  <2>5. TunnelAsks(j)
    BY <1>1, <2>1, <2>4 DEF TunnelAsks
  <2>6. TunnelAlone(j)'
    BY <2>4 DEF TunnelAlone
  <2>7. Tunnel!Goes(h, "register")
    BY <1>3 DEF Tunnel!UserAdd
  <2> QED BY <2>1, <2>2, <2>3, <2>4, <2>5, <2>6, <2>7, TunnelGoes
<1>4. CASE Tunnel!UserDel(h)
  <2>1. t.at = "userdel" /\ t.op = "delete" /\ t.user \in TunnelUser
    BY <1>1, <1>4 DEF TunnelAsks, Tunnel!UserDel
  <2>2. /\ account' = [account EXCEPT ![t.user] = FALSE]
        /\ auth' = [auth EXCEPT ![t.user] = None] /\ UNCHANGED <<infra, registry>>
    BY <1>4 DEF Tunnel!UserDel
  <2>3. TunnelState'
    BY <1>1, <2>1, <2>2 DEF TunnelState
  <2>4. CASE Tunnel!Ends(h, TRUE)
    BY <2>1, <2>3, <2>4, TunnelEnds
  <2>5. CASE Tunnel!Goes(h, "rm")
    <3>1. PICK j : j = [t EXCEPT !.at = "rm"]
      OBVIOUS
    <3>2. /\ j \in TunnelRequest /\ j.at = "rm" /\ j.op = "delete" /\ j.user = t.user /\ ~j.ok
      BY <1>1, <2>1, <3>1 DEF TunnelRequest, TunnelAsks
    <3>3. TunnelAsks(j)
      BY <2>1, <3>2 DEF TunnelAsks
    <3>4. ~account'[j.user] /\ auth'[j.user] = None
      BY <1>1, <2>1, <2>2, <3>2 DEF TunnelState
    <3>5. TunnelAlone(j)'
      BY <3>2, <3>4 DEF TunnelAlone
    <3> QED BY <2>1, <2>3, <2>5, <3>1, <3>2, <3>3, <3>5, TunnelGoes
  <2> QED BY <1>4, <2>4, <2>5 DEF Tunnel!UserDel
<1>5. CASE Tunnel!UserDelHalf(h)
  <2>1. t.at = "userdel" /\ Tunnel!Ends(h, FALSE)
    BY <1>5 DEF Tunnel!UserDelHalf
  <2>2. TunnelState'
    BY <1>1, <1>5 DEF TunnelState, Tunnel!UserDelHalf
  <2> QED BY <2>1, <2>2, TunnelEnds
<1> QED BY <1>2, <1>3, <1>4, <1>5

LEMMA TunnelRegistry ==
    ASSUME TunnelInv, NEW h \in Caller,
           Tunnel!Register(h) \/ Tunnel!RemoveMeta(h) \/ Tunnel!Save(h)
    PROVE  TunnelInv'
<1> DEFINE t == tunnelJob[h]
<1>1. /\ t.at \in {"register", "rm", "save"} /\ t \in TunnelRequest /\ TunnelAsks(t)
      /\ TunnelState /\ t.user \in TunnelUser
  BY TunnelAtWork DEF Tunnel!Register, Tunnel!RemoveMeta, Tunnel!Save
<1>2. UNCHANGED <<infra, account, auth>>
  BY DEF Tunnel!Register, Tunnel!RemoveMeta, Tunnel!Save
<1>3. t.at # "rm" => t.permit \in Value
  BY <1>1 DEF TunnelAsks
<1>4. TunnelState'
  <2>1. registry' \in [TunnelUser -> Value \cup {None}]
    BY <1>1, <1>3 DEF TunnelState, Tunnel!Register, Tunnel!RemoveMeta, Tunnel!Save
  <2> QED BY <1>1, <1>2, <2>1 DEF TunnelState
<1>5. CASE Tunnel!RemoveMeta(h) \/ Tunnel!Save(h)
  BY <1>1, <1>4, <1>5, TunnelEnds DEF Tunnel!RemoveMeta, Tunnel!Save
<1>6. CASE Tunnel!Register(h)
  <2>1. t.at = "register" /\ t.op = "create" /\ Tunnel!Goes(h, "rewrite")
    BY <1>1, <1>6 DEF TunnelAsks, Tunnel!Register
  <2>2. PICK j : j = [t EXCEPT !.at = "rewrite"]
    OBVIOUS
  <2>3. /\ j \in TunnelRequest /\ j.at = "rewrite" /\ j.op = "create" /\ j.user = t.user
        /\ j.permit = t.permit /\ j.keys = t.keys /\ ~j.ok
    BY <1>1, <2>1, <2>2 DEF TunnelRequest, TunnelAsks
  <2>4. TunnelAsks(j)
    BY <1>1, <2>1, <2>3 DEF TunnelAsks
  <2>5. registry'[j.user] = j.permit
    BY <1>1, <1>6, <2>3 DEF TunnelState, Tunnel!Register
  <2>6. TunnelAlone(j)'
    BY <2>3, <2>5 DEF TunnelAlone
  <2> QED BY <1>1, <1>4, <2>1, <2>2, <2>3, <2>4, <2>6, TunnelGoes
<1> QED BY <1>5, <1>6

\* The registry and the keys as they were read, up to the file that is written.
LEMMA TunnelKeys ==
    ASSUME TunnelInv, NEW h \in Caller, Tunnel!KeygenDone(h) \/ Tunnel!FingerprintDone(h)
    PROVE  TunnelInv'
<1> DEFINE t == tunnelJob[h]
<1>1. /\ t.at \in {"keygen", "fingerprint"} /\ t \in TunnelRequest /\ TunnelAsks(t)
      /\ TunnelState /\ t.user \in TunnelUser /\ t.op = "add" /\ t.key \in Key
      /\ ~t.ok
  BY TunnelAtWork DEF Tunnel!KeygenDone, Tunnel!FingerprintDone, TunnelAsks
<1>2. UNCHANGED <<infra, account, registry, auth, tunnelSole>>
  BY DEF Tunnel!KeygenDone, Tunnel!FingerprintDone
<1>3. TunnelState'
  BY <1>1, <1>2 DEF TunnelState
<1>4. /\ tunnelSole' \subseteq {h}
      /\ h \in tunnelSole' => /\ \A k \in Caller \ {h} : tunnelJob[k].at = "idle"
                              /\ TunnelAlone(t)
  BY <1>1, <1>2, OnlyOneAlone
<1>5. CASE Tunnel!KeygenDone(h)
  <2>1. PICK j : j = [t EXCEPT !.at = "fingerprint", !.permit = registry[t.user],
                           !.key = ReadBack[t.key]]
    OBVIOUS
  <2>2. registry[t.user] \in Value /\ t.at = "keygen" /\ ReadBack[t.key] \in Key
    BY <1>1, <1>5, ReadAssumption DEF Tunnel!KeygenDone, Tunnel!Known, TunnelState
  <2>3. /\ j \in TunnelRequest /\ j.at = "fingerprint" /\ j.op = "add" /\ j.user = t.user
        /\ j.permit = registry[t.user] /\ j.key \in Key /\ j.before = t.before /\ ~j.ok
    BY <1>1, <2>1, <2>2 DEF TunnelRequest
  <2>4. TunnelAsks(j)
    BY <1>1, <2>2, <2>3 DEF TunnelAsks
  <2>5. tunnelJob' = [tunnelJob EXCEPT ![h] = j]
    BY <1>5, <2>1, TunnelAtWork DEF Tunnel!KeygenDone
  <2>6. TunnelAlone(t) => TunnelAlone(j)'
    BY <1>2, <2>2, <2>3 DEF TunnelAlone, Tunnel!KeysOf
  <2> QED BY <1>3, <1>4, <2>3, <2>4, <2>5, <2>6, TunnelMoves
<1>6. CASE Tunnel!FingerprintDone(h)
  <2>1. PICK b, j : /\ b = Tunnel!KeysOf(t.user)
                    /\ j = [t EXCEPT !.at = "rewrite", !.keys = b \cup {t.key}]
    OBVIOUS
  <2>2. b \in SUBSET Key /\ t.at = "fingerprint" /\ t.permit \in Value
    BY <1>1, <1>6, <2>1, KeysType DEF Tunnel!FingerprintDone, TunnelAsks
  <2>3. /\ j \in TunnelRequest /\ j.at = "rewrite" /\ j.op = "add" /\ j.user = t.user
        /\ j.permit = t.permit /\ j.key = t.key /\ j.before = t.before /\ ~j.ok
        /\ j.keys = b \cup {t.key}
    BY <1>1, <2>1, <2>2 DEF TunnelRequest
  <2>4. TunnelAsks(j)
    BY <1>1, <2>2, <2>3 DEF TunnelAsks
  <2>5. tunnelJob' = [tunnelJob EXCEPT ![h] = j]
    BY <1>6, <2>1, TunnelAtWork DEF Tunnel!FingerprintDone
  <2>6. TunnelAlone(t) => b = t.before /\ registry[t.user] = t.permit
    BY <1>1, <2>1, <2>2 DEF TunnelAlone
  <2>7. TunnelAlone(t) => TunnelAlone(j)'
    BY <1>2, <2>3, <2>6 DEF TunnelAlone, Tunnel!Expected
  <2> QED BY <1>3, <1>4, <2>3, <2>4, <2>5, <2>7, TunnelMoves
<1> QED BY <1>5, <1>6

LEMMA TunnelRewrites ==
    ASSUME TunnelInv, NEW h \in Caller, Tunnel!Rewrite(h)
    PROVE  TunnelInv'
<1> DEFINE t == tunnelJob[h]
           line == [permit |-> t.permit, keys |-> t.keys]
<1>1. /\ t.at = "rewrite" /\ t \in TunnelRequest /\ TunnelAsks(t)
      /\ TunnelState /\ t.user \in TunnelUser /\ t.permit \in Value
      /\ t.op \in {"create", "set", "add", "remove"} /\ account[t.user] /\ ~t.ok
  BY TunnelAtWork DEF Tunnel!Rewrite, TunnelAsks
<1>2. auth' = [auth EXCEPT ![t.user] = line] /\ UNCHANGED <<infra, account, registry>>
  BY DEF Tunnel!Rewrite, Tunnel!Written
<1>3. line \in Tunnel!Lines
  BY <1>1 DEF Tunnel!Lines, TunnelRequest
<1>4. TunnelState'
  BY <1>1, <1>2, <1>3 DEF TunnelState
<1>5. CASE t.op = "create"
  BY <1>1, <1>4, <1>5, TunnelEnds DEF Tunnel!Rewrite
<1>6. CASE t.op # "create"
  <2>1. Tunnel!Goes(h, "save")
    BY <1>6 DEF Tunnel!Rewrite
  <2>2. PICK j : j = [t EXCEPT !.at = "save"]
    OBVIOUS
  <2>3. /\ j \in TunnelRequest /\ j.at = "save" /\ j.op = t.op /\ j.user = t.user
        /\ j.permit = t.permit /\ j.key = t.key /\ j.keys = t.keys /\ j.before = t.before
        /\ j.gone = t.gone /\ ~j.ok
    BY <1>1, <2>2 DEF TunnelRequest
  <2>4. TunnelAsks(j)
    BY <1>1, <1>6, <2>3 DEF TunnelAsks
  <2>5. auth'[j.user] = [permit |-> j.permit, keys |-> t.keys] /\ account'[j.user]
    BY <1>1, <1>2, <2>3 DEF TunnelState
  <2>6. TunnelAlone(t) => t.keys = Tunnel!Expected(j)
    BY <1>1, <1>6, <2>3 DEF TunnelAlone, Tunnel!Expected
  <2>7. TunnelAlone(t) /\ j.op \in {"add", "remove"} => registry'[j.user] = j.permit
    BY <1>1, <1>2, <2>3 DEF TunnelAlone
  <2>8. TunnelAlone(t) => TunnelAlone(j)'
    BY <1>1, <1>6, <2>3, <2>5, <2>6, <2>7 DEF TunnelAlone, Tunnel!Expected
  <2> QED BY <1>1, <1>4, <2>1, <2>2, <2>3, <2>4, <2>8, TunnelGoes
<1> QED BY <1>5, <1>6

LEMMA TunnelStops ==
    ASSUME TunnelInv, NEW h \in Caller, Tunnel!Fails(h)
    PROVE  TunnelInv'
<1>1. /\ tunnelJob[h].at # "idle" /\ TunnelState
      /\ UNCHANGED <<account, registry, auth>>
  BY TunnelAtWork DEF Tunnel!Fails
<1>2. infra' \in BOOLEAN
  BY <1>1 DEF TunnelState, Tunnel!Fails
<1>3. TunnelState'
  BY <1>1, <1>2 DEF TunnelState
<1>4. PICK ok \in BOOLEAN : Tunnel!Ends(h, ok)
  BY DEF Tunnel!Fails
<1> QED BY <1>1, <1>3, <1>4, TunnelEnds

LEMMA TunnelKeeps == TunnelInv /\ (Tunnel!Next \/ UNCHANGED tunnelVars) => TunnelInv'
<1> SUFFICES ASSUME TunnelInv, Tunnel!Next \/ UNCHANGED tunnelVars PROVE TunnelInv'
  OBVIOUS
<1>1. TunnelState
  BY TunnelTypes DEF TunnelInv
<1>2. CASE Tunnel!Crash
  <2>1. /\ tunnelJob' \in [Caller -> TunnelRequest] /\ tunnelSole' = {}
        /\ \A h \in Caller : tunnelJob'[h] = Tunnel!Idle
    BY <1>2, TunnelTypes DEF Tunnel!Crash
  <2>2. TunnelState'
    BY <1>1, <1>2 DEF Tunnel!Crash, TunnelState
  <2>3. Tunnel!TypeOK'
    BY <2>1, <2>2 DEF Tunnel!TypeOK, TunnelState, TunnelRequest
  <2>4. \A h \in Caller : TunnelAsks(tunnelJob'[h])
    BY <2>1, TunnelTypes DEF TunnelAsks
  <2> QED BY <2>1, <2>2, <2>3, <2>4 DEF TunnelInv, AloneInv, TunnelAsks
<1>3. CASE UNCHANGED tunnelVars
  <2>1. UNCHANGED <<infra, account, registry, auth, tunnelJob, tunnelSole>>
    BY <1>3 DEF tunnelVars
  <2>2. Tunnel!TypeOK'
    BY <2>1 DEF TunnelInv, Tunnel!TypeOK
  <2>3. AloneInv'
    <3>1. AloneInv
      BY DEF TunnelInv
    <3>2. ASSUME NEW h \in tunnelSole
          PROVE  /\ (tunnelJob[h].at # "idle" /\ TunnelAlone(tunnelJob[h]))'
                 /\ \A k \in Caller \ {h} : tunnelJob'[k].at = "idle"
      <4>1. /\ tunnelJob[h].at # "idle" /\ TunnelAlone(tunnelJob[h])
            /\ \A k \in Caller \ {h} : tunnelJob[k].at = "idle"
        BY <3>1 DEF AloneInv
      <4>2. tunnelJob'[h] = tunnelJob[h] /\ Tunnel!Expected(tunnelJob[h])' = Tunnel!Expected(tunnelJob[h])
        BY <2>1 DEF Tunnel!Expected
      <4>3. \A u : Tunnel!KeysOf(u)' = Tunnel!KeysOf(u)
        BY <2>1 DEF Tunnel!KeysOf
      <4>4. TunnelAlone(tunnelJob[h])'
        BY <2>1, <4>1, <4>2, <4>3 DEF TunnelAlone
      <4> QED BY <2>1, <4>1, <4>4
    <3> QED BY <2>1, <3>2 DEF AloneInv
  <2>4. (\A h \in Caller : TunnelAsks(tunnelJob[h]))'
    BY <2>1 DEF TunnelInv, TunnelAsks
  <2> QED BY <2>2, <2>3, <2>4 DEF TunnelInv
<1> QED BY <1>2, <1>3, TunnelRequests, TunnelAccount, TunnelRegistry, TunnelKeys, TunnelRewrites,
       TunnelStops DEF Tunnel!Next

LEMMA InitTunnelInv == Tunnel!Init => TunnelInv
<1> SUFFICES ASSUME Tunnel!Init PROVE TunnelInv
  OBVIOUS
<1>1. /\ tunnelJob \in [Caller -> TunnelRequest] /\ tunnelSole = {}
      /\ \A h \in Caller : tunnelJob[h] = Tunnel!Idle
  BY TunnelTypes DEF Tunnel!Init
<1>2. TunnelState
  BY DEF Tunnel!Init, TunnelState
<1>3. Tunnel!TypeOK
  BY <1>1, <1>2, TunnelTypes
<1>4. \A h \in Caller : TunnelAsks(tunnelJob[h])
  BY <1>1, TunnelTypes DEF TunnelAsks
<1> QED BY <1>1, <1>2, <1>3, <1>4 DEF TunnelInv, AloneInv

\* The gateway moves one part at a time.
LEMMA GatewayMovesTunnel ==
    [GatewayNext]_<<part, vars, vpnVars, tunnelVars, portVars, certVars>>
        => Tunnel!Next \/ UNCHANGED tunnelVars
BY DEF GatewayNext

\* What the answer to the lone request j promises.
TunnelPromise(j) ==
    IF j.op = "delete"
      THEN /\ ~account'[j.user] /\ registry'[j.user] = None
           /\ j.home => auth'[j.user] = None
      ELSE /\ account'[j.user]
           /\ auth'[j.user] = [permit |-> registry'[j.user], keys |-> Tunnel!Expected(j)]
           /\ j.op \in {"create", "set"} => registry'[j.user] = j.permit

\* A request that is answered ok, and was at work, has taken its last step.
LEMMA AnswersByItself ==
    ASSUME TunnelInv, Tunnel!Next, NEW h \in tunnelSole, tunnelJob'[h].ok
    PROVE  \/ Tunnel!InfraDone(h) /\ Tunnel!Ends(h, TRUE)
           \/ Tunnel!UserDel(h) /\ Tunnel!Ends(h, TRUE)
           \/ Tunnel!RemoveMeta(h)
           \/ Tunnel!Rewrite(h) /\ Tunnel!Ends(h, TRUE)
           \/ Tunnel!Save(h)
           \/ Tunnel!Fails(h) /\ tunnelJob[h].at = "save" /\ tunnelJob[h].op # "set"
<1>1. /\ h \in Caller /\ tunnelJob \in [Caller -> TunnelRequest] /\ tunnelJob[h].at # "idle"
      /\ ~tunnelJob[h].ok /\ \A k \in Caller \ {h} : tunnelJob[k].at = "idle"
  BY TunnelTypes DEF TunnelInv, AloneInv, TunnelAsks
<1>2. ASSUME NEW o \in Caller, NEW j, Tunnel!Starts(o, j) PROVE FALSE
  <2>1. o # h
    BY <1>1, <1>2 DEF Tunnel!Starts
  <2>2. tunnelJob'[h] = tunnelJob[h]
    BY <1>1, <1>2, <2>1 DEF Tunnel!Starts
  <2> QED BY <1>1, <2>2
<1>3. ASSUME NEW at, Tunnel!Goes(h, at) PROVE FALSE
  <2>1. tunnelJob'[h] = [tunnelJob[h] EXCEPT !.at = at]
    BY <1>1, <1>3 DEF Tunnel!Goes
  <2>2. tunnelJob'[h].ok = tunnelJob[h].ok
    BY <1>1, <2>1 DEF TunnelRequest
  <2> QED BY <1>1, <2>2
<1>4. ASSUME Tunnel!Ends(h, FALSE) PROVE FALSE
  <2>1. tunnelJob'[h] = [Tunnel!Idle EXCEPT !.ok = FALSE]
    BY <1>1, <1>4 DEF Tunnel!Ends
  <2> QED BY <2>1, TunnelTypes
<1>5. ASSUME Tunnel!KeygenDone(h) \/ Tunnel!FingerprintDone(h) PROVE FALSE
  <2>1. CASE Tunnel!KeygenDone(h)
    <3>1. tunnelJob'[h] = [tunnelJob[h] EXCEPT !.at = "fingerprint",
                                              !.permit = registry[tunnelJob[h].user],
                                              !.key = ReadBack[tunnelJob[h].key]]
      BY <1>1, <2>1 DEF Tunnel!KeygenDone
    <3>2. tunnelJob'[h].ok = tunnelJob[h].ok
      BY <1>1, <3>1 DEF TunnelRequest
    <3> QED BY <1>1, <3>2
  <2>2. CASE Tunnel!FingerprintDone(h)
    <3>1. PICK ks : ks = Tunnel!KeysOf(tunnelJob[h].user) \cup {tunnelJob[h].key}
      OBVIOUS
    <3>2. tunnelJob'[h] = [tunnelJob[h] EXCEPT !.at = "rewrite", !.keys = ks]
      BY <1>1, <2>2, <3>1 DEF Tunnel!FingerprintDone
    <3>3. tunnelJob'[h].ok = tunnelJob[h].ok
      BY <1>1, <3>2 DEF TunnelRequest
    <3> QED BY <1>1, <3>3
  <2> QED BY <1>5, <2>1, <2>2
<1>6. ~Tunnel!Crash
  BY <1>1, TunnelTypes DEF Tunnel!Crash
<1>7. PICK o \in Caller :
          \/ Tunnel!EnsureInfra(o)
          \/ \E u \in TunnelUser :
                \/ Tunnel!DeleteUser(o, u)
                \/ \E p \in Value : Tunnel!CreateUser(o, u, p) \/ Tunnel!SetDestinations(o, u, p)
                \/ \E k \in Key : Tunnel!AddPublicKey(o, u, k) \/ Tunnel!GenerateKeypair(o, u, k)
                \/ \E gone \in SUBSET Key : Tunnel!RemovePublicKey(o, u, gone)
          \/ Tunnel!InfraDone(o) \/ Tunnel!UserAdd(o) \/ Tunnel!Register(o) \/ Tunnel!UserDel(o)
          \/ Tunnel!UserDelHalf(o)
          \/ Tunnel!RemoveMeta(o) \/ Tunnel!KeygenDone(o) \/ Tunnel!FingerprintDone(o)
          \/ Tunnel!Rewrite(o) \/ Tunnel!Save(o) \/ Tunnel!Fails(o)
  BY <1>6 DEF Tunnel!Next
<1>8. ~Tunnel!EnsureInfra(o)
  BY <1>2 DEF Tunnel!EnsureInfra
<1>9. ASSUME NEW u \in TunnelUser PROVE ~Tunnel!DeleteUser(o, u)
  BY <1>2 DEF Tunnel!DeleteUser
<1>10. ASSUME NEW u \in TunnelUser, NEW p \in Value
       PROVE  ~Tunnel!CreateUser(o, u, p) /\ ~Tunnel!SetDestinations(o, u, p)
  BY <1>2 DEF Tunnel!CreateUser, Tunnel!SetDestinations
<1>11. ASSUME NEW u \in TunnelUser
       PROVE  /\ \A k \in Key : ~Tunnel!AddPublicKey(o, u, k) /\ ~Tunnel!GenerateKeypair(o, u, k)
              /\ \A gone \in SUBSET Key : ~Tunnel!RemovePublicKey(o, u, gone)
  BY <1>2 DEF Tunnel!AddPublicKey, Tunnel!GenerateKeypair, Tunnel!RemovePublicKey
<1>12. tunnelJob[o].at # "idle"
  BY <1>7, <1>8, <1>9, <1>10, <1>11 DEF Tunnel!InfraDone, Tunnel!UserAdd, Tunnel!Register,
     Tunnel!UserDel, Tunnel!UserDelHalf, Tunnel!RemoveMeta, Tunnel!KeygenDone, Tunnel!FingerprintDone,
     Tunnel!Rewrite, Tunnel!Save, Tunnel!Fails
<1>13. o = h
  BY <1>1, <1>12
<1>14. ~Tunnel!UserAdd(h) /\ ~Tunnel!Register(h) /\ ~Tunnel!UserDelHalf(h)
  BY <1>3, <1>4 DEF Tunnel!UserAdd, Tunnel!Register, Tunnel!UserDelHalf
<1>15. ASSUME Tunnel!Fails(h) PROVE tunnelJob[h].at = "save" /\ tunnelJob[h].op # "set"
  BY <1>4, <1>15 DEF Tunnel!Fails
<1>16. Tunnel!InfraDone(h) => Tunnel!Ends(h, TRUE)
  BY <1>3 DEF Tunnel!InfraDone
<1>17. Tunnel!UserDel(h) => Tunnel!Ends(h, TRUE)
  BY <1>3 DEF Tunnel!UserDel
<1>18. Tunnel!Rewrite(h) => Tunnel!Ends(h, TRUE)
  BY <1>3 DEF Tunnel!Rewrite
<1> QED BY <1>5, <1>7, <1>8, <1>9, <1>10, <1>11, <1>13, <1>14, <1>15, <1>16, <1>17, <1>18

LEMMA AnswersKeepPromise ==
    ASSUME TunnelInv, Tunnel!Next, NEW h \in tunnelSole, tunnelJob'[h].ok,
           tunnelJob[h].user # None
    PROVE  TunnelPromise(tunnelJob[h])
<1> DEFINE j == tunnelJob[h]
<1>1. /\ h \in Caller /\ j.at # "idle" /\ TunnelAlone(j)
  BY TunnelTypes DEF TunnelInv, AloneInv
<1>2. /\ TunnelState /\ j \in TunnelRequest /\ TunnelAsks(j)
      /\ j.user \in TunnelUser
  BY <1>1, TunnelAtWork DEF TunnelRequest
<1>3. CASE Tunnel!InfraDone(h) /\ Tunnel!Ends(h, TRUE)
  <2>1. j.at = "infra" /\ j.op # "ensure"
    BY <1>2, <1>3, NoneAssumption DEF Tunnel!InfraDone, TunnelAsks
  <2>2. tunnelJob'[h] = [j EXCEPT !.at = "useradd"]
    BY <1>1, <1>3, <2>1, TunnelAtWork DEF Tunnel!InfraDone, Tunnel!Goes
  <2>3. tunnelJob'[h].ok = j.ok
    BY <1>2, <2>2 DEF TunnelRequest
  <2> QED BY <1>1, <1>2, <2>3 DEF TunnelAsks
<1>4. CASE Tunnel!UserDel(h) /\ Tunnel!Ends(h, TRUE)
  <2>1. j.at = "userdel" /\ j.op = "delete"
    BY <1>2, <1>4 DEF TunnelAsks, Tunnel!UserDel
  <2>2. /\ account' = [account EXCEPT ![j.user] = FALSE]
        /\ auth' = [auth EXCEPT ![j.user] = None] /\ registry' = registry
    BY <1>4 DEF Tunnel!UserDel
  <2>3. registry[j.user] = None
    <3>1. SUFFICES ASSUME registry[j.user] # None PROVE FALSE
      OBVIOUS
    <3>2. tunnelJob'[h] = [j EXCEPT !.at = "rm"]
      BY <1>1, <1>4, <3>1, TunnelAtWork DEF Tunnel!UserDel, Tunnel!Goes
    <3>3. tunnelJob'[h].ok = j.ok
      BY <1>2, <3>2 DEF TunnelRequest
    <3> QED BY <1>1, <1>2, <3>3 DEF TunnelAsks
  <2> QED BY <1>2, <2>1, <2>2, <2>3 DEF TunnelState, TunnelPromise
<1>5. CASE Tunnel!RemoveMeta(h)
  <2>1. /\ j.at = "rm" /\ j.op = "delete" /\ ~account[j.user]
        /\ j.home => auth[j.user] = None
    BY <1>1, <1>2, <1>5 DEF TunnelAsks, TunnelAlone, Tunnel!RemoveMeta
  <2>2. /\ registry' = [registry EXCEPT ![j.user] = None]
        /\ account' = account /\ auth' = auth
    BY <1>5 DEF Tunnel!RemoveMeta
  <2> QED BY <1>2, <2>1, <2>2 DEF TunnelState, TunnelPromise
<1>6. CASE Tunnel!Rewrite(h) /\ Tunnel!Ends(h, TRUE)
  <2>1. j.at = "rewrite" /\ j.op = "create"
    <3>1. SUFFICES ASSUME j.op # "create" PROVE FALSE
      BY <1>6 DEF Tunnel!Rewrite
    <3>2. tunnelJob'[h] = [j EXCEPT !.at = "save"]
      BY <1>1, <1>6, <3>1, TunnelAtWork DEF Tunnel!Rewrite, Tunnel!Goes
    <3>3. tunnelJob'[h].ok = j.ok
      BY <1>2, <3>2 DEF TunnelRequest
    <3> QED BY <1>1, <1>2, <3>3 DEF TunnelAsks
  <2>2. j.keys = {} /\ Tunnel!Expected(j) = {} /\ registry[j.user] = j.permit
    BY <1>1, <1>2, <2>1 DEF TunnelAsks, TunnelAlone, Tunnel!Expected
  <2>3. /\ account[j.user] /\ account' = account /\ registry' = registry
        /\ auth' = [auth EXCEPT ![j.user] = [permit |-> j.permit, keys |-> j.keys]]
    BY <1>6 DEF Tunnel!Rewrite, Tunnel!Written
  <2> QED BY <1>2, <2>1, <2>2, <2>3 DEF TunnelState, TunnelPromise
<1>7. CASE Tunnel!Save(h)
  <2>1. /\ j.at = "save" /\ j.op \in {"set", "add", "remove"} /\ account[j.user]
        /\ auth[j.user] = [permit |-> j.permit, keys |-> Tunnel!Expected(j)]
    BY <1>1, <1>2, <1>7 DEF TunnelAsks, TunnelAlone, Tunnel!Save
  <2>2. /\ registry' = [registry EXCEPT ![j.user] = j.permit]
        /\ account' = account /\ auth' = auth
    BY <1>7 DEF Tunnel!Save
  <2> QED BY <1>2, <2>1, <2>2 DEF TunnelState, TunnelPromise
<1>8. CASE Tunnel!Fails(h) /\ j.at = "save" /\ j.op # "set"
  <2>1. /\ j.op \in {"add", "remove"} /\ account[j.user] /\ registry[j.user] = j.permit
        /\ auth[j.user] = [permit |-> j.permit, keys |-> Tunnel!Expected(j)]
    BY <1>1, <1>2, <1>8 DEF TunnelAsks, TunnelAlone
  <2>2. UNCHANGED <<account, registry, auth>>
    BY <1>8 DEF Tunnel!Fails
  <2> QED BY <1>2, <2>1, <2>2 DEF TunnelPromise
<1> QED BY <1>3, <1>4, <1>5, <1>6, <1>7, <1>8, AnswersByItself

TunnelStep ==
    \A h \in tunnelSole : LET j == tunnelJob[h] IN
        j.at # "idle" /\ tunnelJob'[h].ok /\ j.user # None => TunnelPromise(j)

LEMMA NextTunnelStep ==
    TunnelInv /\ [GatewayNext]_<<part, vars, vpnVars, tunnelVars, portVars, certVars>>
        => [TunnelStep]_(Tunnel!vars)
<1> SUFFICES ASSUME TunnelInv, Tunnel!Next PROVE TunnelStep
  BY GatewayMovesTunnel DEF tunnelVars, Tunnel!vars
<1> QED BY AnswersKeepPromise DEF TunnelStep

\* ssh_tunnel.py: a request that had no other beside it and is answered ok has done
\* all of it, whatever failed or overlapped before: a deleted user is gone from the
\* passwd file and the registry, and with the account its keys; any other may open
\* exactly what the registry says, with the keys that the panel read in its file, less
\* those that the text of the request matched, and the one that was asked for.
THEOREM GatewayLoneAnswersHold == GatewaySpec => LoneAnswersHold
<1>1. GatewayInit => TunnelInv
  BY InitTunnelInv DEF GatewayInit
<1>2. TunnelInv /\ [GatewayNext]_<<part, vars, vpnVars, tunnelVars, portVars, certVars>>
         => TunnelInv'
  BY TunnelKeeps, GatewayMovesTunnel
<1> QED BY <1>1, <1>2, NextTunnelStep, PTL
        DEF GatewaySpec, LoneAnswersHold, Tunnel!LoneAnswersHold, TunnelStep, TunnelPromise

-----------------------------------------------------------------------------
(***************************************************************************)
(* OpenVPN.  A request that has had no other beside it still finds the      *)
(* documents as they were when it read them; and while no two requests ever *)
(* overlapped, each step of the PKI has what the next one needs.            *)
(***************************************************************************)
VpnRequest ==
    [at : {"idle", "ca", "ca.crt", "key", "crt", "client key", "client crt", "save", "list",
           "ccd", "conf", "restart", "stop"},
     op : {"none", "server", "create", "push", "stop"}, subject : Vpn!Subject,
     meta : Value \cup {None}, left : SUBSET Vpn!File]

VpnState ==
    /\ meta \in Value \cup {None} /\ files \in [Id -> Vpn!File \cup {None}]
    /\ ca \in [key : Caller \cup {None, Vpn!Ca}, crt : Caller \cup {None}]
    /\ pair \in [Vpn!Subject -> Vpn!PairType] /\ ccd \in [Name -> BOOLEAN \cup {None}]
    /\ {vpnConf, vpnRunning} \subseteq Value \cup {None}

LEMMA VpnTypes ==
    /\ Vpn!TypeOK <=> (/\ VpnState /\ job \in [Caller -> VpnRequest]
                       /\ sole \subseteq Caller /\ overlapped \in BOOLEAN)
    /\ Vpn!Idle \in VpnRequest
    /\ Vpn!Idle = [at |-> "idle", op |-> "none", subject |-> "server", meta |-> None, left |-> {}]
BY DEF Vpn!TypeOK, VpnState, VpnRequest, Vpn!Idle, Vpn!Server, Vpn!Subject

\* Which request is at which step.
VpnStages(j) ==
    /\ j.at \in {"ca", "ca.crt", "key", "crt"} => j.op \in {"server", "create", "push"}
    /\ j.at \in {"client key", "client crt"} => j.op = "create"
    /\ j.at = "save" => j.op \in {"server", "create"}
    /\ j.at \in {"list", "ccd", "restart"} => j.op = "push"
    /\ j.op = "create" => j.subject \in Name

\* No other client has the name of i.
OwnName(i) == \A k \in Vpn!Clients \ {i} : files[k].name # files[i].name
Told(i) == ccd[files[i].name] = files[i].enabled

\* What the push j, alone so far, knows of the documents and the CCD files.
VpnAlone(j) ==
    /\ j.op = "push" => j.meta = meta
    /\ j.at = "ccd" => /\ j.left \subseteq Vpn!ClientsRaw
                       /\ \A i \in Vpn!Clients : OwnName(i) => Told(i) \/ files[i] \in j.left
    /\ j.at = "restart" => vpnConf = meta /\ \A i \in Vpn!Clients : OwnName(i) => Told(i)

VpnAloneInv ==
    \A h \in sole : /\ job[h].at # "idle" /\ VpnAlone(job[h])
                    /\ \A k \in Caller \ {h} : job[k].at = "idle"

\* What the PKI has for the request h at its step.
VpnFinds(h, j) ==
    /\ j.at = "ca.crt" => ca.key = h /\ ca.crt = None
    /\ j.at \in {"key", "crt", "client key", "client crt", "save", "list", "ccd", "restart"}
          => Vpn!HasCa
    /\ j.at \in {"client key", "client crt", "save", "list", "ccd", "restart"}
          => Vpn!HasPair(Vpn!Server)
    /\ j.at = "save" /\ j.op = "create" => Vpn!HasPair(j.subject)

\* A certificate is there with its key and its CA, and the documents have theirs; the
\* CA has its key, or that of a client named "ca".
PkiInv ==
    /\ ca.crt # None => ca.key \in {ca.crt, Vpn!Ca}
    /\ \A s \in Vpn!Subject :
          /\ pair[s].csr => Vpn!HasKey(s)
          /\ pair[s].crt # "none" => Vpn!HasKey(s) /\ pair[s].crt = "match" /\ ca.crt # None
    /\ meta # None => Vpn!HasCa /\ Vpn!HasPair(Vpn!Server)
    /\ \A i \in Vpn!Clients : Vpn!HasPair(files[i].name)

OneByOne ==
    \A h \in Caller : job[h].at # "idle" =>
        /\ VpnFinds(h, job[h])
        /\ \A k \in Caller \ {h} : job[k].at = "idle"

VpnInv ==
    /\ Vpn!TypeOK
    /\ \A h \in Caller : VpnStages(job[h])
    /\ VpnAloneInv
    /\ ~overlapped => PkiInv /\ OneByOne

\* While a request is at work no other is alone.
LEMMA VpnAtWork ==
    ASSUME VpnInv, NEW h \in Caller, job[h].at # "idle"
    PROVE  /\ VpnState /\ job \in [Caller -> VpnRequest] /\ job[h] \in VpnRequest
           /\ overlapped \in BOOLEAN /\ VpnStages(job[h]) /\ sole \subseteq {h}
           /\ h \in sole => /\ \A k \in Caller \ {h} : job[k].at = "idle"
                            /\ VpnAlone(job[h])
           /\ ~overlapped => /\ PkiInv /\ VpnFinds(h, job[h])
                             /\ \A k \in Caller \ {h} : job[k].at = "idle"
BY VpnTypes DEF VpnInv, VpnAloneInv, OneByOne

\* The request h comes to the state j, and nobody else does anything.
LEMMA VpnMoves ==
    ASSUME VpnInv, NEW h \in Caller, NEW j \in VpnRequest, VpnStages(j),
           job' = [job EXCEPT ![h] = j], VpnState', overlapped' \in BOOLEAN,
           sole' \subseteq {h},
           h \in sole' => /\ j.at # "idle" /\ VpnAlone(j)'
                          /\ \A k \in Caller \ {h} : job[k].at = "idle",
           ~overlapped' => /\ PkiInv' /\ \A k \in Caller \ {h} : job[k].at = "idle"
                           /\ j.at # "idle" => VpnFinds(h, j)'
    PROVE  VpnInv'
<1>1. job \in [Caller -> VpnRequest]
  BY VpnTypes DEF VpnInv
<1>2. job' \in [Caller -> VpnRequest] /\ job'[h] = j
  BY <1>1
<1>3. \A k \in Caller \ {h} : job'[k] = job[k]
  BY <1>1
<1>4. Vpn!TypeOK'
  <2>1. sole' \subseteq Caller
    OBVIOUS
  <2> QED BY <1>2, <2>1 DEF Vpn!TypeOK, VpnState, VpnRequest
<1>5. \A k \in Caller : VpnStages(job'[k])
  BY <1>2, <1>3 DEF VpnInv
<1>6. VpnAloneInv'
  BY <1>2, <1>3 DEF VpnAloneInv, VpnAlone
<1>7. ~overlapped' => OneByOne'
  <2>1. SUFFICES ASSUME ~overlapped', NEW k \in Caller, job'[k].at # "idle"
                 PROVE  /\ VpnFinds(k, job[k])'
                        /\ \A o \in Caller \ {k} : job'[o].at = "idle"
    BY DEF OneByOne
  <2>2. k = h
    BY <1>3, <2>1
  <2> QED BY <1>2, <1>3, <2>1, <2>2 DEF VpnFinds
<1> QED BY <1>4, <1>5, <1>6, <1>7 DEF VpnInv, VpnStages

LEMMA VpnIdle == VpnStages(Vpn!Idle) /\ Vpn!Idle.at = "idle"
BY VpnTypes DEF VpnStages

\* The same, for a request that ends.
LEMMA VpnEnds ==
    ASSUME VpnInv, NEW h \in Caller, job[h].at # "idle", Vpn!Ends(h), VpnState',
           ~overlapped => PkiInv'
    PROVE  VpnInv'
<1>1. job' = [job EXCEPT ![h] = Vpn!Idle] /\ sole' = sole \ {h} /\ overlapped' = overlapped
  BY DEF Vpn!Ends
<1>2. /\ overlapped' \in BOOLEAN /\ sole' \subseteq {h} /\ h \notin sole'
      /\ ~overlapped' => PkiInv' /\ \A k \in Caller \ {h} : job[k].at = "idle"
  <2>1. /\ overlapped \in BOOLEAN /\ sole \subseteq {h}
        /\ ~overlapped => \A k \in Caller \ {h} : job[k].at = "idle"
    BY VpnAtWork
  <2> QED BY <1>1, <2>1
<1>3. Vpn!Idle \in VpnRequest /\ VpnStages(Vpn!Idle) /\ Vpn!Idle.at = "idle"
  BY VpnIdle, VpnTypes
<1> QED BY <1>1, <1>2, <1>3, VpnMoves

\* The same, for a request that comes.
LEMMA VpnStarts ==
    ASSUME VpnInv, NEW h \in Caller, NEW at \in {"ca", "stop"},
           NEW op \in {"server", "create", "push", "stop"}, NEW s \in Vpn!Subject,
           NEW m \in Value \cup {None}, Vpn!Starts(h, at, op, s, m), VpnState',
           op = "create" => s \in Name, at = "stop" <=> op = "stop", op = "push" => m = meta',
           ~overlapped => PkiInv'
    PROVE  VpnInv'
<1>1. PICK j : j = [Vpn!Idle EXCEPT !.at = at, !.op = op, !.subject = s, !.meta = m]
  OBVIOUS
<1>2. j \in VpnRequest /\ j.at = at /\ j.op = op /\ j.subject = s /\ j.meta = m
  BY <1>1, VpnTypes DEF VpnRequest
<1>3. /\ job' = [job EXCEPT ![h] = j]
      /\ sole' \subseteq {h}
      /\ h \in sole' => \A k \in Caller \ {h} : job[k].at = "idle"
      /\ ~overlapped' => ~overlapped /\ \A k \in Caller \ {h} : job[k].at = "idle"
  BY <1>1 DEF Vpn!Starts
<1>4. overlapped' \in BOOLEAN
  BY DEF Vpn!Starts
<1>5. VpnStages(j) /\ VpnAlone(j)'
  BY <1>2 DEF VpnStages, VpnAlone
<1>6. VpnFinds(h, j)'
  BY <1>2 DEF VpnFinds
<1> QED BY <1>2, <1>3, <1>4, <1>5, <1>6, VpnMoves

\* The same, for one that only goes on to its next step.
LEMMA VpnGoes ==
    ASSUME VpnInv, NEW h \in Caller, job[h].at # "idle", NEW at, Vpn!Goes(h, at),
           at # "idle", VpnState', NEW j, j = [job[h] EXCEPT !.at = at], j \in VpnRequest,
           VpnStages(j), h \in sole /\ VpnAlone(job[h]) => VpnAlone(j)',
           ~overlapped /\ PkiInv /\ VpnFinds(h, job[h]) => PkiInv' /\ VpnFinds(h, j)'
    PROVE  VpnInv'
<1>1. job' = [job EXCEPT ![h] = j] /\ sole' = sole /\ overlapped' = overlapped
  BY DEF Vpn!Goes
<1>2. j.at # "idle"
  BY VpnAtWork DEF VpnRequest
<1> QED BY <1>1, <1>2, VpnAtWork, VpnMoves

\* What a file says.
LEMMA VpnFiles ==
    ASSUME VpnState, NEW i \in Vpn!Clients
    PROVE  i \in Id /\ files[i] \in Vpn!File /\ files[i].name \in Name
           /\ files[i].enabled \in BOOLEAN
BY DEF VpnState, Vpn!Clients, Vpn!File

\* The PKI serves as long as it is left alone and no client is new.
LEMMA PkiStays ==
    ASSUME PkiInv, UNCHANGED <<meta, ca, pair>>,
           \A i \in Vpn!Clients' : \E k \in Vpn!Clients : files'[i].name = files[k].name
    PROVE  PkiInv'
<1>1. Vpn!HasCa' = Vpn!HasCa
  BY DEF Vpn!HasCa
<1>2. \A s : Vpn!HasPair(s)' = Vpn!HasPair(s)
  BY DEF Vpn!HasPair, Vpn!HasKey
<1>3. (\A i \in Vpn!Clients : Vpn!HasPair(files[i].name))'
  <2>1. ASSUME NEW i \in Vpn!Clients' PROVE Vpn!HasPair(files[i].name)'
    <3>1. PICK k \in Vpn!Clients : files'[i].name = files[k].name
      OBVIOUS
    <3>2. Vpn!HasPair(files[k].name)
      BY DEF PkiInv
    <3> QED BY <3>1, <3>2 DEF Vpn!HasPair, Vpn!HasKey
  <2> QED BY <2>1
<1> QED BY <1>1, <1>3 DEF PkiInv, Vpn!HasPair, Vpn!HasKey

LEMMA VpnRequests ==
    ASSUME VpnInv, NEW h \in Caller,
           \/ \E m \in Value : Vpn!SetUpServer(h, m)
           \/ \E n \in Name : Vpn!CreateClient(h, n)
           \/ Vpn!ApplyServer(h) \/ Vpn!StopServer(h)
    PROVE  VpnInv'
<1>1. UNCHANGED <<meta, files, ca, pair, ccd, vpnConf, vpnRunning>>
  BY DEF Vpn!SetUpServer, Vpn!CreateClient, Vpn!ApplyServer, Vpn!StopServer, Vpn!disk, Vpn!pki,
     Vpn!system
<1>2. VpnState /\ VpnState'
  BY <1>1, VpnTypes DEF VpnInv, VpnState
<1>3. ~overlapped => PkiInv'
  BY <1>1 DEF VpnInv, PkiInv, Vpn!HasCa, Vpn!HasPair, Vpn!HasKey, Vpn!Clients
<1>4. Vpn!Server \in Vpn!Subject /\ Name \subseteq Vpn!Subject
  BY DEF Vpn!Subject
<1>5. ASSUME NEW m \in Value, Vpn!SetUpServer(h, m) PROVE VpnInv'
  BY <1>2, <1>3, <1>4, <1>5, VpnStarts DEF Vpn!SetUpServer
<1>6. ASSUME NEW n \in Name, Vpn!CreateClient(h, n) PROVE VpnInv'
  BY <1>2, <1>3, <1>4, <1>6, VpnStarts DEF Vpn!CreateClient
<1>7. CASE Vpn!ApplyServer(h)
  <2>1. meta \in Value \cup {None} /\ meta' = meta
    BY <1>1, <1>2 DEF VpnState
  <2> QED BY <1>2, <1>3, <1>4, <1>7, <2>1, VpnStarts DEF Vpn!ApplyServer
<1>8. CASE Vpn!StopServer(h)
  BY <1>2, <1>3, <1>4, <1>8, VpnStarts DEF Vpn!StopServer
<1> QED BY <1>5, <1>6, <1>7, <1>8

LEMMA VpnUpdate ==
    ASSUME VpnInv, NEW h \in Caller, NEW i \in Id, NEW b \in BOOLEAN, Vpn!UpdateClient(h, i, b)
    PROVE  VpnInv'
<1>1. /\ i \in Vpn!Clients /\ files' = [files EXCEPT ![i].enabled = b]
      /\ UNCHANGED <<meta, ca, pair, ccd, vpnConf, vpnRunning>>
  BY DEF Vpn!UpdateClient, Vpn!pki, Vpn!system
<1>2. VpnState /\ files[i] \in Vpn!File
  BY <1>1, VpnTypes, VpnFiles DEF VpnInv
<1>3. PICK f : f = [files[i] EXCEPT !.enabled = b]
  OBVIOUS
<1>4. f \in Vpn!File /\ f.name = files[i].name
  BY <1>2, <1>3 DEF Vpn!File
<1>5. files' = [files EXCEPT ![i] = f]
  BY <1>1, <1>3
<1>6. VpnState'
  BY <1>1, <1>2, <1>4, <1>5 DEF VpnState
<1>7. \A k \in Vpn!Clients' : \E l \in Vpn!Clients : files'[k].name = files[l].name
  BY <1>1, <1>2, <1>4, <1>5 DEF Vpn!Clients, VpnState
<1>8. ~overlapped => PkiInv'
  BY <1>1, <1>7, PkiStays DEF VpnInv
<1>9. CASE Vpn!Starts(h, "ca", "push", Vpn!Server, meta)
  <2>1. meta \in Value \cup {None} /\ Vpn!Server \in Vpn!Subject
    BY <1>2 DEF VpnState, Vpn!Subject
  <2> QED BY <1>1, <1>6, <1>8, <1>9, <2>1, VpnStarts
<1>10. CASE sole' = {} /\ UNCHANGED <<job, overlapped>>
  <2>1. Vpn!TypeOK'
    BY <1>6, <1>10, VpnTypes DEF VpnInv, Vpn!TypeOK, VpnState
  <2>2. ~overlapped => OneByOne'
    BY <1>1, <1>10 DEF VpnInv, OneByOne, VpnFinds, Vpn!HasCa, Vpn!HasPair, Vpn!HasKey
  <2> QED BY <1>8, <1>10, <2>1, <2>2 DEF VpnInv, VpnAloneInv, VpnStages
<1> QED BY <1>9, <1>10 DEF Vpn!UpdateClient

LEMMA VpnDelete ==
    ASSUME VpnInv, NEW h \in Caller, NEW i \in Id, Vpn!DeleteClient(h, i)
    PROVE  VpnInv'
<1>1. /\ i \in Vpn!Clients /\ files' = [files EXCEPT ![i] = None]
      /\ ccd' = [ccd EXCEPT ![files[i].name] = None]
      /\ UNCHANGED <<meta, ca, pair, vpnConf, vpnRunning>>
      /\ Vpn!Starts(h, "ca", "push", files[i].name, meta)
  BY DEF Vpn!DeleteClient, Vpn!pki
<1>2. VpnState /\ files[i].name \in Name
  BY <1>1, VpnTypes, VpnFiles DEF VpnInv
<1>3. VpnState'
  BY <1>1, <1>2 DEF VpnState
<1>4. \A k \in Vpn!Clients' : \E l \in Vpn!Clients : files'[k].name = files[l].name
  BY <1>1, <1>2 DEF Vpn!Clients, VpnState
<1>5. ~overlapped => PkiInv'
  BY <1>1, <1>4, PkiStays DEF VpnInv
<1>6. meta \in Value \cup {None} /\ files[i].name \in Vpn!Subject
  BY <1>2 DEF VpnState, Vpn!Subject
<1> QED BY <1>1, <1>3, <1>5, <1>6, VpnStarts

-----------------------------------------------------------------------------
\* A request as it is at its next step.
LEMMA VpnNextStep ==
    ASSUME NEW t \in VpnRequest, NEW at \in {"ca.crt", "key", "crt", "client key", "client crt",
           "save", "list", "restart"}
    PROVE  /\ [t EXCEPT !.at = at] \in VpnRequest /\ [t EXCEPT !.at = at].at = at
           /\ [t EXCEPT !.at = at].op = t.op /\ [t EXCEPT !.at = at].subject = t.subject
           /\ [t EXCEPT !.at = at].meta = t.meta
BY DEF VpnRequest

LEMMA VpnEnsuresCa ==
    ASSUME VpnInv, NEW h \in Caller, Vpn!EnsureCa(h)
    PROVE  VpnInv'
<1> DEFINE t == job[h]
<1>1. /\ t.at = "ca" /\ t \in VpnRequest /\ VpnStages(t) /\ VpnState
      /\ UNCHANGED <<meta, files, pair, ccd, vpnConf, vpnRunning>>
  BY VpnAtWork DEF Vpn!EnsureCa, Vpn!disk, Vpn!system
<1>2. CASE Vpn!HasCa /\ Vpn!Goes(h, "key") /\ UNCHANGED ca
  <2>1. PICK j : j = [t EXCEPT !.at = "key"]
    OBVIOUS
  <2>2. j \in VpnRequest /\ j.at = "key" /\ j.op = t.op /\ j.subject = t.subject /\ j.meta = t.meta
    BY <1>1, <2>1, VpnNextStep
  <2>3. VpnState' /\ VpnStages(j)
    BY <1>1, <1>2, <2>2 DEF VpnState, VpnStages
  <2>4. VpnAlone(t) => VpnAlone(j)'
    BY <1>1, <2>2 DEF VpnAlone
  <2>5. PkiInv => PkiInv'
    BY <1>1, <1>2 DEF PkiInv, Vpn!HasCa, Vpn!HasPair, Vpn!HasKey, Vpn!Clients
  <2>6. VpnFinds(h, j)'
    BY <1>2, <2>2 DEF VpnFinds, Vpn!HasCa
  <2> QED BY <1>1, <1>2, <2>1, <2>2, <2>3, <2>4, <2>5, <2>6, VpnGoes
<1>3. CASE ~Vpn!HasCa /\ Vpn!Goes(h, "ca.crt") /\ ca' = [ca EXCEPT !.key = h]
  <2>1. PICK j : j = [t EXCEPT !.at = "ca.crt"]
    OBVIOUS
  <2>2. j \in VpnRequest /\ j.at = "ca.crt" /\ j.op = t.op /\ j.subject = t.subject /\ j.meta = t.meta
    BY <1>1, <2>1, VpnNextStep
  <2>3. ca'.key = h /\ ca'.crt = ca.crt
    BY <1>1, <1>3 DEF VpnState
  <2>4. VpnState' /\ VpnStages(j)
    BY <1>1, <1>3, <2>2 DEF VpnState, VpnStages
  <2>5. VpnAlone(t) => VpnAlone(j)'
    BY <1>1, <2>2 DEF VpnAlone
  <2>6. PkiInv => ca.crt = None
    BY <1>3, NoneAssumption DEF PkiInv, Vpn!HasCa, Vpn!Ca
  <2>7. PkiInv => PkiInv'
    BY <1>1, <1>3, <2>3, <2>6, NoneAssumption DEF PkiInv, Vpn!HasCa, Vpn!HasPair, Vpn!HasKey, Vpn!Clients
  <2>8. PkiInv => VpnFinds(h, j)'
    BY <2>2, <2>3, <2>6 DEF VpnFinds
  <2> QED BY <1>1, <1>3, <2>1, <2>2, <2>4, <2>5, <2>7, <2>8, VpnGoes
<1> QED BY <1>2, <1>3 DEF Vpn!EnsureCa

LEMMA VpnWritesCa ==
    ASSUME VpnInv, NEW h \in Caller, Vpn!WriteCa(h)
    PROVE  VpnInv'
<1> DEFINE t == job[h]
<1>1. /\ t.at = "ca.crt" /\ t \in VpnRequest /\ VpnStages(t) /\ VpnState
      /\ UNCHANGED <<meta, files, ccd, vpnConf, vpnRunning>>
      /\ ca' = [ca EXCEPT !.crt = h] /\ Vpn!Goes(h, "key")
  BY VpnAtWork DEF Vpn!WriteCa, Vpn!disk, Vpn!system
<1>2. pair' = [s \in Vpn!Subject |-> IF pair[s].crt = "none" THEN pair[s]
                                     ELSE [pair[s] EXCEPT !.crt = "other"]]
  BY DEF Vpn!WriteCa
<1>3. PICK j : j = [t EXCEPT !.at = "key"]
  OBVIOUS
<1>4. j \in VpnRequest /\ j.at = "key" /\ j.op = t.op /\ j.subject = t.subject /\ j.meta = t.meta
  BY <1>1, <1>3, VpnNextStep
<1>5. /\ ca' \in [key : Caller \cup {None, Vpn!Ca}, crt : Caller \cup {None}]
      /\ ca'.key = ca.key /\ ca'.crt = h
  BY <1>1 DEF VpnState
<1>6. pair' \in [Vpn!Subject -> Vpn!PairType]
  BY <1>1, <1>2 DEF VpnState, Vpn!PairType
<1>7. VpnState' /\ VpnStages(j)
  BY <1>1, <1>4, <1>5, <1>6 DEF VpnState, VpnStages
<1>8. VpnAlone(t) => VpnAlone(j)'
  BY <1>1, <1>4 DEF VpnAlone
<1>9. ASSUME PkiInv, VpnFinds(h, t) PROVE PkiInv' /\ VpnFinds(h, j)'
  <2>1. ca.key = h /\ ca.crt = None
    BY <1>1, <1>9 DEF VpnFinds
  <2>2. ca'.key = h /\ ca'.crt = h /\ h # None
    BY <1>5, <2>1, NoneAssumption
  <2>3. Vpn!HasCa'
    BY <2>2 DEF Vpn!HasCa
  <2>4. \A s \in Vpn!Subject : pair[s].crt = "none"
    BY <1>9, <2>1 DEF PkiInv
  <2>5. pair' = pair
    BY <1>1, <1>2, <2>4 DEF VpnState
  <2>6. meta = None /\ Vpn!Clients = {}
    BY <1>9, <2>1, <2>4, VpnFiles, <1>1 DEF PkiInv, Vpn!HasCa, Vpn!HasPair, Vpn!HasKey, Vpn!Subject
  <2>7. Vpn!Clients' = Vpn!Clients
    BY <1>1 DEF Vpn!Clients
  <2>8. PkiInv'
    <3>1. \A s \in Vpn!Subject :
             /\ pair'[s].csr => Vpn!HasKey(s)'
             /\ pair'[s].crt = "none"
      BY <1>5, <1>9, <2>4, <2>5 DEF PkiInv, Vpn!HasKey
    <3>2. meta' = None /\ ca'.key = ca'.crt
      BY <1>1, <2>2, <2>6
    <3> QED BY <2>6, <2>7, <3>1, <3>2 DEF PkiInv
  <2>9. VpnFinds(h, j)'
    BY <1>4, <2>3 DEF VpnFinds
  <2> QED BY <2>8, <2>9
<1> QED BY <1>1, <1>3, <1>4, <1>7, <1>8, <1>9, VpnGoes

\* Nothing that was there goes when the key or the certificate of one subject is made.
LEMMA PkiGrows ==
    ASSUME PkiInv, VpnState, NEW s \in Vpn!Subject, NEW p \in Vpn!PairType,
           pair' = [pair EXCEPT ![s] = p], UNCHANGED <<meta, files>>,
           ca' \in {ca, [ca EXCEPT !.key = Vpn!Ca]}, Vpn!HasKey(s)',
           p.crt # "none" => p.crt = "match" /\ ca.crt # None,
           Vpn!HasPair(s) => p.crt # "none"
    PROVE  /\ PkiInv' /\ Vpn!HasCa' = Vpn!HasCa
           /\ \A o \in Vpn!Subject : Vpn!HasPair(o) => Vpn!HasPair(o)'
<1>1. pair'[s] = p /\ \A o \in Vpn!Subject \ {s} : pair'[o] = pair[o]
  BY DEF VpnState
<1>2. ca'.crt = ca.crt /\ ca'.key \in {ca.key, Vpn!Ca} /\ Vpn!Ca # None
  BY NoneAssumption DEF VpnState, Vpn!Ca
<1>3. Vpn!HasCa' = Vpn!HasCa /\ Vpn!Clients' = Vpn!Clients
  BY <1>2 DEF PkiInv, Vpn!HasCa, Vpn!Clients
<1>4. \A o \in Vpn!Subject : Vpn!HasKey(o) => Vpn!HasKey(o)'
  BY <1>1, <1>2 DEF Vpn!HasKey
<1>5. \A o \in Vpn!Subject : Vpn!HasPair(o) => Vpn!HasPair(o)'
  BY <1>1, <1>4 DEF Vpn!HasPair
<1>6. \A o \in Vpn!Subject :
         /\ pair'[o].csr => Vpn!HasKey(o)'
         /\ pair'[o].crt # "none" => Vpn!HasKey(o)' /\ pair'[o].crt = "match" /\ ca'.crt # None
  BY <1>1, <1>2, <1>4 DEF PkiInv
<1>7. \A i \in Vpn!Clients : files[i].name \in Vpn!Subject
  BY VpnFiles DEF Vpn!Subject
<1>8. (\A i \in Vpn!Clients : Vpn!HasPair(files[i].name))'
  <2>1. ASSUME NEW i \in Vpn!Clients PROVE Vpn!HasPair(files[i].name)'
    <3>1. Vpn!HasPair(files[i].name)
      BY DEF PkiInv
    <3>2. \A o \in Vpn!Subject : Vpn!HasPair(o)' => /\ Vpn!HasKey(o)'
                                                  /\ pair'[o].crt # "none"
      BY DEF Vpn!HasPair
    <3> QED BY <1>5, <1>7, <3>1, <3>2 DEF Vpn!HasPair
  <2> QED BY <1>3, <2>1
<1>9. meta' # None => Vpn!HasCa' /\ Vpn!HasPair(Vpn!Server)'
  BY <1>3, <1>5 DEF PkiInv, Vpn!Subject
<1>10. ca'.crt # None => ca'.key \in {ca'.crt, Vpn!Ca}
  BY <1>2 DEF PkiInv
<1> QED BY <1>3, <1>5, <1>6, <1>8, <1>9, <1>10 DEF PkiInv

\* The pair of a subject is there: what is next.
LEMMA VpnPairIsThere ==
    ASSUME VpnInv, NEW h \in Caller,
           job[h].at \in {"key", "crt", "client key", "client crt"},
           NEW s, s = Vpn!Certified(h), Vpn!Goes(h, Vpn!AfterPair(h)), VpnState', UNCHANGED <<meta, files, ccd, vpnConf>>,
           ~overlapped /\ PkiInv /\ VpnFinds(h, job[h]) =>
               /\ PkiInv' /\ Vpn!HasCa' /\ Vpn!HasPair(s)'
               /\ Vpn!HasPair(Vpn!Server) => Vpn!HasPair(Vpn!Server)'
    PROVE  VpnInv'
<1> DEFINE t == job[h]
<1>1. t \in VpnRequest /\ VpnStages(t) /\ VpnState
  BY VpnAtWork
<1>2. PICK at : at = Vpn!AfterPair(h)
  OBVIOUS
<1>3. /\ at \in {"list", "client key", "save"}
      /\ at = "list" <=> t.op = "push"
      /\ at = "client key" <=> t.op = "create" /\ t.at \in {"key", "crt"}
  BY <1>2 DEF Vpn!AfterPair
<1>4. PICK j : j = [t EXCEPT !.at = at]
  OBVIOUS
<1>5. j \in VpnRequest /\ j.at = at /\ j.op = t.op /\ j.subject = t.subject /\ j.meta = t.meta
  BY <1>1, <1>3, <1>4 DEF VpnRequest
<1>6. VpnStages(j)
  BY <1>1, <1>3, <1>5 DEF VpnStages
<1>7. VpnAlone(t) => VpnAlone(j)'
  BY <1>3, <1>5 DEF VpnAlone
<1>8. ASSUME ~overlapped, PkiInv, VpnFinds(h, t) PROVE PkiInv' /\ VpnFinds(h, j)'
  <2>1. Vpn!HasPair(Vpn!Server)'
    BY <1>8 DEF Vpn!Certified, VpnFinds
  <2>2. at = "save" /\ t.op = "create" => s = j.subject
    BY <1>3, <1>5 DEF Vpn!Certified
  <2>3. VpnFinds(h, j)'
    BY <1>3, <1>5, <1>8, <2>1, <2>2 DEF VpnFinds
  <2> QED BY <1>8, <2>3
<1> QED BY <1>2, <1>3, <1>4, <1>5, <1>6, <1>7, <1>8, VpnGoes

LEMMA VpnEnsuresKey ==
    ASSUME VpnInv, NEW h \in Caller, Vpn!EnsureKey(h)
    PROVE  VpnInv'
<1> DEFINE t == job[h]
<1>1. /\ t.at \in {"key", "client key"} /\ t \in VpnRequest /\ VpnStages(t) /\ VpnState
      /\ UNCHANGED <<meta, files, ccd, vpnConf, vpnRunning>>
  BY VpnAtWork DEF Vpn!EnsureKey, Vpn!disk, Vpn!system
<1>2. PICK s : s = Vpn!Certified(h)
  OBVIOUS
<1>3. s \in Vpn!Subject /\ (t.at = "key" => s = Vpn!Server)
  BY <1>1, <1>2 DEF Vpn!Certified, Vpn!Subject, VpnRequest
<1>4. CASE Vpn!HasPair(s) /\ Vpn!Goes(h, Vpn!AfterPair(h)) /\ UNCHANGED <<ca, pair>>
  <2>1. VpnState'
    BY <1>1, <1>4 DEF VpnState
  <2>2. PkiInv => PkiInv'
    BY <1>1, <1>4 DEF PkiInv, Vpn!HasCa, Vpn!HasPair, Vpn!HasKey, Vpn!Clients
  <2>3. VpnFinds(h, t) => Vpn!HasCa'
    BY <1>1, <1>4 DEF VpnFinds, Vpn!HasCa
  <2>4. Vpn!HasPair(s)'
    BY <1>4 DEF Vpn!HasPair, Vpn!HasKey
  <2>5. Vpn!HasPair(Vpn!Server) => Vpn!HasPair(Vpn!Server)'
    BY <1>4 DEF Vpn!HasPair, Vpn!HasKey
  <2> QED BY <1>1, <1>2, <1>4, <2>1, <2>2, <2>3, <2>4, <2>5, VpnPairIsThere
<1>5. CASE /\ ~Vpn!HasPair(s) /\ Vpn!Goes(h, IF s = Vpn!Server THEN "crt" ELSE "client crt")
           /\ pair' = [pair EXCEPT ![s] = [key |-> s # Vpn!Ca, csr |-> TRUE,
                                           crt |-> IF @.crt = "none" THEN "none" ELSE "other"]]
           /\ ca' = IF s = Vpn!Ca THEN [ca EXCEPT !.key = Vpn!Ca] ELSE ca
  <2>1. PICK p : p = [key |-> s # Vpn!Ca, csr |-> TRUE,
                      crt |-> IF pair[s].crt = "none" THEN "none" ELSE "other"]
    OBVIOUS
  <2>2. p \in Vpn!PairType /\ pair' = [pair EXCEPT ![s] = p] /\ p.key = (s # Vpn!Ca)
    BY <1>5, <2>1 DEF Vpn!PairType
  <2>3. VpnState'
    <3>1. ca' \in [key : Caller \cup {None, Vpn!Ca}, crt : Caller \cup {None}]
      BY <1>1, <1>5 DEF VpnState
    <3> QED BY <1>1, <1>3, <2>2, <3>1 DEF VpnState
  <2>4. PICK at : at = IF s = Vpn!Server THEN "crt" ELSE "client crt"
    OBVIOUS
  <2>5. PICK j : j = [t EXCEPT !.at = at]
    OBVIOUS
  <2>6. j \in VpnRequest /\ j.at = at /\ j.op = t.op /\ j.subject = t.subject /\ j.meta = t.meta
    BY <1>1, <2>4, <2>5 DEF VpnRequest
  <2>7. VpnStages(j)
    BY <1>1, <1>3, <2>4, <2>6 DEF VpnStages
  <2>8. VpnAlone(t) => VpnAlone(j)'
    BY <1>1, <2>4, <2>6 DEF VpnAlone
  <2>9. ASSUME PkiInv, VpnFinds(h, t) PROVE PkiInv' /\ VpnFinds(h, j)'
    <3>1. pair[s].crt = "none"
      BY <1>3, <1>5, <2>9 DEF PkiInv, Vpn!HasPair, Vpn!HasKey
    <3>2. p.crt = "none"
      BY <2>1, <3>1
    <3>3. Vpn!HasKey(s)'
      <4>1. pair'[s] = p /\ (s = Vpn!Ca => ca'.key = Vpn!Ca) /\ Vpn!Ca # None
        BY <1>1, <1>3, <1>5, <2>2, NoneAssumption DEF VpnState, Vpn!Ca
      <4> QED BY <2>2, <4>1 DEF Vpn!HasKey
    <3>4. ca' \in {ca, [ca EXCEPT !.key = Vpn!Ca]}
      BY <1>5
    <3>5. /\ PkiInv' /\ Vpn!HasCa' = Vpn!HasCa
          /\ \A o \in Vpn!Subject : Vpn!HasPair(o) => Vpn!HasPair(o)'
      BY <1>1, <1>3, <1>5, <2>2, <2>9, <3>2, <3>3, <3>4, PkiGrows
    <3>6. Vpn!HasCa /\ (at = "client crt" => Vpn!HasPair(Vpn!Server))
      BY <1>1, <1>3, <2>4, <2>9 DEF VpnFinds
    <3>7. at = "client crt" => Vpn!HasPair(Vpn!Server)'
      BY <3>5, <3>6 DEF Vpn!Subject
    <3>8. VpnFinds(h, j)'
      BY <2>4, <2>6, <3>5, <3>6, <3>7 DEF VpnFinds
    <3> QED BY <3>5, <3>8
  <2>10. Vpn!Goes(h, at) /\ t.at # "idle" /\ at # "idle"
    BY <1>1, <1>5, <2>4
  <2> QED BY <2>3, <2>5, <2>6, <2>7, <2>8, <2>9, <2>10, VpnGoes
<1> QED BY <1>2, <1>4, <1>5 DEF Vpn!EnsureKey, Vpn!pki

LEMMA VpnSigns ==
    ASSUME VpnInv, NEW h \in Caller, Vpn!Sign(h)
    PROVE  VpnInv'
<1> DEFINE t == job[h]
<1>1. /\ t.at \in {"crt", "client crt"} /\ t \in VpnRequest /\ VpnStages(t) /\ VpnState
      /\ UNCHANGED <<meta, files, ca, ccd, vpnConf, vpnRunning>>
      /\ Vpn!Goes(h, Vpn!AfterPair(h))
  BY VpnAtWork DEF Vpn!Sign, Vpn!disk, Vpn!system
<1>2. PICK s, p : s = Vpn!Certified(h) /\ p = [pair[s] EXCEPT !.csr = FALSE, !.crt = "match"]
  OBVIOUS
<1>3. s \in Vpn!Subject
  BY <1>1, <1>2 DEF Vpn!Certified, Vpn!Subject, VpnRequest
<1>4. /\ p \in Vpn!PairType /\ p.key = pair[s].key /\ p.crt = "match" /\ ~p.csr
  BY <1>1, <1>2, <1>3 DEF VpnState, Vpn!PairType
<1>5. pair' = [pair EXCEPT ![s] = p] /\ pair[s].csr
  BY <1>2 DEF Vpn!Sign
<1>6. VpnState'
  BY <1>1, <1>3, <1>4, <1>5 DEF VpnState
<1>7. ASSUME PkiInv, VpnFinds(h, t)
      PROVE  /\ PkiInv' /\ Vpn!HasCa' /\ Vpn!HasPair(s)'
             /\ Vpn!HasPair(Vpn!Server) => Vpn!HasPair(Vpn!Server)'
  <2>1. pair'[s] = p
    BY <1>1, <1>3, <1>5 DEF VpnState
  <2>2. Vpn!HasKey(s)' /\ Vpn!HasCa /\ ca.crt # None
    BY <1>1, <1>3, <1>4, <1>5, <1>7, <2>1 DEF PkiInv, VpnFinds, Vpn!HasCa, Vpn!HasKey
  <2>3. /\ PkiInv' /\ Vpn!HasCa' = Vpn!HasCa
        /\ \A o \in Vpn!Subject : Vpn!HasPair(o) => Vpn!HasPair(o)'
    BY <1>1, <1>3, <1>4, <1>5, <1>7, <2>2, PkiGrows
  <2>4. Vpn!HasPair(s)'
    BY <1>4, <2>2, <2>1 DEF Vpn!HasPair, Vpn!HasKey
  <2>5. Vpn!HasCa'
    BY <2>2, <2>3
  <2>6. Vpn!HasPair(Vpn!Server) => Vpn!HasPair(Vpn!Server)'
    BY <2>3 DEF Vpn!Subject
  <2> QED BY <2>3, <2>4, <2>5, <2>6
<1> QED BY <1>1, <1>2, <1>6, <1>7, VpnPairIsThere

-----------------------------------------------------------------------------
LEMMA VpnSavesServer ==
    ASSUME VpnInv, NEW h \in Caller, Vpn!SaveServer(h)
    PROVE  VpnInv'
<1>1. /\ job[h].at = "save" /\ meta' = job[h].meta /\ Vpn!Ends(h)
      /\ UNCHANGED <<files, ca, pair, ccd, vpnConf, vpnRunning>>
  BY DEF Vpn!SaveServer, Vpn!pki, Vpn!system
<1>2. VpnState /\ job[h] \in VpnRequest /\ (~overlapped => PkiInv /\ VpnFinds(h, job[h]))
  BY <1>1, VpnAtWork
<1>3. VpnState'
  BY <1>1, <1>2 DEF VpnState, VpnRequest
<1>4. ~overlapped => PkiInv'
  BY <1>1, <1>2 DEF PkiInv, VpnFinds, Vpn!HasCa, Vpn!HasPair, Vpn!HasKey, Vpn!Clients
<1> QED BY <1>1, <1>3, <1>4, VpnEnds

LEMMA VpnSavesClient ==
    ASSUME VpnInv, NEW h \in Caller, NEW i \in Id, Vpn!SaveClient(h, i)
    PROVE  VpnInv'
<1> DEFINE t == job[h]
<1>1. PICK f : f = [name |-> t.subject, enabled |-> TRUE]
  OBVIOUS
<1>2. /\ t.at = "save" /\ t.op = "create" /\ files' = [files EXCEPT ![i] = f]
      /\ UNCHANGED <<meta, ca, pair, ccd, vpnConf, vpnRunning>>
  BY <1>1 DEF Vpn!SaveClient, Vpn!pki, Vpn!system
<1>3. VpnState /\ t \in VpnRequest /\ t.subject \in Name /\ VpnStages(t)
      /\ (~overlapped => PkiInv /\ VpnFinds(h, t))
  BY <1>2, VpnAtWork DEF VpnStages
<1>4. f \in Vpn!File /\ f.name = t.subject
  BY <1>1, <1>3 DEF Vpn!File
<1>5. VpnState'
  BY <1>2, <1>3, <1>4 DEF VpnState
<1>6. ASSUME PkiInv, VpnFinds(h, t) PROVE PkiInv'
  <2>1. Vpn!HasCa' = Vpn!HasCa /\ \A s : Vpn!HasPair(s)' = Vpn!HasPair(s)
    BY <1>2 DEF Vpn!HasCa, Vpn!HasPair, Vpn!HasKey
  <2>2. files'[i] = f /\ \A k \in Id \ {i} : files'[k] = files[k]
    BY <1>2, <1>3 DEF VpnState
  <2>3. Vpn!HasPair(f.name)
    BY <1>2, <1>4, <1>6 DEF VpnFinds
  <2>4. ASSUME NEW k \in Vpn!Clients' PROVE Vpn!HasPair(files[k].name)'
    <3>1. CASE k = i
      BY <2>2, <2>3, <3>1, <1>2 DEF Vpn!HasPair, Vpn!HasKey
    <3>2. CASE k # i
      <4>1. k \in Vpn!Clients /\ files'[k] = files[k]
        BY <2>2, <2>4, <3>2 DEF Vpn!Clients
      <4>2. Vpn!HasPair(files[k].name)
        BY <1>6, <4>1 DEF PkiInv
      <4> QED BY <1>2, <4>1, <4>2 DEF Vpn!HasPair, Vpn!HasKey
    <3> QED BY <3>1, <3>2
  <2>5. /\ ca'.crt # None => ca'.key \in {ca'.crt, Vpn!Ca}
        /\ \A s \in Vpn!Subject :
              /\ pair'[s].csr => Vpn!HasKey(s)'
              /\ pair'[s].crt # "none" =>
                    Vpn!HasKey(s)' /\ pair'[s].crt = "match" /\ ca'.crt # None
    BY <1>2, <1>6 DEF PkiInv, Vpn!HasKey
  <2>6. meta' # None => Vpn!HasCa' /\ Vpn!HasPair(Vpn!Server)'
    BY <1>2, <1>6 DEF PkiInv, Vpn!HasCa, Vpn!HasPair, Vpn!HasKey
  <2> QED BY <2>4, <2>5, <2>6 DEF PkiInv
<1>7. CASE Vpn!Ends(h)
  BY <1>2, <1>3, <1>5, <1>6, <1>7, VpnEnds
<1>8. CASE Vpn!Pushes(h)
  <2>1. PICK j : j = [Vpn!Idle EXCEPT !.at = "ca", !.op = "push", !.meta = meta]
    OBVIOUS
  <2>2. j \in VpnRequest /\ j.at = "ca" /\ j.op = "push" /\ j.meta = meta
    BY <1>3, <2>1, VpnTypes DEF VpnRequest, VpnState
  <2>3. VpnStages(j)
    BY <2>2 DEF VpnStages
  <2>4. VpnAlone(j)' /\ VpnFinds(h, j)'
    BY <1>2, <2>2 DEF VpnAlone, VpnFinds
  <2>5. job' = [job EXCEPT ![h] = j] /\ sole' = sole /\ overlapped' = overlapped
    BY <1>8, <2>1 DEF Vpn!Pushes
  <2> QED BY <1>2, <1>3, <1>5, <1>6, <2>2, <2>3, <2>4, <2>5, VpnAtWork, VpnMoves
<1> QED BY <1>7, <1>8 DEF Vpn!SaveClient

LEMMA VpnLists ==
    ASSUME VpnInv, NEW h \in Caller, Vpn!ListClients(h)
    PROVE  VpnInv'
<1> DEFINE t == job[h]
<1>1. /\ t.at = "list" /\ t \in VpnRequest /\ VpnStages(t) /\ VpnState
      /\ UNCHANGED <<meta, files, ca, pair, ccd, vpnConf, vpnRunning, sole, overlapped>>
  BY VpnAtWork DEF Vpn!ListClients, Vpn!disk, Vpn!pki, Vpn!system
<1>2. PICK l, j : l = Vpn!ClientsRaw /\ j = [t EXCEPT !.at = "ccd", !.left = l]
  OBVIOUS
<1>3. l \subseteq Vpn!File
  BY <1>1, <1>2, VpnFiles DEF Vpn!ClientsRaw
<1>4. /\ j \in VpnRequest /\ j.at = "ccd" /\ j.op = t.op /\ j.subject = t.subject
      /\ j.meta = t.meta /\ j.left = l
  BY <1>1, <1>2, <1>3 DEF VpnRequest
<1>5. job' = [job EXCEPT ![h] = j]
  BY <1>2 DEF Vpn!ListClients
<1>6. VpnState' /\ VpnStages(j)
  BY <1>1, <1>4 DEF VpnState, VpnStages
<1>7. Vpn!Clients' = Vpn!Clients /\ Vpn!ClientsRaw' = Vpn!ClientsRaw
  BY <1>1 DEF Vpn!Clients, Vpn!ClientsRaw
<1>8. ASSUME VpnAlone(t) PROVE VpnAlone(j)'
  <2>1. \A i \in Vpn!Clients' : files'[i] \in j.left
    BY <1>1, <1>2, <1>4, <1>7 DEF Vpn!ClientsRaw
  <2>2. j.meta = meta' /\ j.left \subseteq Vpn!ClientsRaw'
    BY <1>1, <1>2, <1>4, <1>7, <1>8 DEF VpnAlone, VpnStages
  <2> QED BY <1>4, <2>1, <2>2 DEF VpnAlone
<1>9. PkiInv => PkiInv'
  BY <1>1 DEF PkiInv, Vpn!HasCa, Vpn!HasPair, Vpn!HasKey, Vpn!Clients
<1>10. VpnFinds(h, t) => VpnFinds(h, j)'
  BY <1>1, <1>4 DEF VpnFinds, Vpn!HasCa, Vpn!HasPair, Vpn!HasKey
<1> QED BY <1>1, <1>4, <1>5, <1>6, <1>8, <1>9, <1>10, VpnAtWork, VpnMoves

LEMMA VpnWritesCcd ==
    ASSUME VpnInv, NEW h \in Caller, Vpn!WriteCcd(h)
    PROVE  VpnInv'
<1> DEFINE t == job[h]
<1>1. /\ t.at = "ccd" /\ t \in VpnRequest /\ VpnStages(t) /\ VpnState
      /\ UNCHANGED <<meta, files, ca, pair, vpnConf, vpnRunning, sole, overlapped>>
  BY VpnAtWork DEF Vpn!WriteCcd, Vpn!disk, Vpn!pki
<1>2. PICK f \in t.left : /\ ccd' = [ccd EXCEPT ![f.name] = f.enabled]
                          /\ job' = [job EXCEPT ![h].left = @ \ {f}]
  BY DEF Vpn!WriteCcd
<1>3. PICK j : j = [t EXCEPT !.left = t.left \ {f}]
  OBVIOUS
<1>4. /\ j \in VpnRequest /\ j.at = "ccd" /\ j.op = t.op /\ j.subject = t.subject
      /\ j.meta = t.meta /\ j.left = t.left \ {f}
  BY <1>1, <1>3 DEF VpnRequest
<1>5. job' = [job EXCEPT ![h] = j]
  BY <1>2, <1>3, VpnAtWork, <1>1
<1>6. f \in Vpn!File /\ f.name \in Name /\ f.enabled \in BOOLEAN
  BY <1>1 DEF VpnRequest, Vpn!File
<1>7. VpnState' /\ VpnStages(j)
  <2>1. ccd' \in [Name -> BOOLEAN \cup {None}]
    BY <1>1, <1>2, <1>6 DEF VpnState
  <2> QED BY <1>1, <1>4, <2>1 DEF VpnState, VpnStages
<1>8. Vpn!Clients' = Vpn!Clients /\ Vpn!ClientsRaw' = Vpn!ClientsRaw
  BY <1>1 DEF Vpn!Clients, Vpn!ClientsRaw
<1>9. ASSUME VpnAlone(t) PROVE VpnAlone(j)'
  <2>1. j.meta = meta' /\ j.left \subseteq Vpn!ClientsRaw'
    BY <1>1, <1>4, <1>8, <1>9 DEF VpnAlone, VpnStages
  <2>2. ASSUME NEW i \in Vpn!Clients, OwnName(i) PROVE Told(i)' \/ files'[i] \in j.left
    <3>1. files'[i] = files[i] /\ files[i].name \in Name
      BY <1>1, VpnFiles
    <3>2. CASE files[i] = f
      <4>1. ccd'[f.name] = f.enabled
        BY <1>1, <1>2, <1>6 DEF VpnState
      <4> QED BY <3>1, <3>2, <4>1 DEF Told
    <3>3. CASE files[i] # f
      <4>1. PICK k \in Vpn!Clients : files[k] = f
        BY <1>1, <1>9 DEF VpnAlone, Vpn!ClientsRaw
      <4>2. files[i].name # f.name
        BY <2>2, <3>3, <4>1 DEF OwnName
      <4>3. ccd'[files[i].name] = ccd[files[i].name]
        BY <1>1, <1>2, <3>1, <4>2 DEF VpnState
      <4>4. Told(i)' <=> Told(i)
        BY <3>1, <4>3 DEF Told
      <4>5. Told(i) \/ files[i] \in t.left
        BY <1>1, <1>9, <2>2 DEF VpnAlone
      <4> QED BY <1>4, <3>1, <3>3, <4>4, <4>5
    <3> QED BY <3>2, <3>3
  <2>3. \A i \in Vpn!Clients : OwnName(i)' <=> OwnName(i)
    BY <1>1, <1>8 DEF OwnName
  <2>4. (\A i \in Vpn!Clients : OwnName(i) => Told(i) \/ files[i] \in j.left)'
    BY <1>8, <2>2, <2>3
  <2> QED BY <1>4, <2>1, <2>4 DEF VpnAlone
<1>10. PkiInv => PkiInv'
  BY <1>1 DEF PkiInv, Vpn!HasCa, Vpn!HasPair, Vpn!HasKey, Vpn!Clients
<1>11. VpnFinds(h, t) => VpnFinds(h, j)'
  BY <1>1, <1>4 DEF VpnFinds, Vpn!HasCa, Vpn!HasPair, Vpn!HasKey
<1> QED BY <1>1, <1>4, <1>5, <1>7, <1>9, <1>10, <1>11, VpnAtWork, VpnMoves

LEMMA VpnWritesConf ==
    ASSUME VpnInv, NEW h \in Caller, Vpn!WriteConf(h)
    PROVE  VpnInv'
<1> DEFINE t == job[h]
<1>1. /\ t.at = "ccd" /\ t.left = {} /\ t \in VpnRequest /\ VpnStages(t) /\ VpnState
      /\ UNCHANGED <<meta, files, ca, pair, ccd, vpnRunning>>
      /\ vpnConf' = t.meta /\ Vpn!Goes(h, "restart")
  BY VpnAtWork DEF Vpn!WriteConf, Vpn!disk, Vpn!pki
<1>2. PICK j : j = [t EXCEPT !.at = "restart"]
  OBVIOUS
<1>3. j \in VpnRequest /\ j.at = "restart" /\ j.op = t.op /\ j.subject = t.subject /\ j.meta = t.meta
  BY <1>1, <1>2, VpnNextStep
<1>4. VpnState' /\ VpnStages(j)
  BY <1>1, <1>3 DEF VpnState, VpnStages, VpnRequest
<1>5. VpnAlone(t) => VpnAlone(j)'
  BY <1>1, <1>3 DEF VpnAlone, VpnStages, OwnName, Told, Vpn!Clients
<1>6. PkiInv => PkiInv'
  BY <1>1 DEF PkiInv, Vpn!HasCa, Vpn!HasPair, Vpn!HasKey, Vpn!Clients
<1>7. VpnFinds(h, t) => VpnFinds(h, j)'
  BY <1>1, <1>3 DEF VpnFinds, Vpn!HasCa, Vpn!HasPair, Vpn!HasKey
<1> QED BY <1>1, <1>2, <1>3, <1>4, <1>5, <1>6, <1>7, VpnGoes

LEMMA VpnAnswers ==
    ASSUME VpnInv, NEW h \in Caller,
           Vpn!Restart(h) \/ Vpn!RestartFails(h) \/ Vpn!Stopped(h) \/ Vpn!Fails(h)
    PROVE  VpnInv'
<1>1. /\ job[h].at # "idle" /\ Vpn!Ends(h)
      /\ UNCHANGED <<meta, files, ca, ccd, vpnConf>>
  BY DEF Vpn!Restart, Vpn!RestartFails, Vpn!Stopped, Vpn!Fails, Vpn!disk, Vpn!pki, Vpn!system
<1>2. VpnState /\ job[h] \in VpnRequest /\ (~overlapped => PkiInv)
  BY <1>1, VpnAtWork
<1>3. {vpnConf', vpnRunning'} \subseteq Value \cup {None}
  BY <1>1, <1>2 DEF VpnState, Vpn!Restart, Vpn!RestartFails, Vpn!Stopped, Vpn!Fails, Vpn!system
<1>4. PICK s : s = Vpn!Certified(h)
  OBVIOUS
<1>5. CASE UNCHANGED pair
  <2>1. VpnState'
    BY <1>1, <1>2, <1>3, <1>5 DEF VpnState
  <2>2. PkiInv => PkiInv'
    BY <1>1, <1>5 DEF PkiInv, Vpn!HasCa, Vpn!HasPair, Vpn!HasKey, Vpn!Clients
  <2> QED BY <1>1, <1>2, <2>1, <2>2, VpnEnds
<1>6. CASE pair' = [pair EXCEPT ![s].csr = FALSE]
  <2>1. \A o \in Vpn!Subject :
           /\ pair'[o] \in Vpn!PairType /\ pair'[o].key = pair[o].key
           /\ pair'[o].crt = pair[o].crt /\ (pair'[o].csr => pair[o].csr)
    BY ZenonT(30), <1>2, <1>6 DEF VpnState, Vpn!PairType
  <2>2. VpnState'
    BY <1>1, <1>2, <1>3, <1>6, <2>1 DEF VpnState
  <2>3. Vpn!HasCa' = Vpn!HasCa /\ Vpn!Clients' = Vpn!Clients
    BY <1>1 DEF Vpn!HasCa, Vpn!Clients
  <2>4. \A o \in Vpn!Subject : Vpn!HasPair(o) => Vpn!HasPair(o)'
    BY <1>1, <2>1 DEF Vpn!HasPair, Vpn!HasKey
  <2>5. ASSUME PkiInv PROVE PkiInv'
    <3>1. \A o \in Vpn!Subject :
             /\ pair'[o].csr => Vpn!HasKey(o)'
             /\ pair'[o].crt # "none" =>
                   Vpn!HasKey(o)' /\ pair'[o].crt = "match" /\ ca'.crt # None
      BY <1>1, <2>1, <2>5 DEF PkiInv, Vpn!HasKey
    <3>2. ASSUME NEW i \in Vpn!Clients PROVE Vpn!HasPair(files[i].name)'
      <4>1. files[i].name \in Vpn!Subject /\ files' = files
        BY <1>1, <1>2, VpnFiles DEF Vpn!Subject
      <4> QED BY <2>4, <2>5, <4>1 DEF PkiInv, Vpn!HasPair, Vpn!HasKey
    <3>3. meta' # None => Vpn!HasCa' /\ Vpn!HasPair(Vpn!Server)'
      BY <1>1, <2>3, <2>4, <2>5 DEF PkiInv, Vpn!Subject
    <3>4. ca'.crt # None => ca'.key \in {ca'.crt, Vpn!Ca}
      BY <1>1, <2>5 DEF PkiInv
    <3> QED BY <2>3, <3>1, <3>2, <3>3, <3>4 DEF PkiInv
  <2> QED BY <1>1, <1>2, <2>2, <2>5, VpnEnds
<1> QED BY <1>4, <1>5, <1>6 DEF Vpn!Restart, Vpn!RestartFails, Vpn!Stopped, Vpn!Fails, Vpn!pki

LEMMA InitVpnInv == Vpn!Init => VpnInv
<1> SUFFICES ASSUME Vpn!Init PROVE VpnInv
  OBVIOUS
<1>1. /\ job \in [Caller -> VpnRequest] /\ sole = {} /\ overlapped = FALSE
      /\ \A h \in Caller : job[h] = Vpn!Idle
  BY VpnTypes DEF Vpn!Init
<1>2. /\ meta = None /\ files = [i \in Id |-> None] /\ ca = [key |-> None, crt |-> None]
      /\ pair = [s \in Vpn!Subject |-> Vpn!NoPair]
      /\ ccd = [n \in Name |-> None] /\ vpnConf = None /\ vpnRunning = None
  BY DEF Vpn!Init
<1>3. Vpn!NoPair \in Vpn!PairType /\ Vpn!NoPair.crt = "none" /\ ~Vpn!NoPair.csr
  BY DEF Vpn!NoPair, Vpn!PairType
<1>4. VpnState
  BY <1>2, <1>3 DEF VpnState
<1>5. Vpn!TypeOK
  BY <1>1, <1>4, VpnTypes
<1>6. PkiInv
  BY <1>2, <1>3 DEF PkiInv, Vpn!Clients
<1>7. \A h \in Caller : VpnStages(job[h]) /\ job[h].at = "idle"
  BY <1>1, VpnIdle
<1> QED BY <1>1, <1>5, <1>6, <1>7 DEF VpnInv, VpnAloneInv, OneByOne

LEMMA VpnKeeps == VpnInv /\ (Vpn!Next \/ UNCHANGED vpnVars) => VpnInv'
<1> SUFFICES ASSUME VpnInv, Vpn!Next \/ UNCHANGED vpnVars PROVE VpnInv'
  OBVIOUS
<1>1. VpnState
  BY VpnTypes DEF VpnInv
<1>2. CASE Vpn!Crash
  <2>1. UNCHANGED <<meta, files, ca, pair, ccd, vpnConf, vpnRunning, overlapped>>
    BY <1>2 DEF Vpn!Crash, Vpn!disk, Vpn!pki, Vpn!system
  <2>2. /\ job' \in [Caller -> VpnRequest] /\ sole' = {}
        /\ \A h \in Caller : job'[h] = Vpn!Idle
    BY <1>2, VpnTypes DEF Vpn!Crash
  <2>3. VpnState'
    BY <1>1, <2>1 DEF VpnState
  <2>4. Vpn!TypeOK'
    BY <2>1, <2>2, <2>3 DEF VpnInv, Vpn!TypeOK, VpnState, VpnRequest
  <2>5. ~overlapped => PkiInv'
    BY <2>1 DEF VpnInv, PkiInv, Vpn!HasCa, Vpn!HasPair, Vpn!HasKey, Vpn!Clients
  <2>6. \A h \in Caller : VpnStages(job'[h]) /\ job'[h].at = "idle"
    BY <2>2, VpnIdle
  <2> QED BY <2>1, <2>2, <2>4, <2>5, <2>6 DEF VpnInv, VpnAloneInv, OneByOne, VpnStages
<1>3. CASE UNCHANGED vpnVars
  <2>1. UNCHANGED <<meta, files, ca, pair, ccd, vpnConf, vpnRunning, job, sole, overlapped>>
    BY <1>3 DEF vpnVars
  <2>2. Vpn!TypeOK' /\ (\A h \in Caller : VpnStages(job[h]))'
    BY <2>1 DEF VpnInv, Vpn!TypeOK, VpnStages
  <2>3. VpnAloneInv'
    BY <2>1 DEF VpnInv, VpnAloneInv, VpnAlone, OwnName, Told, Vpn!Clients, Vpn!ClientsRaw
  <2>4. ~overlapped => PkiInv'
    BY <2>1 DEF VpnInv, PkiInv, Vpn!HasCa, Vpn!HasPair, Vpn!HasKey, Vpn!Clients
  <2>5. ~overlapped => OneByOne'
    BY <2>1 DEF VpnInv, OneByOne, VpnFinds, Vpn!HasCa, Vpn!HasPair, Vpn!HasKey
  <2> QED BY <2>1, <2>2, <2>3, <2>4, <2>5 DEF VpnInv
<1> QED BY <1>2, <1>3, VpnRequests, VpnUpdate, VpnDelete, VpnEnsuresCa, VpnWritesCa, VpnEnsuresKey,
       VpnSigns, VpnSavesServer, VpnSavesClient, VpnLists, VpnWritesCcd, VpnWritesConf, VpnAnswers
       DEF Vpn!Next

\* The gateway moves one part at a time.
LEMMA GatewayMovesVpn ==
    [GatewayNext]_<<part, vars, vpnVars, tunnelVars, portVars, certVars>>
        => Vpn!Next \/ UNCHANGED vpnVars
BY DEF GatewayNext

\* A push that had no other beside it has brought the daemon and the CCD files up.
LEMMA LonePushes ==
    ASSUME VpnInv, NEW h \in sole, Vpn!Restart(h)
    PROVE  Vpn!Pushed'
<1>1. /\ h \in Caller /\ job[h].at = "restart" /\ vpnRunning' = vpnConf
      /\ UNCHANGED <<meta, files, ccd>>
  BY VpnTypes DEF VpnInv, Vpn!Restart, Vpn!disk
<1>2. vpnConf = meta /\ \A i \in Vpn!Clients : OwnName(i) => Told(i)
  BY <1>1 DEF VpnInv, VpnAloneInv, VpnAlone
<1> QED BY <1>1, <1>2 DEF Vpn!Pushed, OwnName, Told, Vpn!Clients

LEMMA PkiServesThen == PkiInv => Vpn!PkiServes
BY DEF PkiInv, Vpn!PkiServes, Vpn!HasCa, Vpn!HasPair, Vpn!HasKey

VpnStep ==
    /\ \A h \in sole : Vpn!Restart(h) => Vpn!Pushed'
    /\ ~overlapped' => Vpn!PkiServes'

LEMMA NextVpnStep ==
    VpnInv /\ [GatewayNext]_<<part, vars, vpnVars, tunnelVars, portVars, certVars>>
        => VpnInv' /\ [VpnStep]_(Vpn!vars)
<1> SUFFICES ASSUME VpnInv, Vpn!Next \/ UNCHANGED vpnVars PROVE VpnInv' /\ VpnStep
  BY GatewayMovesVpn
<1>1. VpnInv'
  BY VpnKeeps
<1>2. ~overlapped' => Vpn!PkiServes'
  <2>1. ~overlapped' => PkiInv'
    BY <1>1 DEF VpnInv
  <2>2. PkiInv' => Vpn!PkiServes'
    BY PkiServesThen DEF PkiInv, Vpn!PkiServes, Vpn!HasCa, Vpn!HasPair, Vpn!HasKey
  <2> QED BY <2>1, <2>2
<1> QED BY <1>1, <1>2, LonePushes DEF VpnStep

\* openvpn.py: a request that had no other beside it and is answered "applied" has
\* brought the daemon and the CCD files up to the documents, whatever overlapped,
\* failed or crashed before; and while no two requests ever overlapped the PKI
\* serves, whichever openssl call failed and wherever the process was stopped, but for
\* a CA that signs nothing more once a client was to be named "ca".
THEOREM GatewayLoneApplyPushes == GatewaySpec => LoneApplyPushes
<1>1. GatewayInit => VpnInv
  BY InitVpnInv DEF GatewayInit
<1> QED BY <1>1, NextVpnStep, PTL
        DEF GatewaySpec, LoneApplyPushes, Vpn!LoneAnswersHold, VpnStep

LEMMA GatewayMovesEdge ==
    [GatewayNext]_<<part, vars, vpnVars, tunnelVars, portVars, certVars>> => [Next]_vars
BY DEF GatewayNext, EdgeNext

\* Every reachable state of the edge, OpenVPN, the SSH tunnel module and the
\* certificates is well typed, whatever the other parts do.
THEOREM GatewayTypeCorrect == GatewaySpec => []PartsTypeOK
<1> DEFINE GatewayInv == IInv /\ VpnInv /\ TunnelInv /\ CertInv
<1>1. GatewayInit => GatewayInv
  BY InitInductive, InitVpnInv, InitTunnelInv, InitCertInv DEF GatewayInit
<1>2. GatewayInv /\ [GatewayNext]_<<part, vars, vpnVars, tunnelVars, portVars, certVars>>
         => GatewayInv'
  BY NextInductive, VpnKeeps, TunnelKeeps, NextCertInv, GatewayMovesEdge, GatewayMovesVpn,
     GatewayMovesTunnel, GatewayMovesCerts
<1>3. GatewayInv => PartsTypeOK
  BY DEF IInv, VpnInv, TunnelInv, CertInv, PartsTypeOK
<1> QED BY <1>1, <1>2, <1>3, PTL DEF GatewaySpec

-----------------------------------------------------------------------------
(***************************************************************************)
(* The forwards of a client configuration.  What is still to come and what  *)
(* has its port are no more than was asked for, so that a port is free; and *)
(* of the registry's destinations none comes twice.                        *)
(***************************************************************************)
Forwarded == [local : Port \cup RandomLo..RandomHi \cup RandomLo..Top, host : Host, port : Port]

NoneTwice ==
    /\ \A i, k \in DOMAIN rest : Ports!Target(rest[i]) = Ports!Target(rest[k]) => i = k
    /\ \A i \in DOMAIN forwards, k \in DOMAIN rest :
          Ports!Target(forwards[i]) # Ports!Target(rest[k])
    /\ \A i, k \in DOMAIN forwards : Ports!Target(forwards[i]) = Ports!Target(forwards[k]) => i = k

PortsInv ==
    /\ raw \in Seq(Ports!Entry) /\ rest \in Seq(Ports!Entry) /\ forwards \in Seq(Forwarded)
    /\ Len(raw) + Len(rest) + Len(forwards) <= MaxLength
    /\ raw # <<>> => forwards = <<>> /\ ~listed
    /\ \A i, k \in DOMAIN forwards : forwards[i].local = forwards[k].local => i = k
    /\ ~listed => NoneTwice

\* A set of naturals that is not empty has a least element.
LEMMA LeastNatural ==
    ASSUME NEW S \in SUBSET Nat, S # {}
    PROVE  \E m \in S : \A n \in S : m <= n
<1> DEFINE R == OpToRel(<, Nat)
<1>1. IsWellFoundedOn(R, Nat)
  BY NatLessThanWellFounded
<1>2. \A m, n \in S : n < m => <<n, m>> \in R
  BY Zenon DEF OpToRel
<1> HIDE DEF R
<1>3. PICK m \in S : \A n \in S : ~ (<<n, m>> \in R)
  BY <1>1, WFMin
<1>4. \A n \in S : ~ (n < m)
  BY <1>2, <1>3
<1> QED BY <1>4

\* The ports that are used are as many as the forwards, at most.
LEMMA UsedIsSmall ==
    ASSUME forwards \in Seq(Forwarded)
    PROVE  IsFiniteSet(Ports!Used) /\ Cardinality(Ports!Used) <= Len(forwards)
<1> DEFINE f == [i \in 1..Len(forwards) |-> forwards[i].local]
<1>1. Len(forwards) \in Nat /\ DOMAIN forwards = 1..Len(forwards)
  OBVIOUS
<1>2. IsFiniteSet(1..Len(forwards)) /\ Cardinality(1..Len(forwards)) = Len(forwards)
  BY <1>1, FS_Interval
<1>3. f \in Surjection(1..Len(forwards), Ports!Used)
  BY <1>1 DEF Surjection, Ports!Used
<1> QED BY <1>2, <1>3, FS_Surjection

\* So that the search ends at a port that is free.
LEMMA FirstFreeIsFree ==
    ASSUME forwards \in Seq(Forwarded), Len(forwards) < MaxLength
    PROVE  Ports!FirstFree \in RandomLo..Top /\ Ports!FirstFree \notin Ports!Used
<1>1. /\ RandomLo \in Nat /\ Top \in Nat /\ MaxLength \in Nat /\ Len(forwards) \in Nat
      /\ RandomLo + MaxLength <= Top + 1
  BY PortsAssumption
<1>2. ~(RandomLo..Top \subseteq Ports!Used)
  <2>1. SUFFICES ASSUME RandomLo..Top \subseteq Ports!Used PROVE FALSE
    OBVIOUS
  <2>2. Cardinality(RandomLo..Top) = Top - RandomLo + 1
    BY <1>1, FS_Interval
  <2>3. Cardinality(RandomLo..Top) <= Cardinality(Ports!Used)
    BY <2>1, UsedIsSmall, FS_Subset
  <2>4. Cardinality(Ports!Used) \in Nat /\ Cardinality(Ports!Used) <= Len(forwards)
    BY UsedIsSmall, FS_CardinalityType
  <2> QED BY <1>1, <2>2, <2>3, <2>4
<1> DEFINE Free == {p \in RandomLo..Top : p \notin Ports!Used}
<1>3. Free \in SUBSET Nat /\ Free # {}
  BY <1>1, <1>2
<1>4. PICK p \in Free : \A q \in Free : p <= q
  BY <1>3, LeastNatural
<1>5. p \in RandomLo..Top /\ p \notin Ports!Used /\ \A q \in RandomLo..(p - 1) : q \in Ports!Used
  BY <1>1, <1>4
<1> DEFINE Search(o) == /\ o \notin Ports!Used \/ o = Top
                        /\ \A q \in RandomLo..(o - 1) : q \in Ports!Used
<1>6. /\ Ports!FirstFree \in RandomLo..Top /\ Search(Ports!FirstFree)
  BY <1>5 DEF Ports!FirstFree
<1>7. CASE Ports!FirstFree \in Ports!Used
  <2>1. \A q \in RandomLo..(Top - 1) : q \in Ports!Used
    BY <1>6, <1>7
  <2>2. Top \in Ports!Used
    BY <1>6, <1>7
  <2>3. RandomLo..Top \subseteq Ports!Used
    BY <1>1, <2>1, <2>2
  <2> QED BY <1>2, <2>3
<1> QED BY <1>6, <1>7

\* A port that is given is used by no forward, and is a port.
LEMMA AllocatedIsFree ==
    ASSUME forwards \in Seq(Forwarded), Len(forwards) < MaxLength, NEW e \in Ports!Entry,
           NEW p \in Ports!Allocate(e)
    PROVE  p \notin Ports!Used /\ p \in Port \cup RandomLo..RandomHi \cup RandomLo..Top
<1>1. e.port \in Port
  BY DEF Ports!Entry
<1> QED BY <1>1, FirstFreeIsFree DEF Ports!Allocate, Ports!Wanted, Ports!RandPort

\* Another forward, on a port of its own.
LEMMA ForwardsGrow ==
    ASSUME PortsInv, NEW e \in Ports!Entry, e = Head(rest), rest # <<>>, NEW p,
           p \in Port \cup RandomLo..RandomHi \cup RandomLo..Top, p \notin Ports!Used,
           raw = <<>>, forwards' = Append(forwards, Ports!Forward(e, p)), rest' = Tail(rest),
           UNCHANGED <<raw, listed>>
    PROVE  PortsInv'
<1> DEFINE n == Len(forwards)
<1>1. PICK f : f = Ports!Forward(e, p)
  OBVIOUS
<1>2. f \in Forwarded /\ f.local = p /\ Ports!Target(f) = Ports!Target(e)
  BY <1>1 DEF Ports!Forward, Forwarded, Ports!Target, Ports!Entry
<1>3. /\ forwards \in Seq(Forwarded) /\ rest \in Seq(Ports!Entry) /\ raw \in Seq(Ports!Entry)
      /\ n \in Nat /\ Len(rest) \in Nat /\ Len(raw) = 0 /\ Len(rest) > 0
      /\ Len(rest) + n <= MaxLength /\ MaxLength \in Nat
  BY PortsAssumption DEF PortsInv
<1>4. /\ forwards' \in Seq(Forwarded) /\ Len(forwards') = n + 1
      /\ \A i \in 1..n : forwards'[i] = forwards[i]
      /\ forwards'[n + 1] = f /\ DOMAIN forwards' = 1..(n + 1) /\ DOMAIN forwards = 1..n
  BY <1>1, <1>2, <1>3
<1>5. /\ rest' \in Seq(Ports!Entry) /\ Len(rest') = Len(rest) - 1
      /\ DOMAIN rest' = 1..(Len(rest) - 1) /\ DOMAIN rest = 1..Len(rest)
      /\ \A i \in DOMAIN rest' : rest'[i] = rest[i + 1] /\ i + 1 \in DOMAIN rest
      /\ rest[1] = e /\ 1 \in DOMAIN rest
  BY <1>3
<1>6. \A i \in 1..n : forwards[i].local # p
  BY <1>4 DEF Ports!Used
<1>7. \A i, k \in DOMAIN forwards' : forwards'[i].local = forwards'[k].local => i = k
  <2>1. ASSUME NEW i \in 1..(n + 1), NEW k \in 1..(n + 1), forwards'[i].local = forwards'[k].local
        PROVE  i = k
    <3>1. CASE i \in 1..n /\ k \in 1..n
      BY <1>4, <2>1, <3>1 DEF PortsInv
    <3>2. CASE i = n + 1
      BY <1>2, <1>3, <1>4, <1>6, <2>1, <3>2
    <3>3. CASE k = n + 1
      BY <1>2, <1>3, <1>4, <1>6, <2>1, <3>3
    <3> QED BY <1>3, <3>1, <3>2, <3>3
  <2> QED BY <1>4, <2>1
<1>8. ASSUME ~listed PROVE NoneTwice'
  <2>1. NoneTwice
    BY <1>8 DEF PortsInv
  <2>2. \A i, k \in DOMAIN rest' : Ports!Target(rest'[i]) = Ports!Target(rest'[k]) => i = k
    <3>1. ASSUME NEW i \in DOMAIN rest', NEW k \in DOMAIN rest',
                 Ports!Target(rest'[i]) = Ports!Target(rest'[k])
          PROVE  i = k
      <4>1. i + 1 = k + 1
        BY <1>5, <2>1, <3>1 DEF NoneTwice
      <4> QED BY <1>3, <1>5, <4>1
    <3> QED BY <3>1
  <2>3. \A k \in DOMAIN rest' : Ports!Target(rest'[k]) # Ports!Target(e)
    <3>1. ASSUME NEW k \in DOMAIN rest', Ports!Target(rest'[k]) = Ports!Target(e) PROVE FALSE
      <4>1. k + 1 = 1
        BY <1>5, <2>1, <3>1 DEF NoneTwice
      <4> QED BY <1>3, <1>5, <4>1
    <3> QED BY <3>1
  <2>0. \A i \in DOMAIN forwards, k \in DOMAIN rest :
           Ports!Target(forwards[i]) # Ports!Target(rest[k])
    BY <2>1 DEF NoneTwice
  <2>4. ASSUME NEW i \in 1..n PROVE Ports!Target(forwards[i]) # Ports!Target(e)
    <3>1. i \in DOMAIN forwards /\ 1 \in DOMAIN rest /\ rest[1] = e
      BY <1>4, <1>5
    <3>2. Ports!Target(forwards[i]) # Ports!Target(rest[1])
      BY <2>0, <3>1
    <3> QED BY <3>1, <3>2
  <2>5. \A i \in 1..(n + 1), k \in DOMAIN rest' :
           Ports!Target(forwards'[i]) # Ports!Target(rest'[k])
    <3>1. ASSUME NEW i \in 1..n, NEW k \in DOMAIN rest'
          PROVE  Ports!Target(forwards'[i]) # Ports!Target(rest'[k])
      <4>1. i \in DOMAIN forwards /\ k + 1 \in DOMAIN rest
        BY <1>4, <1>5
      <4>2. Ports!Target(forwards[i]) # Ports!Target(rest[k + 1])
        BY <2>0, <4>1
      <4>3. forwards'[i] = forwards[i] /\ rest'[k] = rest[k + 1]
        BY <1>4, <1>5
      <4> QED BY <4>2, <4>3
    <3> QED BY <1>2, <1>3, <1>4, <2>3, <3>1
  <2>6. ASSUME NEW i \in 1..(n + 1), NEW k \in 1..(n + 1),
               Ports!Target(forwards'[i]) = Ports!Target(forwards'[k])
        PROVE  i = k
    <3>1. CASE i \in 1..n /\ k \in 1..n
      BY <1>4, <2>1, <2>6, <3>1 DEF NoneTwice
    <3>2. CASE i = n + 1
      BY <1>2, <1>3, <1>4, <2>4, <2>6, <3>2
    <3>3. CASE k = n + 1
      BY <1>2, <1>3, <1>4, <2>4, <2>6, <3>3
    <3> QED BY <1>3, <3>1, <3>2, <3>3
  <2>7. /\ \A i \in DOMAIN forwards', k \in DOMAIN rest' :
              Ports!Target(forwards'[i]) # Ports!Target(rest'[k])
        /\ \A i, k \in DOMAIN forwards' :
              Ports!Target(forwards'[i]) = Ports!Target(forwards'[k]) => i = k
    BY <1>4, <2>5, <2>6
  <2> QED BY <2>2, <2>7 DEF NoneTwice, Ports!Target
<1>9. Len(raw') + Len(rest') + Len(forwards') <= MaxLength
  BY <1>3, <1>4, <1>5
<1> QED BY <1>3, <1>4, <1>5, <1>7, <1>8, <1>9 DEF PortsInv

LEMMA NormalizeKeeps ==
    ASSUME PortsInv, Ports!Normalize
    PROVE  PortsInv'
<1> DEFINE n == Len(rest)
<1>1. PICK e : e = Head(raw)
  OBVIOUS
<1>2. /\ raw \in Seq(Ports!Entry) /\ raw # <<>> /\ raw' = Tail(raw)
      /\ rest \in Seq(Ports!Entry) /\ n \in Nat /\ DOMAIN rest = 1..n
      /\ forwards = <<>> /\ UNCHANGED <<listed, mode, forwards, failed>>
      /\ Len(raw) + n + Len(forwards) <= MaxLength
  BY DEF PortsInv, Ports!Normalize
<1>3. /\ e \in Ports!Entry /\ raw' \in Seq(Ports!Entry) /\ Len(raw') = Len(raw) - 1
      /\ Len(raw) \in Nat /\ Len(forwards) = 0 /\ MaxLength \in Nat
  BY <1>1, <1>2, PortsAssumption
<1>4. CASE rest' = rest
  BY <1>2, <1>3, <1>4 DEF PortsInv, NoneTwice, Ports!Target
<1>5. CASE rest' = Append(rest, e) /\ \A i \in DOMAIN rest : Ports!Target(rest[i]) # Ports!Target(e)
  <2>1. /\ rest' \in Seq(Ports!Entry) /\ Len(rest') = n + 1 /\ rest'[n + 1] = e
        /\ \A i \in 1..n : rest'[i] = rest[i] /\ DOMAIN rest' = 1..(n + 1)
    BY <1>2, <1>3, <1>5
  <2>2. ASSUME ~listed PROVE NoneTwice'
    <3>1. NoneTwice /\ DOMAIN forwards' = {}
      BY <1>2, <2>2 DEF PortsInv
    <3>2. ASSUME NEW i \in 1..(n + 1), NEW k \in 1..(n + 1),
                 Ports!Target(rest'[i]) = Ports!Target(rest'[k])
          PROVE  i = k
      <4>1. CASE i \in 1..n /\ k \in 1..n
        BY <1>2, <2>1, <3>1, <3>2, <4>1 DEF NoneTwice
      <4>2. CASE i = n + 1
        BY <1>2, <1>5, <2>1, <3>2, <4>2
      <4>3. CASE k = n + 1
        BY <1>2, <1>5, <2>1, <3>2, <4>3
      <4> QED BY <1>2, <4>1, <4>2, <4>3
    <3>3. DOMAIN rest' = 1..(n + 1)
      BY <1>2, <1>3, <1>5
    <3> QED BY <3>1, <3>2, <3>3 DEF NoneTwice, Ports!Target
  <2>3. Len(raw') + Len(rest') + Len(forwards') <= MaxLength
    BY <1>2, <1>3, <2>1
  <2> QED BY <1>2, <1>3, <2>1, <2>2, <2>3 DEF PortsInv
<1> QED BY <1>1, <1>4, <1>5 DEF Ports!Normalize

LEMMA PortsKeep == PortsInv /\ (Ports!Next \/ UNCHANGED portVars) => PortsInv'
<1> SUFFICES ASSUME PortsInv, Ports!Next \/ UNCHANGED portVars PROVE PortsInv'
  OBVIOUS
<1>1. CASE UNCHANGED portVars
  BY <1>1 DEF portVars, PortsInv, NoneTwice, Ports!Target
<1>2. CASE Ports!Normalize
  BY <1>2, NormalizeKeeps
<1>3. ASSUME rest # <<>> PROVE Head(rest) \in Ports!Entry /\ Len(rest) > 0
  BY <1>3 DEF PortsInv
<1>4. CASE Ports!GivePort
  <2>1. PICK e : e = Head(rest)
    OBVIOUS
  <2>2. PICK p \in Ports!Allocate(e) : forwards' = Append(forwards, Ports!Forward(e, p))
    BY <1>4, <2>1 DEF Ports!GivePort
  <2>3. rest # <<>> /\ raw = <<>> /\ rest' = Tail(rest) /\ UNCHANGED <<raw, listed>>
    BY <1>4 DEF Ports!GivePort
  <2>4. e \in Ports!Entry
    BY <1>3, <2>1, <2>3
  <2>5. forwards \in Seq(Forwarded) /\ Len(forwards) < MaxLength
    <3>1. Len(rest) > 0 /\ Len(rest) \in Nat /\ Len(raw) = 0 /\ Len(forwards) \in Nat
          /\ MaxLength \in Nat
      BY <1>3, <2>3, PortsAssumption DEF PortsInv
    <3> QED BY <3>1 DEF PortsInv
  <2>6. p \notin Ports!Used /\ p \in Port \cup RandomLo..RandomHi \cup RandomLo..Top
    BY <2>2, <2>4, <2>5, AllocatedIsFree
  <2> QED BY <2>1, <2>2, <2>3, <2>4, <2>6, ForwardsGrow
<1>5. CASE Ports!TakeEntry
  <2>1. PICK e : e = Head(rest)
    OBVIOUS
  <2>2. PICK p \in Ports!Listed(e) :
            IF p \in Ports!Used
              THEN failed' = TRUE /\ UNCHANGED <<rest, forwards>>
              ELSE /\ forwards' = Append(forwards, Ports!Forward(e, p))
                   /\ rest' = Tail(rest) /\ UNCHANGED failed
    BY <1>5, <2>1 DEF Ports!TakeEntry
  <2>3. listed /\ rest # <<>> /\ UNCHANGED <<raw, listed, mode>>
    BY <1>5 DEF Ports!TakeEntry
  <2>4. CASE p \in Ports!Used
    BY <2>2, <2>3, <2>4 DEF PortsInv, NoneTwice, Ports!Target
  <2>5. CASE p \notin Ports!Used
    <3>1. e \in Ports!Entry
      BY <1>3, <2>1, <2>3
    <3>2. p \in Port \cup RandomLo..RandomHi \cup RandomLo..Top
      BY <3>1 DEF Ports!Listed, Ports!Entry
    <3>3. raw = <<>>
      BY <2>3 DEF PortsInv
    <3> QED BY <2>1, <2>2, <2>3, <2>5, <3>1, <3>2, <3>3, ForwardsGrow
  <2> QED BY <2>4, <2>5
<1> QED BY <1>1, <1>2, <1>4, <1>5 DEF Ports!Next

LEMMA InitPorts == GatewayInit => PortsInv
<1> SUFFICES ASSUME GatewayInit PROVE PortsInv
  OBVIOUS
<1>1. CASE Ports!Init
  <2>1. PICK given \in Ports!SeqOf({e \in Ports!Entry : listed \/ e.asked = None}, MaxLength) :
            IF listed THEN raw = <<>> /\ rest = given ELSE raw = given /\ rest = <<>>
    BY <1>1 DEF Ports!Init
  <2>2. given \in Seq(Ports!Entry) /\ Len(given) <= MaxLength /\ Len(given) \in Nat
    <3>1. PICK m \in 0..MaxLength : given \in [1..m -> {e \in Ports!Entry : listed \/ e.asked = None}]
      BY DEF Ports!SeqOf
    <3>2. m \in Nat /\ m <= MaxLength
      BY <3>1, PortsAssumption
    <3>3. given \in [1..m -> Ports!Entry]
      BY <3>1
    <3>4. given \in Seq(Ports!Entry)
      BY <3>2, <3>3
    <3>5. Len(given) = m
      BY <3>2, <3>3
    <3> QED BY <3>2, <3>4, <3>5
  <2>3. PICK none : none = <<>>
    OBVIOUS
  <2>4. /\ none \in Seq(Ports!Entry) /\ none \in Seq(Forwarded) /\ Len(none) = 0
        /\ DOMAIN none = {} /\ forwards = none
    BY <1>1, <2>3 DEF Ports!Init
  <2>5. CASE listed /\ raw = none /\ rest = given
    BY <2>2, <2>3, <2>4, <2>5 DEF PortsInv
  <2>6. CASE ~listed /\ raw = given /\ rest = none
    BY <2>2, <2>3, <2>4, <2>6 DEF PortsInv, NoneTwice
  <2> QED BY <2>1, <2>3, <2>5, <2>6
<1>2. CASE raw = <<>> /\ rest = <<>> /\ forwards = <<>>
  BY <1>2, PortsAssumption DEF PortsInv, NoneTwice
<1> QED BY <1>1, <1>2 DEF GatewayInit

\* The gateway moves one part at a time.
LEMMA GatewayMovesPorts ==
    [GatewayNext]_<<part, vars, vpnVars, tunnelVars, portVars, certVars>>
        => Ports!Next \/ UNCHANGED portVars
BY DEF GatewayNext

\* ssh_tunnel.py: no two forwards of a client configuration have one local port,
\* whichever ports are asked for or drawn, as long as no user has more destinations
\* than there are ports to search; and none of the registry is forwarded twice.
THEOREM GatewayForwardsOpen == GatewaySpec => []ForwardsOpen
<1>1. PortsInv /\ [GatewayNext]_<<part, vars, vpnVars, tunnelVars, portVars, certVars>> => PortsInv'
  BY PortsKeep, GatewayMovesPorts
<1>2. PortsInv => ForwardsOpen
  BY DEF PortsInv, NoneTwice, ForwardsOpen, Ports!ForwardsOpen
<1> QED BY <1>1, <1>2, InitPorts, PTL DEF GatewaySpec
=============================================================================

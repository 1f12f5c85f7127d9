------------------------------ MODULE ToolsProofs ------------------------------
(***************************************************************************)
(* What holds of the smaller commands, for every number of clusters,       *)
(* machines, plugins, words and zones: each has its own specification     *)
(* and an inductive invariant that says what the command has learnt so far *)
(* and may therefore say or do at its end.                                 *)
(***************************************************************************)
EXTENDS ClusterHealth, ReleaseFetch, Upgrade, TalosOps, PluginList, PluginDispatch,
        ZoneSettings, FiniteSetTheorems, SequenceTheorems, WellFoundedInduction, TLAPS

-----------------------------------------------------------------------------
(***************************************************************************)
(* Numbers: a least one, a greatest one, and induction.                    *)
(***************************************************************************)

\* A set of numbers that is not empty has a least one.
LEMMA Smallest ==
    ASSUME NEW T \in SUBSET Nat, T # {}
    PROVE  \E x \in T : \A y \in T : x <= y
  <1>. DEFINE R == OpToRel(<, Nat)
  <1>1. IsWellFoundedOn(R, Nat)
    BY NatLessThanWellFounded
  <1>2. \A x, y \in Nat : y < x => <<y, x>> \in R
    BY DEF OpToRel
  <1>. HIDE DEF R
  <1>3. PICK x \in T : \A y \in T : ~ (<<y, x>> \in R)
    BY <1>1, WFMin
  <1>4. ASSUME NEW y \in T PROVE x <= y
    <2>1. ~(y < x)
      BY <1>2, <1>3
    <2>. QED BY <2>1
  <1>. QED BY <1>4
\* Induction, for what a set says of each number.
LEMMA EachNumber ==
    ASSUME NEW T, 0 \in T, \A n \in Nat : n \in T => n + 1 \in T
    PROVE  \A n \in Nat : n \in T
  <1>. DEFINE U == {n \in Nat : n \notin T}
  <1>1. SUFFICES ASSUME U # {} PROVE FALSE
    OBVIOUS
  <1>2. PICK x \in U : \A y \in U : x <= y
    <2>. HIDE DEF U
    <2>1. U \in SUBSET Nat
      BY DEF U
    <2>. QED BY <1>1, <2>1, Smallest
  <1>3. x # 0 /\ x - 1 \in Nat /\ x - 1 \notin U
    BY <1>2
  <1>4. x - 1 \in T
    BY <1>3
  <1>5. (x - 1) + 1 \in T
    BY <1>3, <1>4
  <1>. QED BY <1>2, <1>5

\* The greatest of a set of numbers with a bound.
LEMMA Greatest ==
    ASSUME NEW n \in Nat, NEW T \in SUBSET 0..n, T # {}
    PROVE  \E x \in T : \A y \in T : y <= x
  <1>. DEFINE U == {n - x : x \in T}
  <1>1. U \in SUBSET Nat /\ U # {}
    <2>1. \A x \in T : n - x \in Nat
      OBVIOUS
    <2>2. PICK x : x \in T
      OBVIOUS
    <2>3. n - x \in U
      BY <2>2
    <2>. QED BY <2>1, <2>3
  <1>2. \E u \in U : \A v \in U : u <= v
    <2>. HIDE DEF U
    <2>. QED BY <1>1, Smallest
  <1>3. PICK x \in T : \A y \in T : n - x <= n - y
    BY <1>2
  <1>4. \A y \in T : y <= x
    BY <1>3
  <1>. QED BY <1>4

-----------------------------------------------------------------------------
(***************************************************************************)
(* Health checks (ClusterHealth).                                          *)
(***************************************************************************)

RowSteps == {"secret", "probe", "nodes", "done"}
Row == [at : RowSteps, ok : BOOLEAN, todo : SUBSET {"/readyz", "/livez", "/healthz"}]

HealthTypeOK ==
    /\ check \in Checks
    /\ vault \in [Guests -> Vaults]
    /\ nodes \in [Guests -> SUBSET NodeStates]
    /\ server \in [Guests -> BOOLEAN]
    /\ row \in [Guests -> Row]
    /\ exit \in {"running", "healthy", "unhealthy"}
    /\ answers \in [Guests -> SUBSET {"200", "500", "lost"}]

\* The secret of c has a kubeconfig, and there is no doubt that it is c's.
OwnSecret(c) ==
    \/ vault[c].named = "valid"
    \/ vault[c].named = "absent" /\ vault[c].labelled = {"valid"}

\* What a check that has found nothing wrong so far has seen.
RowTrue(c) ==
    /\ row[c].at = "secret" => answers[c] = {}
    /\ row[c].at = "probe" => row[c].todo # {} /\ (row[c].todo = Paths \/ answers[c] # {})
    /\ row[c].ok /\ row[c].at # "secret" => OwnSecret(c)
    /\ row[c].ok => answers[c] \subseteq {"200"}
    /\ row[c].ok /\ row[c].at \in {"nodes", "done"} => answers[c] # {}
    /\ row[c].ok /\ row[c].at = "done" /\ check.what = "full" => AllReady(nodes[c])

HealthInv ==
    /\ HealthTypeOK
    /\ \A c \in Guests : RowTrue(c)
    /\ exit = "healthy" => \A c \in check.of : row[c].at = "done" /\ row[c].ok

\* The kubeconfig that a check goes on with is the one of a secret that is the
\* cluster's own (FindClusterSecret).
LEMMA OwnKubeConfig ==
    ASSUME HealthTypeOK, NEW c \in Guests, "valid" \in FindClusterSecret(c)
    PROVE  OwnSecret(c)
  <1>1. vault[c] \in Vaults
    BY DEF HealthTypeOK
  <1>2. CASE vault[c].named # "absent"
    BY <1>2 DEF FindClusterSecret, OwnSecret
  <1>3. CASE vault[c].named = "absent"
    <2>1. /\ Cardinality(vault[c].labelled) = 1
          /\ "valid" \in vault[c].labelled
      BY <1>3 DEF FindClusterSecret
    <2>2. vault[c].labelled \in SUBSET KubeConfigs
      BY <1>1 DEF Vaults
    <2>3. IsFiniteSet(vault[c].labelled)
      <3>1. IsFiniteSet({"useless"} \cup {"valid"})
        BY FS_Singleton, FS_AddElement
      <3>2. KubeConfigs = {"useless"} \cup {"valid"}
        BY DEF KubeConfigs
      <3>. QED BY <2>2, <3>1, <3>2, FS_Subset
    <2>4. PICK k : vault[c].labelled = {k}
      BY <2>1, <2>3, FS_Singleton
    <2>5. vault[c].labelled = {"valid"}
      BY <2>1, <2>4
    <2>. QED BY <1>3, <2>5 DEF OwnSecret
  <1>. QED BY <1>2, <1>3

\* Nothing has been asked when a check starts.
LEMMA HealthStarts == HealthInit => HealthInv
  <1>. SUFFICES ASSUME HealthInit PROVE HealthInv
    OBVIOUS
  <1>1. HealthTypeOK
    BY DEF HealthInit, HealthTypeOK, Row, RowSteps
  <1>2. \A c \in Guests : row[c] = [at |-> "secret", ok |-> TRUE, todo |-> {}] /\ answers[c] = {}
    BY DEF HealthInit
  <1>3. exit # "healthy"
    BY DEF HealthInit
  <1>. QED BY <1>1, <1>2, <1>3 DEF HealthInv, RowTrue

\* A check that goes on leaves those of other clusters alone.
LEMMA HealthStep ==
    ASSUME HealthInv, [HealthNext]_healthVars
    PROVE  HealthInv'
  <1>. USE DEF HealthInv
  <1>p. Paths \subseteq {"/readyz", "/livez", "/healthz"} /\ Paths # {}
    BY DEF Paths, HealthTypeOK, Checks
  <1>q. UNCHANGED check => Paths' = Paths
    BY DEF Paths
  <1>0. ASSUME NEW c \in Guests, NEW r \in Row, NEW A \in SUBSET {"200", "500", "lost"},
               row[c].at # "done",
               row' = [row EXCEPT ![c] = r],
               answers' = [answers EXCEPT ![c] = A],
               UNCHANGED <<check, vault, nodes, server, exit>>,
               RowTrue(c)'
        PROVE  HealthInv'
    <2>1. HealthTypeOK'
      BY <1>0 DEF HealthTypeOK
    <2>2. ASSUME NEW d \in Guests \ {c} PROVE RowTrue(d)'
      <3>1. row'[d] = row[d] /\ answers'[d] = answers[d]
        BY <1>0, <2>2 DEF HealthTypeOK
      <3>2. RowTrue(d)
        BY <2>2
      <3>. QED BY <1>0, <1>q, <3>1, <3>2 DEF RowTrue, OwnSecret
    <2>3. exit' = "healthy" => \A d \in check'.of : row'[d].at = "done" /\ row'[d].ok
      <3>. SUFFICES ASSUME exit' = "healthy", NEW d \in check'.of
                    PROVE  row'[d].at = "done" /\ row'[d].ok
        OBVIOUS
      <3>1. row[d].at = "done" /\ row[d].ok
        BY <1>0
      <3>2. d # c
        BY <1>0, <3>1
      <3>. QED BY <1>0, <3>1, <3>2 DEF HealthTypeOK
    <2>. QED BY <1>0, <2>1, <2>2, <2>3
  <1>s. \A c \in Guests : row[c] \in Row /\ answers[c] \in SUBSET {"200", "500", "lost"}
    BY DEF HealthTypeOK
  <1>f. ASSUME NEW c \in Guests, Fails(c), row[c].at # "done",
               UNCHANGED <<check, vault, nodes, server, exit, answers>>
        PROVE  HealthInv'
    <2>. DEFINE r == [row[c] EXCEPT !.ok = FALSE, !.at = "done"]
    <2>1. r \in Row /\ r.ok = FALSE /\ r.at = "done"
      BY <1>s DEF Row, RowSteps
    <2>2. row' = [row EXCEPT ![c] = r]
      BY <1>f DEF Fails, HealthTypeOK
    <2>3. answers' = [answers EXCEPT ![c] = answers[c]]
      BY <1>f DEF HealthTypeOK
    <2>. HIDE DEF r
    <2>4. row'[c] = r
      BY <2>2 DEF HealthTypeOK
    <2>5. RowTrue(c)'
      BY <2>1, <2>4 DEF RowTrue
    <2>. QED BY <1>0, <1>f, <1>s, <2>1, <2>2, <2>3, <2>5
  <1>1. ASSUME NEW c \in Guests, ReadKubeConfig(c) PROVE HealthInv'
    <2>1. CASE Fails(c)
      BY <1>1, <1>f, <2>1 DEF ReadKubeConfig
    <2>2. CASE "valid" \in FindClusterSecret(c) /\ row' = [row EXCEPT ![c].at = "probe", ![c].todo = Paths]
      <3>. DEFINE r == [row[c] EXCEPT !.at = "probe", !.todo = Paths]
      <3>1. r \in Row /\ r.at = "probe" /\ r.todo = Paths /\ r.ok = row[c].ok
        BY <1>s, <1>p DEF Row, RowSteps
      <3>2. row' = [row EXCEPT ![c] = r]
        BY <2>2 DEF HealthTypeOK
      <3>3. answers' = [answers EXCEPT ![c] = answers[c]]
        BY <1>1 DEF ReadKubeConfig, HealthTypeOK
      <3>. HIDE DEF r
      <3>4. row'[c] = r /\ answers'[c] = answers[c] /\ row[c].at = "secret"
        BY <3>2, <3>3, <1>1 DEF HealthTypeOK, ReadKubeConfig
      <3>5. OwnSecret(c)'
        BY <1>1, <2>2, OwnKubeConfig DEF OwnSecret, ReadKubeConfig
      <3>6. RowTrue(c)
        OBVIOUS
      <3>7. UNCHANGED <<check, vault, nodes, server, exit>>
        BY <1>1 DEF ReadKubeConfig
      <3>8. RowTrue(c)'
        BY <1>p, <1>q, <3>1, <3>4, <3>5, <3>6, <3>7 DEF RowTrue
      <3>. QED BY <1>0, <1>s, <3>1, <3>2, <3>3, <3>4, <3>7, <3>8
    <2>3. Fails(c) \/ ("valid" \in FindClusterSecret(c) /\ row' = [row EXCEPT ![c].at = "probe", ![c].todo = Paths])
      BY <1>1 DEF ReadKubeConfig
    <2>. QED BY <2>1, <2>2, <2>3
  <1>2. ASSUME NEW c \in Guests, NEW path \in Paths, CheckEndpoint(c, path) PROVE HealthInv'
    <2>1. PICK answer \in {"lost", IF server[c] THEN "200" ELSE "500"} :
            /\ row' = [row EXCEPT ![c].ok = @ /\ answer = "200", ![c].todo = @ \ {path},
                                  ![c].at = AfterProbes(c, row[c].todo \ {path})]
            /\ answers' = [answers EXCEPT ![c] = @ \cup {answer}]
      BY <1>2 DEF CheckEndpoint
    <2>. DEFINE left == row[c].todo \ {path}
                next == AfterProbes(c, left)
                r == [row[c] EXCEPT !.ok = @ /\ answer = "200", !.todo = left, !.at = next]
                A == answers[c] \cup {answer}
    <2>2. left \subseteq {"/readyz", "/livez", "/healthz"} /\ next \in RowSteps
      BY <1>s DEF Row, RowSteps, AfterProbes
    <2>3. r \in Row
      <3>. HIDE DEF left, next
      <3>. QED BY <1>s, <2>2 DEF Row
    <2>4. row' = [row EXCEPT ![c] = r]
      BY <2>1 DEF HealthTypeOK
    <2>5. answers' = [answers EXCEPT ![c] = A] /\ A \in SUBSET {"200", "500", "lost"} /\ A # {}
      BY <1>s, <2>1 DEF HealthTypeOK
    <2>6. /\ next = "probe" => left # {}
          /\ next # "secret"
          /\ next = "done" => check.what # "full"
      BY DEF AfterProbes
    <2>7. UNCHANGED <<check, vault, nodes, server, exit>> /\ row[c].at = "probe" /\ RowTrue(c)
      BY <1>2 DEF CheckEndpoint
    <2>8. r.at = next /\ r.todo = left /\ (r.ok => row[c].ok /\ answer = "200")
      <3>. HIDE DEF left, next
      <3>. QED BY <1>s DEF Row
    <2>9. row[c].ok /\ answer = "200" => A \subseteq {"200"}
      BY <2>7 DEF RowTrue
    <2>. HIDE DEF r, A, next, left
    <2>10. row'[c] = r /\ answers'[c] = A
      BY <2>4, <2>5 DEF HealthTypeOK
    <2>11. RowTrue(c)'
      BY <2>5, <2>6, <2>7, <2>8, <2>9, <2>10 DEF RowTrue, OwnSecret
    <2>. QED BY <1>0, <2>3, <2>4, <2>5, <2>7, <2>11
  <1>3. ASSUME NEW c \in Guests, CheckNodes(c) PROVE HealthInv'
    <2>1. CASE Fails(c)
      BY <1>3, <1>f, <2>1 DEF CheckNodes
    <2>2. CASE row' = [row EXCEPT ![c].ok = @ /\ AllReady(nodes[c]), ![c].at = "done"]
      <3>. DEFINE r == [row[c] EXCEPT !.ok = @ /\ AllReady(nodes[c]), !.at = "done"]
      <3>1. r \in Row /\ r.at = "done" /\ (r.ok => row[c].ok /\ AllReady(nodes[c]))
        BY <1>s DEF Row, RowSteps, AllReady
      <3>2. row' = [row EXCEPT ![c] = r]
        BY <2>2 DEF HealthTypeOK
      <3>3. answers' = [answers EXCEPT ![c] = answers[c]]
        BY <1>3 DEF CheckNodes, HealthTypeOK
      <3>. HIDE DEF r
      <3>4. row'[c] = r /\ answers'[c] = answers[c] /\ row[c].at = "nodes"
        BY <3>2, <3>3, <1>3 DEF HealthTypeOK, CheckNodes
      <3>5. UNCHANGED <<check, vault, nodes, server, exit>> /\ RowTrue(c)
        BY <1>3 DEF CheckNodes
      <3>6. RowTrue(c)'
        BY <3>1, <3>4, <3>5 DEF RowTrue, OwnSecret, AllReady
      <3>. QED BY <1>0, <1>s, <3>1, <3>2, <3>3, <3>4, <3>5, <3>6
    <2>. QED BY <1>3, <2>1, <2>2 DEF CheckNodes
  <1>4. ASSUME UNCHANGED <<check, vault, nodes, row, answers>>,
               exit' = exit \/ (exit' \in {"healthy", "unhealthy"}
                                /\ (exit' = "healthy" => \A c \in check.of : row[c].at = "done" /\ row[c].ok)),
               server' \in [Guests -> BOOLEAN]
        PROVE  HealthInv'
    <2>1. HealthTypeOK'
      BY <1>4 DEF HealthTypeOK
    <2>2. \A c \in Guests : RowTrue(c)'
      BY <1>4, <1>q DEF RowTrue, OwnSecret
    <2>. QED BY <1>4, <2>1, <2>2
  <1>5. CASE Verdict
    BY <1>4, <1>5 DEF Verdict, HealthTypeOK
  <1>6. ASSUME NEW c \in Guests, ServerTurns(c) PROVE HealthInv'
    BY <1>4, <1>6 DEF ServerTurns, HealthTypeOK
  <1>7. CASE UNCHANGED healthVars
    BY <1>4, <1>7 DEF healthVars, HealthTypeOK
  <1>. QED BY <1>1, <1>2, <1>3, <1>5, <1>6, <1>7 DEF HealthNext

\* A command that says healthy has had an answer of 200, and no other, of every
\* cluster it was given, through the cluster's own secret; and of a full check all
\* nodes are ready (health.go): for every number of clusters, and however often
\* their servers fall ill and recover meanwhile.
THEOREM HealthyMeansHealthy == HealthSpec => []HealthyIsHealthy
  <1>1. HealthInv => HealthyIsHealthy
    <2>. SUFFICES ASSUME HealthInv, exit = "healthy", NEW c \in check.of
                  PROVE  /\ answers[c] = {"200"}
                         /\ OwnSecret(c)
                         /\ check.what = "full" => nodes[c] # {} /\ nodes[c] \cap {"unset", "False"} = {}
      BY DEF HealthyIsHealthy, OwnSecret
    <2>1. row[c].at = "done" /\ row[c].ok
      BY DEF HealthInv
    <2>2. c \in Guests
      BY DEF HealthInv, HealthTypeOK, Checks
    <2>3. RowTrue(c)
      BY <2>2 DEF HealthInv
    <2>. QED BY <2>1, <2>3 DEF RowTrue, AllReady
  <1>. QED BY <1>1, HealthStarts, HealthStep, PTL DEF HealthSpec

-----------------------------------------------------------------------------
(***************************************************************************)
(* Fetching a plugin (ReleaseFetch).                                       *)
(***************************************************************************)

Awaited == {"latest", "archive", "sums", "compare", "bundle", "verify", "extract"}
Arrivals == {"as published", "damaged", "nothing"}

FetchTypeOK ==
    /\ site \in Site
    /\ step \in [at : {"index"} \cup Awaited \cup FetchEnded, i : 1..Sources + 1]
    /\ indexes \in [1..Sources -> IndexKinds]
    /\ entry \in 0..Sources
    /\ late \in 1..Sources + 1
    /\ got \in [Assets -> Arrivals]
    /\ spoiled \in BOOLEAN

\* The entry is from the last of the indexes read so far that lists the plugin:
\* of those read before the time was up.
EntryIsLast ==
    /\ \A j \in InTime : j < step.i /\ Lists(indexes[j]) => j <= entry
    /\ late <= Sources => late < step.i
    /\ entry < step.i
    /\ step.at \in Awaited \cup {"installed"} => step.i = Sources + 1

\* What has come when it is looked at, and why it was asked for.
Arrived ==
    /\ step.at \in {"sums", "compare", "bundle", "verify", "extract"} => got["archive"] # "nothing"
    /\ step.at = "compare" => got["sums"] # "nothing"
    /\ step.at = "verify" => got["bundle"] # "nothing"
    /\ step.at \in {"bundle", "verify"} => ~site.skipCosign

\* What has been verified when the archive is unpacked.
Verified ==
    /\ step.at \in {"bundle", "verify", "extract", "installed"} /\ ~site.skipChecksum =>
         got["archive"] = "as published"
    /\ step.at \in {"verify", "extract", "installed"} /\ ~site.skipCosign => site.complete
    /\ step.at \in {"extract", "installed"} /\ ~site.skipCosign /\ site.cosign =>
         got["archive"] = "as published"

FetchInv == FetchTypeOK /\ EntryIsLast /\ Arrived /\ Verified /\ PublicPluginsInstall

\* Time is up at an index, or after the last.
LEMMA InTimeAre ==
    ASSUME FetchTypeOK
    PROVE  InTime \subseteq 1..Sources
  BY FetchAssumption DEF FetchTypeOK, InTime

\* An install starts with nothing fetched.
LEMMA FetchStarts == FetchInit => FetchInv
  <1>. SUFFICES ASSUME FetchInit PROVE FetchInv
    OBVIOUS
  <1>1. 1 \in 1..Sources + 1 /\ 0 \in 0..Sources /\ Sources + 1 \in 1..Sources + 1
    BY FetchAssumption
  <1>2. /\ step \in [at : {"index"} \cup Awaited \cup FetchEnded, i : 1..Sources + 1]
        /\ step.at = "index" /\ step.i = 1
    BY <1>1 DEF FetchInit
  <1>3. FetchTypeOK
    BY <1>1, <1>2 DEF FetchInit, FetchTypeOK, Arrivals
  <1>4. EntryIsLast
    BY <1>2, FetchAssumption DEF EntryIsLast, InTime, Awaited, FetchInit
  <1>5. Arrived /\ Verified /\ PublicPluginsInstall
    BY <1>2 DEF Arrived, Verified, PublicPluginsInstall
  <1>. QED BY <1>3, <1>4, <1>5 DEF FetchInv

\* A public repository is answered about without a token.
LEMMA PublicAnswers ==
    ASSUME FetchTypeOK, site.public
    PROVE  /\ getWithAnonymousFallback \subseteq {"ok", "limited"}
           /\ Answers(site.token) \subseteq {"200", "401", "403", "limited 403", "limited 429"}
  <1>1. site.token \in AllTokens
    BY FetchAssumption DEF FetchTypeOK, Site
  <1>2. /\ Answers("none") = {"limited 403", "limited 429", "200"}
        /\ Answers("good") = {"limited 403", "limited 429", "200"}
        /\ Answers("stale") = {"401"} /\ Answers("denied") = {"403"}
    BY DEF Answers
  <1>3. Answers(site.token) \subseteq {"200", "401", "403", "limited 403", "limited 429"}
    BY <1>1, <1>2 DEF AllTokens
  <1>4. ASSUME NEW r \in getWithAnonymousFallback PROVE r \in {"ok", "limited"}
    <2>. DEFINE outcome(a) == IF a = "200" THEN "ok" ELSE IF a \in Limited THEN "limited" ELSE "refused"
    <2>1. PICK a \in Answers(site.token) :
            r \in (IF a \in {"401", "403"} THEN {outcome(b) : b \in Answers("none")} ELSE {outcome(a)})
      BY <1>4 DEF getWithAnonymousFallback
    <2>2. CASE a \in {"401", "403"}
      <3>1. PICK b \in Answers("none") : r = outcome(b)
        BY <2>1, <2>2
      <3>. QED BY <1>2, <3>1 DEF Limited
    <2>3. CASE a \notin {"401", "403"}
      <3>1. r = outcome(a) /\ a \in {"200", "limited 403", "limited 429"}
        BY <1>3, <2>1, <2>3
      <3>. QED BY <3>1 DEF Limited
    <2>. QED BY <2>2, <2>3
  <1>. QED BY <1>3, <1>4

\* ... and what it publishes comes, unless a download is answered 429.
LEMMA PublicAssetComes ==
    ASSUME FetchTypeOK, site.public, fetchAsset(FALSE)
    PROVE  spoiled'
  <1>1. /\ getWithAnonymousFallback \subseteq {"ok", "limited"}
        /\ Answers(site.token) \subseteq {"200", "401", "403", "limited 403", "limited 429"}
    BY PublicAnswers
  <1>2. Web
    BY DEF Web
  <1>. QED BY <1>1, <1>2 DEF fetchAsset

\* Going on keeps the place among the indexes.
LEMMA GotoType ==
    ASSUME FetchTypeOK, NEW s \in {"index"} \cup Awaited \cup FetchEnded, Goto(s)
    PROVE  /\ step' \in [at : {"index"} \cup Awaited \cup FetchEnded, i : 1..Sources + 1]
           /\ step'.at = s /\ step'.i = step.i
  BY DEF FetchTypeOK, Goto

\* The entry stays once the indexes have been read.
LEMMA EntryKept ==
    ASSUME FetchTypeOK, EntryIsLast, NEW s \in Awaited \cup FetchEnded, Goto(s),
           step.i = Sources + 1, UNCHANGED <<site, indexes, entry, late>>
    PROVE  EntryIsLast'
  <1>1. step'.at = s /\ step'.i = step.i
    BY GotoType
  <1>2. \A j \in InTime : Lists(indexes[j])' = Lists(indexes[j])
    BY DEF Lists, fetchIndexBody, getIndex
  <1>3. InTime' = InTime
    BY DEF InTime
  <1>. QED BY <1>1, <1>2, <1>3 DEF EntryIsLast

\* An asset that comes is there, damaged or not; one that does not come ends the
\* install, of a public plugin only for one of the reasons it may end for.
LEMMA DownloadStep ==
    ASSUME FetchInv, NEW asset \in Assets, NEW next \in Awaited, Download(asset, next),
           asset = "archive" => next \in {"sums", "bundle", "extract"}
                                 /\ (~site.skipChecksum <=> next = "sums")
                                 /\ (next = "bundle" => ~site.skipCosign)
                                 /\ (next = "extract" => site.skipCosign),
           asset = "sums" => next = "compare",
           asset = "bundle" => next = "verify"
    PROVE  FetchInv'
  <1>. USE DEF FetchInv
  <1>1. PICK yes \in BOOLEAN :
          /\ fetchAsset(yes)
          /\ IF yes /\ (asset = "bundle" => site.complete)
             THEN \E how \in {"as published", "damaged"} : got' = [got EXCEPT ![asset] = how] /\ Goto(next)
             ELSE Goto("failed") /\ UNCHANGED got
    BY DEF Download
  <1>2. step.at = asset /\ UNCHANGED <<site, indexes, entry, late>>
    BY DEF Download
  <1>3. step.i = Sources + 1
    BY <1>2 DEF EntryIsLast, Awaited, Assets
  <1>4. spoiled' \in BOOLEAN
    BY <1>1 DEF fetchAsset, FetchTypeOK
  <1>5. CASE yes /\ (asset = "bundle" => site.complete)
    <2>1. PICK how \in {"as published", "damaged"} : got' = [got EXCEPT ![asset] = how] /\ Goto(next)
      BY <1>1, <1>5
    <2>2. step'.at = next
      BY <2>1, GotoType
    <2>3. FetchTypeOK'
      BY <1>2, <1>4, <2>1, GotoType DEF FetchTypeOK, Arrivals
    <2>4. EntryIsLast'
      BY <1>2, <1>3, <2>1, EntryKept
    <2>5. got'[asset] = how /\ \A a \in Assets : a # asset => got'[a] = got[a]
      BY <2>1 DEF FetchTypeOK
    <2>6. Arrived'
      BY <1>2, <2>2, <2>5 DEF Arrived, Assets, Awaited
    <2>7. Verified'
      BY <1>2, <1>5, <2>2, <2>5 DEF Verified, Assets, Awaited
    <2>8. PublicPluginsInstall'
      BY <2>2 DEF PublicPluginsInstall, Awaited
    <2>. QED BY <2>3, <2>4, <2>6, <2>7, <2>8
  <1>6. CASE ~(yes /\ (asset = "bundle" => site.complete))
    <2>1. Goto("failed") /\ UNCHANGED got
      BY <1>1, <1>6
    <2>2. step'.at = "failed"
      BY <2>1, GotoType DEF FetchEnded
    <2>3. FetchTypeOK'
      BY <1>2, <1>4, <2>1, GotoType DEF FetchTypeOK, FetchEnded
    <2>4. EntryIsLast'
      BY <1>2, <1>3, <2>1, EntryKept DEF FetchEnded
    <2>5. Arrived' /\ Verified'
      BY <2>2 DEF Arrived, Verified
    <2>6. PublicPluginsInstall'
      <3>1. CASE ~site.public
        BY <1>2, <3>1 DEF PublicPluginsInstall
      <3>2. CASE site.public /\ ~yes
        <4>1. spoiled'
          BY <1>1, <3>2, PublicAssetComes
        <4>. QED BY <4>1 DEF PublicPluginsInstall
      <3>3. CASE asset = "bundle" /\ ~site.complete
        BY <1>2, <3>3 DEF PublicPluginsInstall, Arrived
      <3>. QED BY <1>6, <3>1, <3>2, <3>3
    <2>. QED BY <2>3, <2>4, <2>5, <2>6
  <1>. QED BY <1>5, <1>6

\* A step that neither reads an index nor downloads.
LEMMA GoesOn ==
    ASSUME FetchInv, NEW s \in Awaited \cup FetchEnded, Goto(s),
           step.i = Sources + 1, UNCHANGED <<site, indexes, entry, late, got, spoiled>>,
           Arrived', Verified',
           s = "failed" => \/ ~site.public
                           \/ \A i \in InTime : indexes[i] # "lists"
                           \/ \E a \in Assets : got[a] = "damaged"
    PROVE  FetchInv'
  <1>. USE DEF FetchInv
  <1>1. FetchTypeOK'
    BY GotoType DEF FetchTypeOK
  <1>2. EntryIsLast'
    BY EntryKept
  <1>3. PublicPluginsInstall'
    <2>1. step'.at = s /\ InTime' = InTime
      BY GotoType DEF InTime
    <2>. QED BY <2>1 DEF PublicPluginsInstall
  <1>. QED BY <1>1, <1>2, <1>3

\* Every step of an install keeps the invariant.
LEMMA FetchStep ==
    ASSUME FetchInv, [FetchNext]_fetchVars
    PROVE  FetchInv'
  <1>. USE DEF FetchInv
  <1>a. Sources \in Nat /\ site \in Site /\ step.i \in 1..Sources + 1
    BY FetchAssumption DEF FetchTypeOK
  <1>1. CASE ReadIndex
    <2>1. /\ step.at = "index" /\ step.i <= Sources
          /\ UNCHANGED <<site, indexes, got, spoiled>>
          /\ \/ late > Sources /\ late' = late
                /\ entry' = IF Lists(indexes[step.i]) THEN step.i ELSE entry
             \/ late' = (IF late > Sources THEN step.i ELSE late) /\ entry' = entry
          /\ step' = [step EXCEPT !.i = @ + 1]
      BY <1>1 DEF ReadIndex
    <2>2. step' \in [at : {"index"} \cup Awaited \cup FetchEnded, i : 1..Sources + 1]
          /\ step'.at = "index" /\ step'.i = step.i + 1
      BY <1>a, <2>1 DEF FetchTypeOK
    <2>3. /\ entry \in 0..Sources /\ late \in 1..Sources + 1
          /\ entry < step.i /\ (late <= Sources => late < step.i)
      BY DEF FetchTypeOK, EntryIsLast
    <2>4. FetchTypeOK'
      <3>1. entry' \in 0..Sources /\ late' \in 1..Sources + 1
        BY <1>a, <2>1, <2>3
      <3>. QED BY <2>1, <2>2, <3>1 DEF FetchTypeOK
    <2>5. \A j \in 1..Sources : Lists(indexes[j])' = Lists(indexes[j])
      BY <2>1 DEF Lists, fetchIndexBody, getIndex
    <2>6. EntryIsLast'
      <3>1. entry' < step'.i /\ (late' <= Sources => late' < step'.i)
        BY <1>a, <2>1, <2>2, <2>3
      <3>2. ASSUME NEW j \in InTime', j < step'.i, Lists(indexes[j])'
            PROVE  j <= entry'
        <4>1. j \in 1..late' - 1 /\ j \in 1..Sources /\ Lists(indexes[j])
          BY <1>a, <2>1, <2>2, <2>3, <2>5, <3>2 DEF InTime
        <4>2. CASE j = step.i
          BY <1>a, <2>1, <2>3, <4>1, <4>2
        <4>3. CASE j # step.i
          <5>1. j \in InTime /\ j < step.i
            BY <1>a, <2>1, <2>2, <2>3, <3>2, <4>1, <4>3 DEF InTime
          <5>2. j <= entry
            BY <4>1, <5>1 DEF EntryIsLast
          <5>3. j \in 1..Sources /\ entry' \in {entry, step.i}
            BY <2>1, <4>1
          <5>. QED BY <1>a, <2>3, <5>1, <5>2, <5>3
        <4>. QED BY <4>2, <4>3
      <3>. QED BY <2>2, <3>1, <3>2 DEF EntryIsLast, Awaited
    <2>7. Arrived' /\ Verified' /\ PublicPluginsInstall'
      BY <2>2 DEF Arrived, Verified, PublicPluginsInstall
    <2>. QED BY <2>4, <2>6, <2>7
  <1>2. CASE Find
    <2>1. step.at = "index" /\ step.i = Sources + 1 /\ Goto(IF entry = 0 THEN "failed" ELSE "latest")
          /\ UNCHANGED <<site, indexes, entry, late, got, spoiled>>
      BY <1>a, <1>2 DEF Find
    <2>2. PICK s \in {"failed", "latest"} : Goto(s) /\ (s = "failed" => entry = 0)
      BY <2>1
    <2>3. step'.at = s
      BY <2>2, GotoType DEF Awaited, FetchEnded
    <2>4. Arrived' /\ Verified'
      BY <2>3 DEF Arrived, Verified
    <2>5. s = "failed" => \A i \in InTime : indexes[i] # "lists"
      <3>. SUFFICES ASSUME entry = 0, NEW i \in InTime, indexes[i] = "lists"
                    PROVE  FALSE
        BY <2>2
      <3>1. Lists(indexes[i])
        BY DEF Lists, fetchIndexBody, getIndex
      <3>2. i \in 1..Sources /\ i < step.i
        BY <1>a, <2>1, InTimeAre
      <3>. QED BY <3>1, <3>2 DEF EntryIsLast
    <2>. QED BY <2>1, <2>2, <2>4, <2>5, GoesOn DEF Awaited, FetchEnded
  <1>3. CASE LatestVersion
    <2>1. PICK r \in getWithAnonymousFallback :
            Goto(IF r = "ok" \/ (r = "limited" /\ Web) THEN "archive" ELSE "failed")
      BY <1>3 DEF LatestVersion
    <2>2. PICK s \in {"failed", "archive"} : Goto(s) /\ (s = "failed" => ~site.public)
      <3>1. CASE site.public
        BY <2>1, <3>1, PublicAnswers DEF Web
      <3>2. CASE ~site.public
        BY <2>1, <3>2
      <3>. QED BY <3>1, <3>2
    <2>3. step'.at = s
      BY <2>2, GotoType DEF Awaited, FetchEnded
    <2>4. Arrived' /\ Verified'
      BY <2>3 DEF Arrived, Verified
    <2>5. step.i = Sources + 1 /\ UNCHANGED <<site, indexes, entry, late, got, spoiled>>
      BY <1>3 DEF LatestVersion, EntryIsLast, Awaited
    <2>. QED BY <2>2, <2>4, <2>5, GoesOn DEF Awaited, FetchEnded
  <1>4. CASE GetArchive
    <2>. DEFINE next == IF ~site.skipChecksum THEN "sums"
                        ELSE IF ~site.skipCosign THEN "bundle" ELSE "extract"
    <2>1. Download("archive", next)
      BY <1>4 DEF GetArchive
    <2>2. next \in Awaited /\ "archive" \in Assets
      BY DEF Awaited, Assets
    <2>. QED BY <2>1, <2>2, DownloadStep
  <1>5. CASE GetSums
    <2>1. "compare" \in Awaited /\ "sums" \in Assets
      BY DEF Awaited, Assets
    <2>. QED BY <1>5, <2>1, DownloadStep DEF GetSums
  <1>6. CASE GetBundle
    <2>1. "verify" \in Awaited /\ "bundle" \in Assets
      BY DEF Awaited, Assets
    <2>. QED BY <1>6, <2>1, DownloadStep DEF GetBundle
  <1>g. got["archive"] \in Arrivals /\ got["sums"] \in Arrivals /\ got["bundle"] \in Arrivals
    BY DEF FetchTypeOK, Assets
  <1>7. CASE CompareSums
    <2>1. PICK s \in {"failed", "extract", "bundle"} :
            /\ Goto(s)
            /\ s = "failed" => got["archive"] # "as published" \/ got["sums"] # "as published"
            /\ s # "failed" => got["archive"] = "as published" /\ (s = "extract" <=> site.skipCosign)
      BY <1>7 DEF CompareSums
    <2>2. step'.at = s
      BY <2>1, GotoType DEF Awaited, FetchEnded
    <2>3. step.at = "compare" /\ UNCHANGED <<site, indexes, entry, late, got, spoiled>>
      BY <1>7 DEF CompareSums
    <2>4. step.i = Sources + 1
      BY <2>3 DEF EntryIsLast, Awaited
    <2>5. Arrived' /\ Verified'
      BY <2>1, <2>2, <2>3 DEF Arrived, Verified
    <2>6. s = "failed" => \E a \in Assets : got[a] = "damaged"
      BY <1>g, <2>1, <2>3 DEF Arrived, Arrivals, Assets
    <2>. QED BY <2>1, <2>3, <2>4, <2>5, <2>6, GoesOn DEF Awaited, FetchEnded
  <1>8. CASE VerifyBundle
    <2>1. PICK s \in {"failed", "extract"} :
            /\ Goto(s)
            /\ s = "failed" => got["archive"] # "as published" \/ got["bundle"] # "as published"
            /\ s = "extract" => (site.cosign => got["archive"] = "as published")
      BY <1>8 DEF VerifyBundle
    <2>2. step'.at = s
      BY <2>1, GotoType DEF Awaited, FetchEnded
    <2>3. step.at = "verify" /\ UNCHANGED <<site, indexes, entry, late, got, spoiled>>
      BY <1>8 DEF VerifyBundle
    <2>4. step.i = Sources + 1
      BY <2>3 DEF EntryIsLast, Awaited
    <2>5. Arrived' /\ Verified'
      BY <2>1, <2>2, <2>3 DEF Arrived, Verified
    <2>6. s = "failed" => \E a \in Assets : got[a] = "damaged"
      BY <1>g, <2>1, <2>3 DEF Arrived, Arrivals, Assets
    <2>. QED BY <2>1, <2>3, <2>4, <2>5, <2>6, GoesOn DEF Awaited, FetchEnded
  <1>9. CASE Extract
    <2>1. PICK s \in {"failed", "installed"} : Goto(s) /\ (s = "failed" => got["archive"] = "damaged")
      BY <1>9 DEF Extract
    <2>2. step'.at = s
      BY <2>1, GotoType DEF Awaited, FetchEnded
    <2>3. step.at = "extract" /\ UNCHANGED <<site, indexes, entry, late, got, spoiled>>
      BY <1>9 DEF Extract
    <2>4. step.i = Sources + 1
      BY <2>3 DEF EntryIsLast, Awaited
    <2>5. Arrived' /\ Verified'
      BY <2>1, <2>2, <2>3 DEF Arrived, Verified
    <2>. QED BY <2>1, <2>3, <2>4, <2>5, GoesOn DEF Awaited, FetchEnded, Assets
  <1>10. CASE UNCHANGED fetchVars
    <2>1. \A j \in InTime : Lists(indexes[j])' = Lists(indexes[j])
      BY <1>10 DEF Lists, fetchIndexBody, getIndex, fetchVars
    <2>2. InTime' = InTime
      BY <1>10 DEF InTime, fetchVars
    <2>3. EntryIsLast'
      BY <1>10, <2>1, <2>2 DEF EntryIsLast, fetchVars
    <2>4. PublicPluginsInstall'
      BY <1>10, <2>2 DEF PublicPluginsInstall, fetchVars
    <2>. QED BY <1>10, <2>3, <2>4 DEF fetchVars, FetchTypeOK, Arrived, Verified
  <1>. QED BY <1>1, <1>2, <1>3, <1>4, <1>5, <1>6, <1>7, <1>8, <1>9, <1>10 DEF FetchNext

\* A public plugin that a readable index lists is installed whatever GitHub
\* answers to a token or refuses for want of budget, if what it publishes is
\* complete and arrives as published, no download is answered 429, and the five
\* seconds for reading all indexes were not up before that one (index.go): for
\* every number of indexes.
THEOREM PublicPluginsAreInstalled == FetchSpec => []PublicPluginsInstall
  <1>1. FetchInv => PublicPluginsInstall
    BY DEF FetchInv
  <1>. QED BY <1>1, FetchStarts, FetchStep, PTL DEF FetchSpec

\* What is installed is what was published, and of the last readable index in
\* time that lists the plugin (release.go, index.go).
THEOREM InstallsThePublished == FetchSpec => []InstallsWhatWasPublished
  <1>1. FetchInv => InstallsWhatWasPublished
    <2>. SUFFICES ASSUME FetchInv, step.at = "installed" PROVE InstallsWhatWasPublished
      BY DEF InstallsWhatWasPublished
    <2>1. step.i = Sources + 1 /\ Sources \in Nat
      BY FetchAssumption DEF FetchInv, EntryIsLast
    <2>2. ASSUME NEW i \in InTime,
                 indexes[i] = "lists" \/ (indexes[i] = "lists privately" /\ site.token = "good")
          PROVE  i <= entry
      <3>1. Lists(indexes[i])
        BY <2>2 DEF Lists, fetchIndexBody, getIndex
      <3>2. i \in 1..Sources /\ i < step.i
        BY <2>1, InTimeAre DEF FetchInv
      <3>. QED BY <3>1, <3>2 DEF FetchInv, EntryIsLast
    <2>3. \/ got["archive"] = "as published"
          \/ site.skipChecksum /\ (site.skipCosign \/ ~site.cosign)
      BY DEF FetchInv, Verified, FetchTypeOK, Site
    <2>4. site.skipCosign \/ site.complete
      BY DEF FetchInv, Verified
    <2>. QED BY <2>2, <2>3, <2>4 DEF InstallsWhatWasPublished
  <1>. QED BY <1>1, FetchStarts, FetchStep, PTL DEF FetchSpec

-----------------------------------------------------------------------------
(***************************************************************************)
(* Upgrades (Upgrade).                                                     *)
(***************************************************************************)

RunSteps == {"check viti", "check plugins", "check own", "confirm", "spawn", "installer",
             "index", "upgrade", "exited"}

UpgradeTypeOK ==
    /\ call \in Calls
    /\ at \in RunSteps
    /\ local \in [Components -> Tags \cup {Dev}]
    /\ \A p \in Installables : local[p] # Dev
    /\ latest \in [Components -> Tags]
    /\ seen \in [Components -> Tags \cup {None}]
    /\ todo \subseteq Installables
    /\ work \subseteq Installables

\* The run has read which release is the latest, and nothing older is left.
Good(c) == seen[c] # None /\ Compare(local[c], seen[c]) # "outdated"

\* What a run that has still to exit knows of plugin p.
Accounted(p) ==
    \/ p \in todo \cup work \/ Good(p)
    \/ call.noPlugins \/ "warned" \in errs \/ "failed" \in errs
    \/ call.what = "own" /\ seen[p] = None

\* ... and of viti.
VitiKnown ==
    call.what = "viti" /\ "unchecked" \notin errs =>
       /\ at # "check viti" => seen[Viti] # None
       /\ at \in {"index", "upgrade"} => call.windows \/ Good(Viti)

Stage ==
    /\ at \notin {"check viti", "exited"} => \A p \in Installables : Accounted(p)
    /\ at # "check plugins" => todo = {}
    /\ at = "check own" => call.what = "own" /\ \A p \in Installables : seen[p] = None
    /\ at = "spawn" => call.what = "own"

UpgradeInv == UpgradeTypeOK /\ VitiKnown /\ Stage /\ ExitTellsTheTruth

\* A tag has a number that is not negative, and none only if it is no version.
LEMMA TagsAre ==
    ASSUME NEW v \in Tags
    PROVE  v.n \in 0..Newest /\ (v.n = 0 => v = Stray) /\ v # Dev /\ v # None
  BY UpgradeAssumption DEF Tags, Version, Stray, Dev, None

\* The tags that the definitions name.
LEMMA TagTypes == Stray \in Tags /\ Version(1, FALSE) \in Tags /\ Version(1, TRUE) \in Tags
                  /\ Version(Newest, FALSE) \in Tags
  <1>1. 1 \in 1..Newest /\ Newest \in 1..Newest
    BY UpgradeAssumption
  <1>2. ASSUME NEW n \in 1..Newest, NEW b \in BOOLEAN
        PROVE  Version(n, b) \in Tags
    BY DEF Tags
  <1>3. Stray \in Tags
    BY DEF Tags
  <1>. QED BY <1>1, <1>2, <1>3, Zenon

\* Compare, arm by arm: its arms do not overlap (release.go).
LEMMA CompareIs ==
    ASSUME NEW v \in Tags \cup {Dev}, NEW tag \in Tags
    PROVE  Compare(v, tag) =
             IF v = Dev THEN "development" ELSE IF v = tag THEN "up to date"
             ELSE IF tag.n = 0 THEN "unknown" ELSE IF v.n < tag.n THEN "outdated"
             ELSE IF v.n > tag.n THEN "ahead" ELSE "development"
  <1>1. tag # Dev /\ tag.n \in Int /\ tag.n >= 0
    BY TagsAre
  <1>2. v # Dev => v.n \in Int
    BY TagsAre
  <1>3. CASE v = Dev
    BY <1>1, <1>3 DEF Compare
  <1>4. CASE v # Dev /\ v = tag
    BY <1>1, <1>4 DEF Compare
  <1>5. CASE v # Dev /\ v # tag /\ tag.n = 0
    BY <1>1, <1>5 DEF Compare
  <1>6. CASE v # Dev /\ v # tag /\ tag.n # 0
    BY <1>1, <1>2, <1>6 DEF Compare
  <1>. QED BY <1>3, <1>4, <1>5, <1>6

\* What has just been installed is not outdated.
LEMMA NotOutdatedByItself ==
    ASSUME NEW tag \in Tags
    PROVE  Compare(tag, tag) # "outdated"
  BY TagsAre, CompareIs

\* The installer leaves viti at the tag it was given, or at the latest one where
\* the tag is no version; neither is older than what the run has read.
LEMMA InstalledIs ==
    ASSUME UpgradeTypeOK, NEW tag \in Tags
    PROVE  /\ Installed(tag) \in Tags
           /\ Compare(Installed(tag), tag) # "outdated"
  <1>1. latest[Viti] \in Tags
    BY DEF UpgradeTypeOK, Components
  <1>2. CASE tag.n > 0
    BY <1>2, NotOutdatedByItself DEF Installed
  <1>3. CASE ~(tag.n > 0)
    <2>1. tag.n = 0
      BY <1>3, TagsAre
    <2>. QED BY <1>1, <1>3, <2>1, TagsAre, CompareIs DEF Installed
  <1>. QED BY <1>2, <1>3

\* A run starts with everything still to look at.
LEMMA UpgradeStarts == UpgradeInit => UpgradeInv
  <1>. SUFFICES ASSUME UpgradeInit PROVE UpgradeInv
    OBVIOUS
  <1>1. \/ call.what = "viti" /\ at = "check viti"
        \/ call.what = "plugin" /\ at = "index"
        \/ call.what = "own" /\ at = "check own"
    <2>1. call.what \in {"viti", "plugin", "own"}
      BY DEF UpgradeInit, Calls
    <2>. QED BY <2>1 DEF UpgradeInit
  <1>2. \A c \in Components : seen[c] = None
    BY DEF UpgradeInit
  <1>3. UpgradeTypeOK
    <2>1. call \in Calls /\ todo = {}
          /\ local \in [Components -> Tags \cup {Dev}] /\ \A p \in Installables : local[p] # Dev
      BY DEF UpgradeInit
    <2>2. at \in RunSteps
      BY <1>1 DEF RunSteps
    <2>3. latest \in [Components -> Tags]
      BY TagTypes DEF UpgradeInit
    <2>4. seen \in [Components -> Tags \cup {None}]
      BY DEF UpgradeInit
    <2>5. work \subseteq Installables
      BY DEF UpgradeInit
    <2>. QED BY <2>1, <2>2, <2>3, <2>4, <2>5 DEF UpgradeTypeOK
  <1>4. Stage
    <2>1. todo = {} /\ (call.what = "plugin" => work = Installables)
      BY DEF UpgradeInit
    <2>2. \A p \in Installables : seen[p] = None
      BY <1>2 DEF Components
    <2>. QED BY <1>1, <2>1, <2>2 DEF Stage, Accounted
  <1>5. VitiKnown /\ ExitTellsTheTruth
    BY <1>1 DEF VitiKnown, ExitTellsTheTruth
  <1>. QED BY <1>3, <1>4, <1>5 DEF UpgradeInv

\* What a run that exits must know.
LEMMA Exits ==
    ASSUME UpgradeInv, at # "check viti", NEW how, Exit(how), UNCHANGED <<call, local, latest, todo>>,
           seen' \in [Components -> Tags \cup {None}], work' \subseteq Installables,
           seen'[Viti] = seen[Viti],
           errs' \subseteq {"warned"} =>
             \A c \in Components :
                \/ c = Viti /\ (call.what # "viti" \/ call.windows)
                \/ c # Viti /\ (call.noPlugins \/ "warned" \in errs)
                \/ call.what = "own" /\ seen'[c] = None
                \/ seen'[c] # None /\ Compare(local[c], seen'[c]) # "outdated",
           at # "check plugins" \/ todo = {}
    PROVE  UpgradeInv'
  <1>. USE DEF UpgradeInv
  <1>1. at' = "exited" /\ errs' = errs \cup how
    BY DEF Exit
  <1>2. UpgradeTypeOK'
    BY <1>1 DEF UpgradeTypeOK, RunSteps
  <1>3. VitiKnown'
    BY <1>1 DEF VitiKnown
  <1>4. Stage'
    BY <1>1 DEF Stage
  <1>5. ExitTellsTheTruth'
    BY <1>1 DEF ExitTellsTheTruth
  <1>. QED BY <1>2, <1>3, <1>4, <1>5

\* An error that is more than a warning says enough.
LEMMA ExitsInError ==
    ASSUME UpgradeInv, at # "check viti", NEW how, Exit(how), UNCHANGED <<call, local, latest, todo>>,
           seen' \in [Components -> Tags \cup {None}], work' \subseteq Installables,
           seen'[Viti] = seen[Viti],
           ~(how \subseteq {"warned"}),
           at # "check plugins" \/ todo = {}
    PROVE  UpgradeInv'
  <1>1. ~(errs' \subseteq {"warned"})
    BY DEF Exit
  <1>. QED BY <1>1, Exits

\* A run that keeps on, and installs nothing.
LEMMA KeepsOn ==
    ASSUME UpgradeInv, NEW next \in RunSteps \ {"check viti", "check plugins", "check own", "exited"},
           KeepOn(next), at \notin {"check viti", "exited"}, todo = {},
           UNCHANGED <<call, local, latest, seen, todo, work>>,
           next = "spawn" => call.what = "own",
           next \in {"index", "upgrade"} /\ call.what = "viti" /\ "unchecked" \notin errs =>
              call.windows \/ Good(Viti)
    PROVE  UpgradeInv'
  <1>. USE DEF UpgradeInv
  <1>1. at' = next /\ errs' = errs
    BY DEF KeepOn
  <1>2. UpgradeTypeOK'
    BY <1>1 DEF UpgradeTypeOK
  <1>3. \A c : Good(c)' = Good(c)
    BY DEF Good, Compare
  <1>4. VitiKnown'
    BY <1>1, <1>3 DEF VitiKnown
  <1>5. Stage'
    BY <1>1, <1>3 DEF Stage, Accounted
  <1>6. ExitTellsTheTruth'
    BY <1>1 DEF ExitTellsTheTruth
  <1>. QED BY <1>2, <1>4, <1>5, <1>6

\* Viti is looked at; an error is put down.
LEMMA CheckVitiStep == UpgradeInv /\ CheckViti => UpgradeInv'
  <1>. SUFFICES ASSUME UpgradeInv, CheckViti PROVE UpgradeInv'
    OBVIOUS
  <1>. USE DEF UpgradeInv
  <1>1. /\ at = "check viti"
        /\ todo' = IF call.noPlugins THEN {} ELSE Installables
        /\ at' = IF call.noPlugins /\ "unchecked" \in errs' THEN "exited" ELSE "check plugins"
        /\ UNCHANGED <<call, local, latest, work>>
        /\ \/ seen' = [seen EXCEPT ![Viti] = latest[Viti]] /\ UNCHANGED errs
           \/ errs' = errs \cup {"unchecked"} /\ UNCHANGED seen
    BY DEF CheckViti
  <1>2. latest[Viti] \in Tags /\ latest[Viti] # None
    BY TagsAre DEF UpgradeTypeOK, Components
  <1>3. UpgradeTypeOK'
    BY <1>1, <1>2 DEF UpgradeTypeOK, RunSteps
  <1>4. "unchecked" \notin errs' => seen'[Viti] # None
    BY <1>1, <1>2 DEF UpgradeTypeOK, Components
  <1>5. VitiKnown'
    BY <1>1, <1>4 DEF VitiKnown
  <1>6. Stage'
    BY <1>1 DEF Stage, Accounted
  <1>7. ExitTellsTheTruth'
    BY <1>1 DEF ExitTellsTheTruth
  <1>. QED BY <1>3, <1>5, <1>6, <1>7

\* Records that cannot be read are warned of.
LEMMA ListStatesStep == UpgradeInv /\ ListStatesFails => UpgradeInv'
  <1>. SUFFICES ASSUME UpgradeInv, ListStatesFails PROVE UpgradeInv'
    OBVIOUS
  <1>1. /\ at = "check plugins" /\ todo' = {} /\ errs' = errs \cup {"warned"}
        /\ UNCHANGED <<call, at, local, latest, seen, work>>
    BY DEF ListStatesFails
  <1>. QED BY <1>1 DEF UpgradeInv, UpgradeTypeOK, VitiKnown, Stage, Accounted, ExitTellsTheTruth

\* A plugin that is looked at is up to date, or to be worked on.
LEMMA CheckPluginStep ==
    ASSUME UpgradeInv, NEW p \in Installables, CheckPlugin(p)
    PROVE  UpgradeInv'
  <1>. USE DEF UpgradeInv
  <1>1. /\ at = "check plugins" /\ p \in todo /\ todo' = todo \ {p}
        /\ UNCHANGED <<call, at, local, latest, errs>>
        /\ \/ /\ seen' = [seen EXCEPT ![p] = latest[p]]
              /\ work' = IF Compare(local[p], latest[p]) = "outdated" THEN work \cup {p} ELSE work
           \/ work' = work \cup {p} /\ UNCHANGED seen
    BY DEF CheckPlugin
  <1>2. latest[p] \in Tags /\ latest[p] # None /\ p \in Components /\ p # Viti
    BY UpgradeAssumption, TagsAre DEF UpgradeTypeOK, Components
  <1>3. UpgradeTypeOK'
    BY <1>1, <1>2 DEF UpgradeTypeOK
  <1>4. \A c \in Components \ {p} : seen'[c] = seen[c]
    BY <1>1 DEF UpgradeTypeOK
  <1>5. p \in work' \/ Good(p)'
    <2>1. CASE work' = work \cup {p}
      BY <2>1
    <2>2. CASE seen' = [seen EXCEPT ![p] = latest[p]] /\ Compare(local[p], latest[p]) # "outdated"
      <3>1. seen'[p] = latest[p] /\ local'[p] = local[p]
        BY <1>1, <1>2, <2>2 DEF UpgradeTypeOK
      <3>. QED BY <1>2, <2>2, <3>1 DEF Good, Compare
    <2>. QED BY <1>1, <2>1, <2>2
  <1>6. VitiKnown'
    BY <1>1, <1>2, <1>4 DEF VitiKnown, Components
  <1>7. Stage'
    <2>1. ASSUME NEW q \in Installables PROVE Accounted(q)'
      <3>1. CASE q = p
        BY <1>5, <3>1 DEF Accounted
      <3>2. CASE q # p
        <4>1. seen'[q] = seen[q] /\ Accounted(q)
          BY <1>1, <1>4, <3>2 DEF Stage, Components
        <4>2. Good(q)' = Good(q)
          BY <1>1, <4>1 DEF Good, Compare
        <4>. QED BY <1>1, <3>2, <4>1, <4>2 DEF Accounted
      <3>. QED BY <3>1, <3>2
    <2>. QED BY <1>1, <2>1 DEF Stage
  <1>8. ExitTellsTheTruth'
    BY <1>1 DEF ExitTellsTheTruth
  <1>. QED BY <1>3, <1>6, <1>7, <1>8

\* A run without work that ends is one that has found everything as it should be.
LEMMA PlanStep == UpgradeInv /\ planRun => UpgradeInv'
  <1>. SUFFICES ASSUME UpgradeInv, planRun PROVE UpgradeInv'
    OBVIOUS
  <1>. USE DEF UpgradeInv
  <1>1. /\ at = "check plugins" /\ todo = {} /\ UNCHANGED <<call, local, latest, seen, todo, work>>
        /\ seen' \in [Components -> Tags \cup {None}] /\ work' \subseteq Installables
        /\ seen'[Viti] = seen[Viti]
    BY DEF planRun, UpgradeTypeOK
  <1>2. \/ \E how \in {{"asked only"}, {"windows"}} : Exit(how)
        \/ work = {} /\ ~NeedSelf /\ Exit({})
        \/ KeepOn("confirm")
    BY DEF planRun
  <1>3. ASSUME NEW how \in {{"asked only"}, {"windows"}}, Exit(how) PROVE UpgradeInv'
    BY <1>1, <1>3, ExitsInError
  <1>4. CASE work = {} /\ ~NeedSelf /\ Exit({})
    <2>1. ASSUME errs' \subseteq {"warned"}, NEW c \in Components
          PROVE  \/ c = Viti /\ (call.what # "viti" \/ call.windows)
                 \/ c # Viti /\ (call.noPlugins \/ "warned" \in errs)
                 \/ call.what = "own" /\ seen'[c] = None
                 \/ seen'[c] # None /\ Compare(local[c], seen'[c]) # "outdated"
      <3>1. "unchecked" \notin errs /\ "failed" \notin errs
        BY <1>4, <2>1 DEF Exit
      <3>2. CASE c = Viti
        BY <1>1, <1>4, <3>1, <3>2 DEF VitiKnown, NeedSelf, Proceed
      <3>3. CASE c # Viti
        <4>1. c \in Installables
          BY <3>3 DEF Components
        <4>. QED BY <1>1, <1>4, <3>1, <3>3, <4>1 DEF Stage, Accounted, Good
      <3>. QED BY <3>2, <3>3
    <2>. QED BY <1>1, <1>4, <2>1, Exits
  <1>5. CASE KeepOn("confirm")
    BY <1>1, <1>5, KeepsOn DEF RunSteps
  <1>. QED BY <1>2, <1>3, <1>4, <1>5

\* The upgrade of a plugin by itself ends only when it is up to date or in error.
LEMMA CheckOwnStep ==
    ASSUME UpgradeInv, NEW p \in Installables, CheckOwn(p)
    PROVE  UpgradeInv'
  <1>. USE DEF UpgradeInv
  <1>1. at = "check own" /\ UNCHANGED <<call, local, latest, todo>> /\ todo = {} /\ call.what = "own"
        /\ \A q \in Installables : seen[q] = None
    BY DEF CheckOwn, Stage
  <1>2. latest[p] \in Tags /\ latest[p] # None /\ p \in Components /\ p # Viti
    BY UpgradeAssumption, TagsAre DEF UpgradeTypeOK, Components
  <1>3. \/ /\ seen' = [seen EXCEPT ![p] = latest[p]] /\ work' = {p}
           /\ \/ ~Proceed(Compare(local[p], latest[p])) /\ Exit({})
              \/ \E how \in {{"asked only"}, {"windows"}} : Exit(how)
              \/ KeepOn("confirm")
        \/ Exit({"unchecked"}) /\ UNCHANGED <<seen, work>>
    BY DEF CheckOwn
  <1>4. seen' \in [Components -> Tags \cup {None}] /\ work' \subseteq Installables
        /\ seen'[Viti] = seen[Viti] /\ (\A q \in Installables \ {p} : seen'[q] = None)
    BY <1>1, <1>2, <1>3 DEF UpgradeTypeOK, Components
  <1>5. CASE \E how \in {{"asked only"}, {"windows"}, {"unchecked"}} : Exit(how)
    BY <1>1, <1>4, <1>5, ExitsInError
  <1>6. CASE seen' = [seen EXCEPT ![p] = latest[p]] /\ ~Proceed(Compare(local[p], latest[p])) /\ Exit({})
    <2>1. seen'[p] = latest[p]
      BY <1>2, <1>6 DEF UpgradeTypeOK
    <2>2. ASSUME NEW c \in Components
          PROVE  \/ c = Viti /\ call.what # "viti"
                 \/ call.what = "own" /\ seen'[c] = None
                 \/ seen'[c] # None /\ Compare(local[c], seen'[c]) # "outdated"
      <3>1. CASE c = Viti
        BY <1>1, <3>1
      <3>2. CASE c \in Installables \ {p}
        BY <1>1, <1>4, <3>2
      <3>3. CASE c = p
        BY <1>2, <1>6, <2>1, <3>3 DEF Proceed
      <3>. QED BY <3>1, <3>2, <3>3 DEF Components
    <2>. QED BY <1>1, <1>4, <1>6, <2>2, Exits
  <1>7. CASE seen' = [seen EXCEPT ![p] = latest[p]] /\ work' = {p} /\ KeepOn("confirm")
    <2>1. at' = "confirm" /\ errs' = errs
      BY <1>7 DEF KeepOn
    <2>2. UpgradeTypeOK'
      BY <1>1, <1>4, <2>1 DEF UpgradeTypeOK, RunSteps
    <2>3. VitiKnown' /\ ExitTellsTheTruth'
      BY <1>1, <2>1 DEF VitiKnown, ExitTellsTheTruth
    <2>4. Stage'
      BY <1>1, <1>4, <1>7, <2>1 DEF Stage, Accounted
    <2>. QED BY <2>2, <2>3, <2>4
  <1>. QED BY <1>3, <1>5, <1>6, <1>7

\* The installer of viti.
LEMMA InstallerStep == UpgradeInv /\ runInstaller => UpgradeInv'
  <1>. SUFFICES ASSUME UpgradeInv, runInstaller PROVE UpgradeInv'
    OBVIOUS
  <1>. USE DEF UpgradeInv
  <1>1. /\ at = "installer" /\ UNCHANGED <<call, latest, seen, todo, work>> /\ todo = {}
        /\ seen' \in [Components -> Tags \cup {None}] /\ work' \subseteq Installables
        /\ seen'[Viti] = seen[Viti]
    BY DEF runInstaller, Stage, UpgradeTypeOK
  <1>2. CASE NeedSelf /\ ~call.windows /\ local' = [local EXCEPT ![Viti] = Installed(seen[Viti])] /\ KeepOn("index")
    <2>1. at' = "index" /\ errs' = errs
      BY <1>2 DEF KeepOn
    <2>2. seen[Viti] \in Tags
      BY <1>2 DEF NeedSelf, UpgradeTypeOK, Components
    <2>3. /\ Installed(seen[Viti]) \in Tags
          /\ Compare(Installed(seen[Viti]), seen[Viti]) # "outdated"
      BY <2>2, InstalledIs
    <2>4. local'[Viti] = Installed(seen[Viti]) /\ \A q \in Installables : local'[q] = local[q]
      BY <1>2, UpgradeAssumption DEF UpgradeTypeOK, Components
    <2>5. UpgradeTypeOK'
      BY <1>1, <1>2, <2>1, <2>3, <2>4 DEF UpgradeTypeOK, RunSteps
    <2>6. Good(Viti)'
      <3>1. seen'[Viti] # None
        BY <1>1, <1>2 DEF NeedSelf
      <3>2. Compare(local'[Viti], seen'[Viti]) # "outdated"
        BY <1>1, <2>3, <2>4
      <3>. QED BY <3>1, <3>2 DEF Good, Compare
    <2>7. VitiKnown'
      BY <2>6 DEF VitiKnown, Good
    <2>8. \A q \in Installables : Good(q)' = Good(q)
      BY <1>1, <2>4 DEF Good, Compare
    <2>9. Stage'
      BY <1>1, <2>1, <2>8 DEF Stage, Accounted
    <2>10. ExitTellsTheTruth'
      BY <2>1 DEF ExitTellsTheTruth
    <2>. QED BY <2>5, <2>7, <2>9, <2>10
  <1>3. CASE Exit({"installer"}) /\ UNCHANGED local
    BY <1>1, <1>3, ExitsInError
  <1>4. CASE ~(NeedSelf /\ ~call.windows) /\ KeepOn("index") /\ UNCHANGED local
    <2>1. call.what = "viti" /\ "unchecked" \notin errs => call.windows \/ Good(Viti)
      BY <1>1, <1>4 DEF VitiKnown, NeedSelf, Good, Proceed
    <2>. QED BY <1>1, <1>4, <2>1, KeepsOn DEF RunSteps
  <1>. QED BY <1>2, <1>3, <1>4 DEF runInstaller

\* A plugin that is worked on ends up at the release that was read last, or
\* in an error.
LEMMA UpgradeOneStep ==
    ASSUME UpgradeInv, NEW p \in Installables, upgradeOne(p)
    PROVE  UpgradeInv'
  <1>. USE DEF UpgradeInv
  <1>1. /\ at = "upgrade" /\ work' = work \ {p} /\ todo = {}
        /\ UNCHANGED <<call, at, latest, todo>>
    BY DEF upgradeOne, Stage
  <1>2. latest[p] \in Tags /\ latest[p] # None /\ latest[p] # Dev /\ p \in Components /\ p # Viti
    BY UpgradeAssumption, TagsAre DEF UpgradeTypeOK, Components
  <1>3. \/ /\ seen' = [seen EXCEPT ![p] = latest[p]]
           /\ local' = [local EXCEPT ![p] = latest[p]] /\ UNCHANGED errs
        \/ /\ seen' = [seen EXCEPT ![p] = latest[p]] /\ UNCHANGED local /\ errs' = errs \cup {"failed"}
        \/ /\ seen' = [seen EXCEPT ![p] = latest[p]] /\ UNCHANGED <<local, errs>>
           /\ ~Proceed(Compare(local[p], latest[p]))
        \/ UNCHANGED <<local, seen>> /\ errs' = errs \cup {"failed"}
    BY DEF upgradeOne
  <1>4. UpgradeTypeOK'
    <2>1. /\ seen' \in [Components -> Tags \cup {None}]
          /\ local' \in [Components -> Tags \cup {Dev}]
          /\ \A q \in Installables : local'[q] # Dev
      BY <1>2, <1>3 DEF UpgradeTypeOK, Components
    <2>. QED BY <1>1, <2>1 DEF UpgradeTypeOK
  <1>5. \A c \in Components \ {p} : seen'[c] = seen[c] /\ local'[c] = local[c]
    BY <1>3 DEF UpgradeTypeOK
  <1>6. errs \subseteq errs'
    BY <1>3
  <1>7. VitiKnown'
    <2>1. Good(Viti)' = Good(Viti)
      BY <1>2, <1>5 DEF Good, Compare, Components
    <2>2. seen'[Viti] = seen[Viti]
      BY <1>2, <1>5 DEF Components
    <2>. QED BY <1>1, <1>6, <2>1, <2>2 DEF VitiKnown
  <1>8. Good(p)' \/ "failed" \in errs'
    <2>1. CASE /\ seen' = [seen EXCEPT ![p] = latest[p]]
               /\ local' = [local EXCEPT ![p] = latest[p]]
      <3>1. seen'[p] = latest[p] /\ local'[p] = latest[p]
        BY <1>2, <2>1 DEF UpgradeTypeOK
      <3>2. Compare(local'[p], seen'[p]) # "outdated"
        BY <1>2, <3>1, NotOutdatedByItself
      <3>. QED BY <1>2, <3>1, <3>2 DEF Good, Compare
    <2>2. CASE /\ seen' = [seen EXCEPT ![p] = latest[p]] /\ UNCHANGED local
               /\ ~Proceed(Compare(local[p], latest[p]))
      <3>1. seen'[p] = latest[p] /\ local'[p] = local[p]
        BY <1>2, <2>2 DEF UpgradeTypeOK
      <3>2. Compare(local'[p], seen'[p]) # "outdated"
        BY <2>2, <3>1 DEF Proceed
      <3>. QED BY <1>2, <3>1, <3>2 DEF Good, Compare
    <2>. QED BY <1>3, <2>1, <2>2
  <1>9. Stage'
    <2>1. ASSUME NEW q \in Installables PROVE Accounted(q)'
      <3>1. CASE q = p
        BY <1>8, <3>1 DEF Accounted
      <3>2. CASE q # p
        <4>1. seen'[q] = seen[q] /\ local'[q] = local[q] /\ Accounted(q)
          BY <1>1, <1>5, <3>2 DEF Stage, Components
        <4>2. Good(q)' = Good(q)
          BY <4>1 DEF Good, Compare
        <4>. QED BY <1>1, <1>6, <3>2, <4>1, <4>2 DEF Accounted
      <3>. QED BY <3>1, <3>2
    <2>. QED BY <1>1, <2>1 DEF Stage
  <1>10. ExitTellsTheTruth'
    BY <1>1 DEF ExitTellsTheTruth
  <1>. QED BY <1>4, <1>7, <1>9, <1>10

\* A run that has come to its end has seen to everything that was its work.
LEMMA SummaryStep == UpgradeInv /\ Summarised => UpgradeInv'
  <1>. SUFFICES ASSUME UpgradeInv, Summarised PROVE UpgradeInv'
    OBVIOUS
  <1>. USE DEF UpgradeInv
  <1>1. /\ at = "upgrade" /\ work = {} /\ todo = {} /\ Exit({})
        /\ UNCHANGED <<call, local, latest, seen, todo, work>>
        /\ seen' \in [Components -> Tags \cup {None}] /\ work' \subseteq Installables
        /\ seen'[Viti] = seen[Viti]
    BY DEF Summarised, Stage, UpgradeTypeOK
  <1>2. ASSUME errs' \subseteq {"warned"}, NEW c \in Components
        PROVE  \/ c = Viti /\ (call.what # "viti" \/ call.windows)
               \/ c # Viti /\ (call.noPlugins \/ "warned" \in errs)
               \/ call.what = "own" /\ seen'[c] = None
               \/ seen'[c] # None /\ Compare(local[c], seen'[c]) # "outdated"
    <2>1. "unchecked" \notin errs /\ "failed" \notin errs
      BY <1>1, <1>2 DEF Exit
    <2>2. CASE c = Viti
      BY <1>1, <2>1, <2>2 DEF VitiKnown, Good
    <2>3. CASE c # Viti
      <3>1. c \in Installables
        BY <2>3 DEF Components
      <3>. QED BY <1>1, <2>1, <2>3, <3>1 DEF Stage, Accounted, Good
    <2>. QED BY <2>2, <2>3
  <1>. QED BY <1>1, <1>2, Exits

\* A release that is published meanwhile changes nothing the run has read.
LEMMA PublishStep ==
    ASSUME UpgradeInv, NEW c \in Components, NEW tag \in Tags, Publish(c, tag)
    PROVE  UpgradeInv'
  <1>1. latest' = [latest EXCEPT ![c] = tag] /\ UNCHANGED <<call, at, local, seen, todo, work, errs>>
    BY DEF Publish
  <1>2. latest' \in [Components -> Tags]
    BY <1>1 DEF UpgradeInv, UpgradeTypeOK
  <1>3. \A d : Good(d)' = Good(d) /\ Compare(local[d], seen[d])' = Compare(local[d], seen[d])
    BY <1>1 DEF Good, Compare
  <1>. QED BY <1>1, <1>2, <1>3 DEF UpgradeInv, UpgradeTypeOK, VitiKnown, Stage, Accounted, ExitTellsTheTruth

\* Every step of an upgrade keeps the invariant.
LEMMA UpgradeStep ==
    ASSUME UpgradeInv, [UpgradeNext]_upgradeVars
    PROVE  UpgradeInv'
  <1>1. CASE confirm
    <2>1. /\ at = "confirm" /\ todo = {} /\ UNCHANGED <<call, local, latest, seen, todo, work>>
          /\ seen' \in [Components -> Tags \cup {None}] /\ work' \subseteq Installables
          /\ seen'[Viti] = seen[Viti]
      BY <1>1 DEF confirm, UpgradeInv, Stage, UpgradeTypeOK
    <2>2. \/ \E next \in {"spawn", "installer"} : KeepOn(next) /\ (next = "spawn" => call.what = "own")
          \/ \E how \in {{"aborted"}, {"not asked"}} : Exit(how)
      BY <1>1 DEF confirm
    <2>. QED BY <2>1, <2>2, KeepsOn, ExitsInError DEF RunSteps
  <1>2. CASE runPluginUpgrade
    <2>1. /\ at = "spawn" /\ todo = {} /\ UNCHANGED <<call, local, latest, seen, todo, work>>
          /\ seen' \in [Components -> Tags \cup {None}] /\ work' \subseteq Installables
          /\ seen'[Viti] = seen[Viti] /\ call.what = "own"
      BY <1>2 DEF runPluginUpgrade, UpgradeInv, Stage, UpgradeTypeOK
    <2>2. KeepOn("index") \/ Exit({"no viti"})
      BY <1>2 DEF runPluginUpgrade
    <2>. QED BY <2>1, <2>2, KeepsOn, ExitsInError DEF RunSteps
  <1>3. CASE FetchIndex
    <2>1. /\ at = "index" /\ todo = {} /\ UNCHANGED <<call, local, latest, seen, todo, work>>
          /\ seen' \in [Components -> Tags \cup {None}] /\ work' \subseteq Installables
          /\ seen'[Viti] = seen[Viti]
      BY <1>3 DEF FetchIndex, UpgradeInv, Stage, UpgradeTypeOK
    <2>2. KeepOn("upgrade") \/ Exit({"index"})
      BY <1>3 DEF FetchIndex
    <2>3. call.what = "viti" /\ "unchecked" \notin errs => call.windows \/ Good(Viti)
      BY <2>1 DEF UpgradeInv, VitiKnown
    <2>. QED BY <2>1, <2>2, <2>3, KeepsOn, ExitsInError DEF RunSteps
  <1>4. ASSUME NEW p \in Installables, CheckPlugin(p) \/ CheckOwn(p) \/ upgradeOne(p) PROVE UpgradeInv'
    BY <1>4, CheckPluginStep, CheckOwnStep, UpgradeOneStep
  <1>5. ASSUME NEW c \in Components, NEW tag \in {Stray, Version(Newest, FALSE)}, Publish(c, tag)
        PROVE  UpgradeInv'
    BY <1>5, PublishStep, TagTypes
  <1>6. CASE UNCHANGED upgradeVars
    <2>1. \A d : Good(d)' = Good(d) /\ Compare(local[d], seen[d])' = Compare(local[d], seen[d])
      BY <1>6 DEF upgradeVars, Good, Compare
    <2>. QED BY <1>6, <2>1 DEF upgradeVars, UpgradeInv, UpgradeTypeOK, VitiKnown, Stage, Accounted, ExitTellsTheTruth
  <1>. QED BY <1>1, <1>2, <1>3, <1>4, <1>5, <1>6, CheckVitiStep, ListStatesStep, PlanStep,
              InstallerStep, SummaryStep DEF UpgradeNext

\* A run of upgrade that ends without an error has looked at everything it was
\* to look at, and left nothing older than what it has seen (upgrade.go): for
\* every number of plugins and versions, and whatever is published meanwhile.
THEOREM ExitsTellTheTruth == UpgradeSpec => []ExitTellsTheTruth
  <1>1. UpgradeInv => ExitTellsTheTruth
    BY DEF UpgradeInv
  <1>. QED BY <1>1, UpgradeStarts, UpgradeStep, PTL DEF UpgradeSpec

\* What replaces version v where the latest release is tag is no older version.
LEMMA ProceedsToNewer ==
    ASSUME NEW v \in Tags \cup {Dev}, NEW tag \in Tags, v # tag, Proceed(Compare(v, tag))
    PROVE  v = Dev \/ (tag.n > 0 /\ tag.n >= v.n)
  <1>1. tag.n \in Nat /\ (v # Dev => v.n \in Nat)
    BY TagsAre, UpgradeAssumption
  <1>2. Compare(v, tag) =
             IF v = Dev THEN "development" ELSE IF v = tag THEN "up to date"
             ELSE IF tag.n = 0 THEN "unknown" ELSE IF v.n < tag.n THEN "outdated"
             ELSE IF v.n > tag.n THEN "ahead" ELSE "development"
    BY CompareIs
  <1>3. Compare(v, tag) \notin {"unknown", "ahead"}
    BY DEF Proceed
  <1>4. CASE v # Dev
    <2>1. tag.n # 0
      BY <1>2, <1>3, <1>4
    <2>2. ~(v.n > tag.n)
      BY <1>1, <1>2, <1>3, <1>4
    <2>. QED BY <1>1, <1>4, <2>1, <2>2
  <1>. QED BY <1>4

\* What replaces a version is a version that is no older, and of viti the one
\* that was shown (StatusUnknown is not treated as an upgrade, release.go).
THEOREM OnlyUpgradesAreInstalled == UpgradeSpec => InstallsOnlyUpgrades
  <1>. DEFINE Upgraded(c) ==
         local'[c] # local[c] =>
            \/ local[c] = Dev /\ (local'[c] = seen[c] \/ seen[c] = Stray)
            \/ /\ local'[c].n > 0 /\ local'[c].n >= local[c].n
               /\ c = Viti => local'[c] = seen[c]
  <1>1. UpgradeInv /\ [UpgradeNext]_upgradeVars => [\A c \in Components : Upgraded(c)]_<<local>>
    <2>. SUFFICES ASSUME UpgradeInv, [UpgradeNext]_upgradeVars, NEW c \in Components, local'[c] # local[c]
                  PROVE  Upgraded(c)
      OBVIOUS
    <2>. USE DEF UpgradeInv
    <2>1. CASE runInstaller
      <3>1. NeedSelf /\ local' = [local EXCEPT ![Viti] = Installed(seen[Viti])]
        BY <2>1 DEF runInstaller
      <3>2. c = Viti /\ local'[c] = Installed(seen[c])
        BY <3>1 DEF UpgradeTypeOK
      <3>3. seen[c] \in Tags /\ Proceed(Compare(local[c], seen[c])) /\ local[c] \in Tags \cup {Dev}
        BY <3>1, <3>2 DEF NeedSelf, UpgradeTypeOK, Components
      <3>4. CASE seen[c].n > 0
        <4>1. local'[c] = seen[c]
          BY <3>2, <3>4 DEF Installed
        <4>. QED BY <3>3, <4>1, ProceedsToNewer
      <3>5. CASE ~(seen[c].n > 0)
        <4>1. seen[c] = Stray /\ seen[c].n = 0
          BY <3>3, <3>5, TagsAre
        <4>2. local[c] = Dev
          BY <3>3, <4>1, CompareIs DEF Proceed
        <4>. QED BY <4>1, <4>2
      <3>. QED BY <3>4, <3>5
    <2>2. ASSUME NEW p \in Installables, upgradeOne(p) PROVE Upgraded(c)
      <3>1. local' = [local EXCEPT ![p] = latest[p]] /\ Proceed(Compare(local[p], latest[p]))
        BY <2>2 DEF upgradeOne
      <3>2. c = p /\ local'[c] = latest[c] /\ c # Viti /\ local[c] # Dev
        BY <3>1, UpgradeAssumption DEF UpgradeTypeOK
      <3>3. latest[c] \in Tags /\ local[c] \in Tags \cup {Dev}
        BY DEF UpgradeTypeOK
      <3>. QED BY <3>1, <3>2, <3>3, ProceedsToNewer
    <2>3. UpgradeNext
      BY DEF upgradeVars
    <2>4. \/ runInstaller \/ \E p \in Installables : upgradeOne(p)
      BY <2>3 DEF UpgradeNext, CheckViti, ListStatesFails, planRun, confirm, runPluginUpgrade,
                  FetchIndex, Summarised, CheckPlugin, CheckOwn, Publish
    <2>. QED BY <2>1, <2>2, <2>4
  <1>. QED BY <1>1, UpgradeStarts, UpgradeStep, PTL DEF UpgradeSpec, InstallsOnlyUpgrades

-----------------------------------------------------------------------------
(***************************************************************************)
(* Logins, and what talosctl is directed at (LoginEndpoints, TalosOps).    *)
(***************************************************************************)

\* What a login is given, and does not change.
LoginGiven ==
    /\ \A m \in Machines : fleet[m] \in [name : Names, report : Report(m)]
    /\ cpvips \in [count : 0..2, vip : {{}, VIP}, status : BOOLEAN, spec : BOOLEAN]
    /\ wish \in [from : {"auto", "secret", "override"}, vip : BOOLEAN, v6 : BOOLEAN]

\* What the addresses of a machine are, and that they are of that machine.
LEMMA AddressesAre ==
    ASSUME NEW m
    PROVE  /\ \A a \in Card(m) : a.of = "card" /\ a.m = m
           /\ \A a \in Bridge(m) : a.of = "bridge" /\ a.m = m
           /\ \A a \in Loop(m) : a.of = "loopback" /\ a.m = m
  <1>1. ASSUME NEW a \in Card(m) PROVE a.of = "card" /\ a.m = m
    <2>1. PICK v6 \in BOOLEAN : a = Address("card", m, v6)
      BY DEF Card
    <2>. QED BY <2>1 DEF Address
  <1>2. \A a \in Bridge(m) : a.of = "bridge" /\ a.m = m
    BY DEF Bridge, Address
  <1>3. \A a \in Loop(m) : a.of = "loopback" /\ a.m = m
    BY DEF Loop, Address
  <1>. QED BY <1>1, <1>2, <1>3

\* The interfaces of a report are cards or bridges, with addresses of their kind.
LEMMA InterfacesAre ==
    ASSUME NEW m, NEW i \in Iface(m)
    PROVE  \/ i.of = "card" /\ i.addrs \subseteq Card(m) \cup Loop(m)
           \/ i.of = "bridge" /\ i.addrs \subseteq Bridge(m) \cup Loop(m)
  BY DEF Iface

\* An interface counts if it is told to be a card.
LEMMA KeptAreTold ==
    ASSUME NEW m
    PROVE  Kept(fleet[m].report.ifaces) = {i \in fleet[m].report.ifaces : ToldACard(m, i)}
  BY DEF Kept, ToldACard

\* Whatever is taken from a report is an address of the machine.
LEMMA ReportedAre ==
    ASSUME NEW m \in Machines, fleet[m].report \in Report(m)
    PROVE  /\ Reported(fleet[m].report) \subseteq Card(m) \cup Bridge(m) \cup Loop(m)
           /\ fleet[m].report.public \subseteq Card(m) \cup Bridge(m) \cup Loop(m)
  <1>. DEFINE report == fleet[m].report
              raw == UNION {i.addrs : i \in Kept(report.ifaces)}
              All == Card(m) \cup Bridge(m) \cup Loop(m)
  <1>1. /\ report.ifaces \subseteq Iface(m)
        /\ report.ips \subseteq All /\ report.private \subseteq All /\ report.public \subseteq All
    BY DEF Report
  <1>2. \A i \in Kept(report.ifaces) : i \in Iface(m)
    BY <1>1, KeptAreTold
  <1>3. \A i \in Kept(report.ifaces) : i.addrs \subseteq All
    BY <1>2, InterfacesAre
  <1>4. raw \subseteq All
    BY <1>3
  <1>5. Reported(report) = IF raw # {} THEN raw
                           ELSE IF report.ips # {} THEN report.ips
                           ELSE IF report.private # {} THEN report.private
                           ELSE report.public
    BY DEF Reported
  <1>. HIDE DEF raw, All
  <1>. QED BY <1>1, <1>4, <1>5 DEF All

\* What is found of a machine is its own, no loopback, and cards only where the
\* report tells.
LEMMA MachineNodeIPsAre ==
    ASSUME NEW m \in Machines, fleet[m].report \in Report(m), NEW a \in MachineNodeIPs(m)
    PROVE  a.m = m /\ a.of \in {"card", "bridge"} /\ (Telling(m) => a.of = "card")
  <1>. DEFINE report == fleet[m].report
              raw == UNION {i.addrs : i \in Kept(report.ifaces)}
  <1>1. a \in Reported(report) /\ a.of # "loopback"
    BY DEF MachineNodeIPs, isUsableNodeIP
  <1>2. a.m = m /\ a.of \in {"card", "bridge"}
    BY <1>1, ReportedAre, AddressesAre
  <1>3. ASSUME Telling(m) PROVE a.of = "card"
    <2>1. PICK i \in report.ifaces : ToldACard(m, i) /\ i.addrs \cap Card(m) # {}
      BY <1>3 DEF Telling
    <2>2. i \in Kept(report.ifaces)
      BY <2>1, KeptAreTold
    <2>3. raw # {}
      BY <2>1, <2>2
    <2>4. a \in raw
      BY <1>1, <2>3 DEF Reported
    <2>5. PICK j \in Kept(report.ifaces) : a \in j.addrs
      BY <2>4
    <2>6. j \in report.ifaces /\ j.of = "card"
      BY <1>3, KeptAreTold DEF Telling
    <2>7. j \in Iface(m)
      BY <2>6 DEF Report
    <2>8. j.addrs \subseteq Card(m) \cup Loop(m)
      BY <2>6, <2>7, InterfacesAre
    <2>. QED BY <1>1, <2>5, <2>8, AddressesAre
  <1>. QED BY <1>2, <1>3

\* A report that tells leads to a card.
LEMMA TellingShowsACard ==
    ASSUME NEW m, Telling(m)
    PROVE  MachineNodeIPs(m) # {}
  <1>. DEFINE report == fleet[m].report
              raw == UNION {i.addrs : i \in Kept(report.ifaces)}
  <1>1. PICK i \in report.ifaces : ToldACard(m, i) /\ i.addrs \cap Card(m) # {}
    BY DEF Telling
  <1>2. PICK a \in Card(m) : a \in i.addrs
    BY <1>1
  <1>3. i \in Kept(report.ifaces)
    BY <1>1, KeptAreTold
  <1>4. a \in raw
    BY <1>2, <1>3
  <1>5. a \in Reported(report)
    BY <1>4 DEF Reported
  <1>6. a.of = "card"
    BY AddressesAre
  <1>. QED BY <1>5, <1>6 DEF MachineNodeIPs, isUsableNodeIP

\* The nodes of these names, of a family that was asked for.
LEMMA NodesOfNames ==
    ASSUME LoginGiven, NEW names, NEW a \in NodeIPs(names)
    PROVE  NodeOf(names, a) /\ (a.v6 => wish.v6)
  <1>1. PICK m \in Machines : fleet[m].name \in names /\ a \in MachineNodeIPs(m)
    BY DEF NodeIPs, filterIPFamily
  <1>2. fleet[m].report \in Report(m)
    BY DEF LoginGiven
  <1>3. a.v6 => wish.v6
    BY DEF NodeIPs, filterIPFamily
  <1>. QED BY <1>1, <1>2, <1>3, MachineNodeIPsAre DEF NodeOf

\* A card that a report shows is found.
LEMMA ShownIsFound ==
    ASSUME LoginGiven, NEW names, NEW m \in Machines, fleet[m].name \in names,
           NEW a \in Card(m), a.v6 => wish.v6,
           IF fleet[m].report.ifaces = {} THEN a \in fleet[m].report.ips
           ELSE \E i \in fleet[m].report.ifaces : ToldACard(m, i) /\ a \in i.addrs
    PROVE  a \in NodeIPs(names)
  <1>. DEFINE report == fleet[m].report
              raw == UNION {i.addrs : i \in Kept(report.ifaces)}
  <1>1. a \in Reported(report)
    <2>1. CASE report.ifaces = {}
      <3>1. Kept(report.ifaces) = {}
        BY <2>1, KeptAreTold
      <3>2. raw = {} /\ a \in report.ips
        BY <2>1, <3>1
      <3>. QED BY <3>2 DEF Reported
    <2>2. CASE report.ifaces # {}
      <3>1. PICK i \in report.ifaces : ToldACard(m, i) /\ a \in i.addrs
        BY <2>2
      <3>2. i \in Kept(report.ifaces)
        BY <3>1, KeptAreTold
      <3>3. a \in raw
        BY <3>1, <3>2
      <3>. QED BY <3>3 DEF Reported
    <2>. QED BY <2>1, <2>2
  <1>2. a.of = "card"
    BY AddressesAre
  <1>3. a \in MachineNodeIPs(m)
    BY <1>1, <1>2 DEF MachineNodeIPs, isUsableNodeIP
  <1>. QED BY <1>3 DEF NodeIPs, filterIPFamily

\* The endpoints by their source, whichever list fails.
Resolved(found, listed) ==
    /\ \A a \in found.addrs : found.source # "secret" => (a.v6 => wish.v6)
    /\ \/ /\ found.source = "cpvip"
          /\ \A a \in found.addrs : \/ a.of = "card" /\ fleet[a.m].name = "id-ctp"
                                    \/ a \in VIP /\ wish.vip /\ cpvips.count = 1
       \/ found.source = "machines" /\ \A a \in found.addrs : NodeOf(CtpPrefixed, a)
       \/ /\ found.source = "secret" /\ found.addrs = Secret
          /\ listed => NodeIPs(CtpPrefixed) = {}

\* What the endpoints are, whichever list fails.
LEMMA EndpointsResolved ==
    ASSUME LoginGiven, NEW c \in BOOLEAN, NEW m \in BOOLEAN,
           NEW found, found = ResolveControlPlaneEndpoints(c, m)
    PROVE  Resolved(found, m) /\ found.complete = (c /\ m)
  <1>. DEFINE shared   == IF c THEN filterIPFamily(cpvipEndpoints) ELSE {}
              machines == IF m THEN controlPlaneMachineEndpoints ELSE {}
              all      == c /\ m
  <1>1. found = IF shared # {} THEN [addrs |-> shared, source |-> "cpvip", complete |-> all]
                ELSE IF machines # {} THEN [addrs |-> machines, source |-> "machines", complete |-> all]
                ELSE [addrs |-> Secret, source |-> "secret", complete |-> all]
    BY DEF ResolveControlPlaneEndpoints
  <1>2. \A a \in shared : /\ a.v6 => wish.v6
                          /\ \/ a.of = "card" /\ fleet[a.m].name = "id-ctp"
                             \/ a \in VIP /\ wish.vip /\ cpvips.count = 1
    <2>1. \A a \in Pool : a.of = "card" /\ fleet[a.m].name = "id-ctp"
      BY AddressesAre DEF Pool
    <2>2. cpvips.vip \subseteq VIP
      BY DEF LoginGiven
    <2>3. cpvipEndpoints \subseteq Pool \cup (IF wish.vip /\ cpvips.count = 1 THEN VIP ELSE {})
      BY <2>2 DEF cpvipEndpoints
    <2>4. \A A : filterIPFamily(A) \subseteq A /\ \A a \in filterIPFamily(A) : a.v6 => wish.v6
      BY DEF filterIPFamily
    <2>. QED BY <2>1, <2>3, <2>4
  <1>3. /\ \A a \in machines : NodeOf(CtpPrefixed, a) /\ (a.v6 => wish.v6)
        /\ machines = {} /\ m => NodeIPs(CtpPrefixed) = {}
    BY NodesOfNames DEF controlPlaneMachineEndpoints
  <1>. HIDE DEF shared, machines, all
  <1>4. CASE shared # {}
    <2>1. found.addrs = shared /\ found.source = "cpvip" /\ found.complete = all
      BY <1>1, <1>4
    <2>. QED BY <1>2, <2>1 DEF Resolved, all
  <1>5. CASE shared = {} /\ machines # {}
    <2>1. found.addrs = machines /\ found.source = "machines" /\ found.complete = all
      BY <1>1, <1>5
    <2>. QED BY <1>3, <2>1 DEF Resolved, all
  <1>6. CASE shared = {} /\ machines = {}
    <2>1. found.addrs = Secret /\ found.source = "secret" /\ found.complete = all
      BY <1>1, <1>6
    <2>. QED BY <1>3, <1>6, <2>1 DEF Resolved, all
  <1>. QED BY <1>4, <1>5, <1>6

\* A login starts with any reports whatever.
LEMMA LoginIsGiven == LoginInit => LoginGiven
  BY DEF LoginInit, LoginGiven

\* The one step of a login.
LEMMA LoginStep ==
    ASSUME LoginGiven, EndpointsAreControlPlanes, [doTalosconfig]_loginVars
    PROVE  (LoginGiven /\ EndpointsAreControlPlanes)'
  <1>1. CASE doTalosconfig
    <2>1. UNCHANGED <<fleet, cpvips, wish>>
      BY <1>1 DEF doTalosconfig
    <2>2. LoginGiven'
      BY <2>1 DEF LoginGiven
    <2>3. ASSUME wish.from = "auto" PROVE EndpointsAreControlPlanes'
      <3>1. PICK c \in BOOLEAN, m \in BOOLEAN : endpoints' = ResolveControlPlaneEndpoints(c, m)
        BY <1>1, <2>3 DEF doTalosconfig
      <3>2. Resolved(endpoints', m) /\ endpoints'.complete = (c /\ m)
        BY <3>1, EndpointsResolved
      <3>3. \A a \in Secret : ~a.v6
        <4>1. Address("secret", "", FALSE).v6 = FALSE
          BY DEF Address
        <4>. QED BY <4>1 DEF Secret
      <3>4. \A a \in endpoints'.addrs : a.v6 => wish.v6
        BY <3>2, <3>3 DEF Resolved
      <3>5. \A a : NodeOf(CtpPrefixed, a) <=> NodeOf(CtpPrefixed, a)'
        BY <2>1 DEF NodeOf, Telling, ToldACard
      <3>6. ASSUME endpoints'.source = "secret", endpoints'.complete, NEW n \in Machines,
                   fleet[n].name = "id-ctp"
            PROVE  LET report == fleet[n].report
                       shown  == IF report.ifaces = {} THEN report.ips
                                 ELSE UNION {i.addrs : i \in {j \in report.ifaces : ToldACard(n, j)}}
                   IN filterIPFamily(shown \cap Card(n)) = {}
        <4>. DEFINE report == fleet[n].report
                    shown  == IF report.ifaces = {} THEN report.ips
                              ELSE UNION {i.addrs : i \in {j \in report.ifaces : ToldACard(n, j)}}
        <4>1. NodeIPs(CtpPrefixed) = {}
          BY <3>2, <3>6 DEF Resolved
        <4>2. ASSUME NEW a \in filterIPFamily(shown \cap Card(n)) PROVE FALSE
          <5>1. a \in Card(n) /\ a \in shown /\ (a.v6 => wish.v6)
            BY DEF filterIPFamily
          <5>2. IF report.ifaces = {} THEN a \in report.ips
                ELSE \E i \in report.ifaces : ToldACard(n, i) /\ a \in i.addrs
            BY <5>1
          <5>3. fleet[n].name \in CtpPrefixed
            BY <3>6 DEF CtpPrefixed
          <5>4. a \in NodeIPs(CtpPrefixed)
            BY <5>1, <5>2, <5>3, ShownIsFound
          <5>. QED BY <4>1, <5>4
        <4>. QED BY <4>2
      <3>7. ASSUME NEW n PROVE /\ \A j : ToldACard(n, j) <=> ToldACard(n, j)'
                               /\ \A A : filterIPFamily(A)' = filterIPFamily(A)
        BY <2>1 DEF ToldACard, filterIPFamily
      <3>8. endpoints'.source = "secret" => endpoints'.addrs \subseteq Secret
        BY <3>2 DEF Resolved
      <3>9. endpoints'.source = "cpvip" =>
              \A a \in endpoints'.addrs : \/ a.of = "card" /\ fleet[a.m].name = "id-ctp"
                                          \/ a \in VIP /\ wish.vip /\ cpvips.count = 1
        BY <3>2 DEF Resolved
      <3>10. endpoints'.source = "machines" => \A a \in endpoints'.addrs : NodeOf(CtpPrefixed, a)'
        BY <3>2, <3>5 DEF Resolved
      <3>11. ASSUME endpoints'.source = "secret", endpoints'.complete
             PROVE  (\A m_1 \in {n \in Machines : fleet[n].name = "id-ctp"} :
                       LET report == fleet[m_1].report
                           shown  == IF report.ifaces = {} THEN report.ips
                                     ELSE UNION {i.addrs : i \in {j \in report.ifaces : ToldACard(m_1, j)}}
                       IN filterIPFamily(shown \cap Card(m_1)) = {})'
        BY <2>1, <3>6, <3>7, <3>11
      <3>. QED BY <2>1, <3>4, <3>8, <3>9, <3>10, <3>11 DEF EndpointsAreControlPlanes
    <2>4. CASE wish.from # "auto"
      BY <2>1, <2>2, <2>4 DEF EndpointsAreControlPlanes
    <2>. QED BY <2>2, <2>3, <2>4
  <1>2. CASE UNCHANGED loginVars
    <2>1. UNCHANGED <<fleet, cpvips, wish, endpoints>>
      BY <1>2 DEF loginVars
    <2>. QED BY <2>1 DEF LoginGiven, EndpointsAreControlPlanes, NodeOf, Telling, ToldACard, filterIPFamily
  <1>. QED BY <1>1, <1>2

\* The endpoints of a talosconfig are of a family that was asked for, and the
\* load balancer only if it was asked for; those of a shared address are the
\* cluster's control planes; those of machines are of machines with the names of
\* its control planes, and cards where a report tells cards from bridges; and the
\* secret's are not fallen back to while a control plane shows a card
\* (endpoints.go): for any machines, names and reports.
THEOREM LoginDialsControlPlanes == LoginSpec => []EndpointsAreControlPlanes
  <1>1. LoginInit => EndpointsAreControlPlanes
    BY DEF LoginInit, EndpointsAreControlPlanes
  <1>. QED BY <1>1, LoginIsGiven, LoginStep, PTL DEF LoginSpec

\* What may be dialled.
Dialled(a) ==
    \/ a \in Given /\ wish.from = "override"
    \/ a \in VIP /\ wish.vip
    \/ NodeOf(CtpPrefixed, a)

\* Whether the nodes that were picked are those that were meant.
Directed ==
    /\ op.what \in EtcdOps /\ ~op.node =>
         /\ Cardinality(talos.nodes) = 1 /\ talos.nodes \subseteq talos.answer
         /\ \A a \in talos.nodes : Dialled(a)
    /\ op.what = "health" =>
         /\ Cardinality(talos.nodes) = 1 /\ endpoints.addrs \subseteq talos.answer
         /\ talos.nodes \subseteq (IF talos.controlPlane # {} THEN talos.controlPlane ELSE talos.answer)
         /\ \A a \in talos.controlPlane : NodeOf(CtpPrefixed, a)
         /\ \A a \in talos.workers : NodeOf(Prefixed \ CtpPrefixed, a)
    /\ op.what = "console" =>
         \A a \in talos.nodes : a \in endpoints.addrs \/ NodeOf(Prefixed, a)
    /\ op.what = "machine console" /\ ~op.node =>
         \A a \in talos.nodes : a.m = op.machine /\ (Telling(a.m) => a.of = "card")

TalosInv ==
    /\ LoginGiven
    /\ op \in Ops
    /\ talos = [at |-> talos.at, answer |-> talos.answer, nodes |-> talos.nodes,
                controlPlane |-> talos.controlPlane, workers |-> talos.workers, temp |-> talos.temp]
    /\ talos.temp \in BOOLEAN
    /\ \A a \in endpoints.addrs : Dialled(a)
    /\ talos.at = "nodes" /\ op.what \in EtcdOps \cup {"health"} => endpoints.addrs \subseteq talos.answer
    /\ talos.at \in {"confirm", "config", "write", "talosctl"} => Directed
    /\ TempConfigRemoved

\* A talosctl command starts without endpoints, nodes and file.
LEMMA TalosStarts == TalosInit => TalosInv
  <1>. SUFFICES ASSUME TalosInit PROVE TalosInv
    OBVIOUS
  <1>1. /\ talos = [at |-> "endpoints", answer |-> {}, nodes |-> {}, controlPlane |-> {}, workers |-> {},
                    temp |-> FALSE]
        /\ op \in Ops /\ LoginInit
    BY DEF TalosInit
  <1>2. endpoints.addrs = {}
    BY <1>1 DEF LoginInit, Unset
  <1>. QED BY <1>1, <1>2, LoginIsGiven DEF TalosInv, TempConfigRemoved

\* What does not change meanwhile.
LEMMA TalosFrame ==
    ASSUME TalosInv, UNCHANGED <<fleet, cpvips, wish, op>>
    PROVE  /\ LoginGiven' /\ op' \in Ops
           /\ \A a : Dialled(a)' <=> Dialled(a)
           /\ \A names, a : NodeOf(names, a)' <=> NodeOf(names, a)
           /\ \A m : Telling(m)' <=> Telling(m)
  <1>1. LoginGiven' /\ op' \in Ops
    BY DEF TalosInv, LoginGiven
  <1>2. \A m : Telling(m)' <=> Telling(m)
    BY DEF Telling, ToldACard
  <1>3. \A names, a : NodeOf(names, a)' <=> NodeOf(names, a)
    BY <1>2 DEF NodeOf
  <1>4. \A a : Dialled(a)' <=> Dialled(a)
    BY <1>3 DEF Dialled
  <1>. QED BY <1>1, <1>2, <1>3, <1>4

\* Nodes that are left alone stay right.
LEMMA DirectedFrame ==
    ASSUME TalosInv, Directed, UNCHANGED <<fleet, cpvips, wish, op, endpoints>>,
           talos'.nodes = talos.nodes, talos'.controlPlane = talos.controlPlane,
           talos'.workers = talos.workers, talos'.answer = talos.answer
    PROVE  Directed'
  <1>1. Cardinality(talos'.nodes) = Cardinality(talos.nodes)
    OBVIOUS
  <1>. QED BY <1>1, TalosFrame DEF Directed

\* Every step of a talosctl command keeps the invariant.
LEMMA TalosStep ==
    ASSUME TalosInv, [TalosNext]_talosVars
    PROVE  TalosInv'
  <1>. USE DEF TalosInv
  \* A step that picks nodes.
  <1>0. ASSUME NEW N, NEW s \in {"confirm", "config", "failed"}, DirectedAt(N, s),
               talos.at = "nodes", UNCHANGED <<loginVars, op>>, op.what # "health",
               op.what \in EtcdOps /\ ~op.node =>
                  Cardinality(N) = 1 /\ N \subseteq talos.answer /\ \A a \in N : Dialled(a),
               op.what = "console" => \A a \in N : a \in endpoints.addrs \/ NodeOf(Prefixed, a),
               op.what = "machine console" /\ ~op.node =>
                  \A a \in N : a.m = op.machine /\ (Telling(a.m) => a.of = "card")
        PROVE  TalosInv'
    <2>1. talos' = [at |-> s, answer |-> talos.answer, nodes |-> N, controlPlane |-> talos.controlPlane,
                    workers |-> talos.workers, temp |-> talos.temp]
      BY <1>0 DEF DirectedAt
    <2>2. UNCHANGED <<fleet, cpvips, wish, op, endpoints>>
      BY <1>0 DEF loginVars
    <2>3. Directed'
      BY <1>0, <2>1, <2>2, TalosFrame DEF Directed
    <2>4. ~talos.temp
      BY <1>0 DEF TempConfigRemoved
    <2>. QED BY <1>0, <2>1, <2>2, <2>3, <2>4, TalosFrame DEF TempConfigRemoved
  \* A step that picks none.
  <1>a. ASSUME NEW s, NEW b \in BOOLEAN, s # "nodes", s # "probe",
               talos' = [talos EXCEPT !.temp = b, !.at = s],
               UNCHANGED <<loginVars, op>>,
               s \in {"confirm", "config", "write", "talosctl"} =>
                  talos.at \in {"confirm", "config", "write", "talosctl"},
               b => s \in {"write", "talosctl", "killed"}
        PROVE  TalosInv'
    <2>1. talos' = [at |-> s, answer |-> talos.answer, nodes |-> talos.nodes,
                    controlPlane |-> talos.controlPlane, workers |-> talos.workers, temp |-> b]
      BY <1>a
    <2>2. UNCHANGED <<fleet, cpvips, wish, op, endpoints>>
      BY <1>a DEF loginVars
    <2>3. Directed => Directed'
      BY <2>1, <2>2, DirectedFrame
    <2>. QED BY <1>a, <2>1, <2>2, <2>3, TalosFrame DEF TempConfigRemoved
  <1>1. CASE ResolveEndpoints
    <2>1. PICK c \in BOOLEAN, m \in BOOLEAN :
            endpoints' = IF wish.from = "override" THEN [Unset EXCEPT !.addrs = Given, !.source = "override"]
                         ELSE [ResolveControlPlaneEndpoints(c, m) EXCEPT !.addrs = @ \ Secret]
      BY <1>1 DEF ResolveEndpoints
    <2>2. \A a \in endpoints'.addrs : Dialled(a)
      <3>1. CASE wish.from = "override"
        BY <2>1, <3>1 DEF Unset, Dialled
      <3>2. CASE wish.from # "override"
        <4>. DEFINE found == ResolveControlPlaneEndpoints(c, m)
        <4>1. Resolved(found, m)
          BY EndpointsResolved
        <4>2. endpoints'.addrs = found.addrs \ Secret
          BY <2>1, <3>2 DEF ResolveControlPlaneEndpoints
        <4>3. ASSUME NEW a, a.of = "card", fleet[a.m].name = "id-ctp" PROVE NodeOf(CtpPrefixed, a)
          BY <4>3 DEF NodeOf, CtpPrefixed
        <4>. HIDE DEF found
        <4>. QED BY <4>1, <4>2, <4>3 DEF Resolved, Dialled
      <3>. QED BY <3>1, <3>2
    <2>3. PICK s \in {"failed", "nodes", "probe"} :
            TalosGoto(s) /\ (s = "nodes" => op.what \in {"console", "machine console"})
      BY <1>1 DEF ResolveEndpoints
    <2>4. talos.at = "endpoints" /\ UNCHANGED <<fleet, cpvips, wish, op>>
      BY <1>1 DEF ResolveEndpoints
    <2>5. talos' = [at |-> s, answer |-> talos.answer, nodes |-> talos.nodes,
                    controlPlane |-> talos.controlPlane, workers |-> talos.workers, temp |-> talos.temp]
      BY <2>3 DEF TalosGoto
    <2>. QED BY <2>2, <2>3, <2>4, <2>5, TalosFrame DEF TempConfigRemoved, EtcdOps
  <1>2. CASE ProbeReachable
    <2>1. PICK R \in SUBSET endpoints.addrs :
            /\ talos' = [talos EXCEPT !.answer = R, !.at = IF R = {} THEN "failed" ELSE "nodes"]
            /\ endpoints' = [endpoints EXCEPT !.addrs = R]
      BY <1>2 DEF ProbeReachable
    <2>2. PICK s \in {"failed", "nodes"} :
            talos' = [at |-> s, answer |-> R, nodes |-> talos.nodes, controlPlane |-> talos.controlPlane,
                      workers |-> talos.workers, temp |-> talos.temp]
      BY <2>1
    <2>3. talos.at = "probe" /\ UNCHANGED <<fleet, cpvips, wish, op>>
      BY <1>2 DEF ProbeReachable
    <2>4. endpoints'.addrs \subseteq R
      BY <2>1
    <2>. QED BY <2>2, <2>3, <2>4, TalosFrame DEF TempConfigRemoved
  <1>3. CASE EtcdNode
    <2>1. PICK a \in MayBeFirst(endpoints.addrs) :
            DirectedAt(IF op.node THEN Given ELSE {a},
                       IF op.what = "restore" /\ ~op.yes THEN "confirm" ELSE "config")
      BY <1>3 DEF EtcdNode
    <2>2. talos.at = "nodes" /\ op.what \in EtcdOps /\ UNCHANGED <<loginVars, op>>
      BY <1>3 DEF EtcdNode
    <2>3. a \in endpoints.addrs
      BY DEF MayBeFirst
    <2>4. Cardinality({a}) = 1 /\ {a} \subseteq talos.answer /\ Dialled(a)
      BY <2>2, <2>3, FS_Singleton
    <2>5. PICK N, s : s \in {"confirm", "config"} /\ DirectedAt(N, s) /\ (~op.node => N = {a})
      BY <2>1
    <2>6. op.what \notin {"health", "console", "machine console"}
      BY <2>2 DEF EtcdOps
    <2>. QED BY <1>0, <2>2, <2>4, <2>5, <2>6
  <1>4. CASE confirmDestructive
    <2>1. talos.at = "confirm" /\ UNCHANGED <<loginVars, op>>
      BY <1>4 DEF confirmDestructive
    <2>2. PICK s \in {"config", "failed"} : TalosGoto(s)
      BY <1>4 DEF confirmDestructive
    <2>3. ~talos.temp
      BY <2>1 DEF TempConfigRemoved
    <2>4. talos' = [talos EXCEPT !.temp = talos.temp, !.at = s]
      BY <2>2 DEF TalosGoto
    <2>. QED BY <1>a, <2>1, <2>2, <2>3, <2>4
  <1>5. CASE NodeRoles
    <2>1. talos.at = "nodes" /\ op.what = "health" /\ UNCHANGED <<loginVars, op>>
      BY <1>5 DEF NodeRoles
    <2>2. PICK roles \in {ResolveNodeRoles, [controlPlane |-> {}, workers |-> {}]} :
            \E a \in (IF roles.controlPlane # {} THEN roles.controlPlane ELSE MayBeFirst(endpoints.addrs)) :
              talos' = [talos EXCEPT !.nodes = {a}, !.controlPlane = roles.controlPlane,
                                     !.workers = roles.workers, !.at = "config"]
      BY <1>5 DEF NodeRoles
    <2>3. PICK a \in (IF roles.controlPlane # {} THEN roles.controlPlane ELSE MayBeFirst(endpoints.addrs)) :
            talos' = [talos EXCEPT !.nodes = {a}, !.controlPlane = roles.controlPlane,
                                   !.workers = roles.workers, !.at = "config"]
      BY <2>2
    <2>4. /\ \A b \in roles.controlPlane : NodeOf(CtpPrefixed, b)
          /\ \A b \in roles.workers : NodeOf(Prefixed \ CtpPrefixed, b)
      BY <2>2, NodesOfNames DEF ResolveNodeRoles
    <2>5. MayBeFirst(endpoints.addrs) \subseteq talos.answer /\ endpoints.addrs \subseteq talos.answer
      BY <2>1 DEF MayBeFirst
    <2>6. talos' = [at |-> "config", answer |-> talos.answer, nodes |-> {a}, controlPlane |-> roles.controlPlane,
                    workers |-> roles.workers, temp |-> talos.temp]
      BY <2>3
    <2>7. UNCHANGED <<fleet, cpvips, wish, op, endpoints>>
      BY <2>1 DEF loginVars
    <2>8. Cardinality({a}) = 1
      BY FS_Singleton
    <2>9. {a} \subseteq (IF roles.controlPlane # {} THEN roles.controlPlane ELSE talos.answer)
      BY <2>5
    <2>10. Directed'
      BY <2>1, <2>4, <2>5, <2>6, <2>7, <2>8, <2>9, TalosFrame DEF Directed, EtcdOps
    <2>11. ~talos.temp
      BY <2>1 DEF TempConfigRemoved
    <2>. QED BY <2>6, <2>7, <2>10, <2>11, TalosFrame DEF TempConfigRemoved
  <1>6. CASE ClusterConsole
    <2>1. talos.at = "nodes" /\ op.what = "console" /\ UNCHANGED <<loginVars, op>>
      BY <1>6 DEF ClusterConsole
    <2>2. \A a \in ResolveClusterMachineNodes : NodeOf(Prefixed, a)
      BY NodesOfNames DEF ResolveClusterMachineNodes
    <2>3. PICK N : DirectedAt(N, "config") /\ \A a \in N : a \in endpoints.addrs \/ NodeOf(Prefixed, a)
      BY <1>6, <2>2 DEF ClusterConsole
    <2>. QED BY <1>0, <2>1, <2>3 DEF EtcdOps
  <1>7. CASE MachineConsole
    <2>1. talos.at = "nodes" /\ op.what = "machine console" /\ UNCHANGED <<loginVars, op>>
      BY <1>7 DEF MachineConsole
    <2>2. op.machine \in Machines
      BY <2>1 DEF Ops
    <2>. DEFINE m == op.machine
    <2>3. fleet[m].report \in Report(m)
      BY <2>2 DEF LoginGiven
    <2>4. ASSUME NEW a \in MachineNodeIPs(m) PROVE a.m = m /\ (Telling(m) => a.of = "card")
      BY <2>2, <2>3, MachineNodeIPsAre
    <2>5. ASSUME NEW a \in fleet[m].report.public PROVE a.m = m
      BY <2>2, <2>3, ReportedAre, AddressesAre
    <2>6. Telling(m) => MachineNodeIPs(m) # {}
      BY <2>2, <2>3, TellingShowsACard
    <2>7. \A a \in pickMachineNodes(m) : a.m = m /\ (Telling(a.m) => a.of = "card")
      BY <2>4, <2>5, <2>6 DEF pickMachineNodes
    <2>8. PICK N, s : /\ s \in {"failed", "config"} /\ DirectedAt(N, s)
                      /\ ~op.node => \A a \in N : a.m = m /\ (Telling(a.m) => a.of = "card")
      BY <1>7, <2>7 DEF MachineConsole
    <2>. QED BY <1>0, <2>1, <2>8 DEF EtcdOps
  <1>8. CASE MkdirTemp
    <2>1. talos.at = "config" /\ UNCHANGED <<loginVars, op>>
      BY <1>8 DEF MkdirTemp
    <2>2. ~talos.temp
      BY <2>1 DEF TempConfigRemoved
    <2>3. \/ talos' = [talos EXCEPT !.temp = talos.temp, !.at = "failed"]
          \/ talos' = [talos EXCEPT !.temp = TRUE, !.at = "write"]
      BY <1>8 DEF MkdirTemp, TalosGoto
    <2>. QED BY <1>a, <2>1, <2>2, <2>3
  <1>9. CASE WriteTempTalosconfig
    <2>1. talos.at = "write" /\ UNCHANGED <<loginVars, op>>
      BY <1>9 DEF WriteTempTalosconfig
    <2>2. \/ talos' = [talos EXCEPT !.temp = FALSE, !.at = "failed"]
          \/ talos' = [talos EXCEPT !.temp = talos.temp, !.at = "talosctl"]
      BY <1>9 DEF WriteTempTalosconfig, TalosGoto
    <2>. QED BY <1>a, <2>1, <2>2
  <1>10. CASE runTalosctl
    <2>1. talos.at = "talosctl" /\ UNCHANGED <<loginVars, op>>
      BY <1>10 DEF runTalosctl
    <2>2. PICK s \in {"done", "failed"} : talos' = [talos EXCEPT !.temp = FALSE, !.at = s]
      BY <1>10 DEF runTalosctl
    <2>. QED BY <1>a, <2>1, <2>2
  <1>11. CASE TalosKilled
    <2>1. talos' = [talos EXCEPT !.temp = talos.temp, !.at = "killed"] /\ UNCHANGED <<loginVars, op>>
      BY <1>11 DEF TalosKilled, TalosGoto
    <2>. QED BY <1>a, <2>1
  <1>12. CASE ClusterNotFound
    <2>1. talos.at = "endpoints" /\ UNCHANGED <<loginVars, op>>
      BY <1>12 DEF ClusterNotFound
    <2>2. talos' = [talos EXCEPT !.temp = talos.temp, !.at = "failed"] /\ ~talos.temp
      BY <1>12, <2>1 DEF ClusterNotFound, TalosGoto, TempConfigRemoved
    <2>. QED BY <1>a, <2>1, <2>2
  <1>13. CASE UNCHANGED talosVars
    <2>1. UNCHANGED <<fleet, cpvips, wish, op, endpoints, talos>>
      BY <1>13 DEF talosVars, loginVars
    <2>2. Directed => Directed'
      BY <2>1, DirectedFrame
    <2>. QED BY <2>1, <2>2, TalosFrame DEF TempConfigRemoved
  <1>. QED BY <1>1, <1>2, <1>3, <1>4, <1>5, <1>6, <1>7, <1>8, <1>9, <1>10, <1>11, <1>12, <1>13 DEF TalosNext

\* What talosctl is directed at are nodes with the names of the cluster's, in
\* their roles, cards where a report tells, endpoints that answered, or what a
\* flag says; the console of a machine at that machine (talosctl.go,
\* machine_console.go): for any machines, names and reports, whichever list
\* fails.
THEOREM TalosctlReachesTheCluster == TalosSpec => []DirectedAtTheCluster
  <1>1. TalosInv => DirectedAtTheCluster
    <2>1. Prefixed \ CtpPrefixed = {"id-wrk", "id-2-ctp"}
      BY DEF Prefixed, CtpPrefixed, Names
    <2>. QED BY <2>1 DEF TalosInv, Directed, Dialled, DirectedAtTheCluster
  <1>. QED BY <1>1, TalosStarts, TalosStep, PTL DEF TalosSpec

\* The configuration that talosctl is lent is removed however it ends, unless
\* the command is killed (console/talos.go).
THEOREM TempConfigsAreRemoved == TalosSpec => []TempConfigRemoved
  <1>1. TalosInv => TempConfigRemoved
    BY DEF TalosInv
  <1>. QED BY <1>1, TalosStarts, TalosStep, PTL DEF TalosSpec

-----------------------------------------------------------------------------
(***************************************************************************)
(* The list of plugins (PluginList).                                       *)
(***************************************************************************)

\* A name is found where it is in the list.
LEMMA AtIs ==
    ASSUME NEW n \in CmdNames
    PROVE  At(n) \in 1..Len(Commands) /\ Commands[At(n)] = n
  BY DEF CmdNames, At

\* Of some files one is found first.
LEMMA FirstFoundIs ==
    ASSUME NEW X \in SUBSET Files, X # {}
    PROVE  FirstFound(X) \in X
  <1>1. Len(Commands) \in Nat /\ Len(Places) \in Nat
    BY ListAssumption
  <1>. DEFINE T == {At(x[2]) : x \in X}
  <1>2. \A x \in X : x[1] \in Nat /\ At(x[2]) \in Nat /\ x[2] \in CmdNames /\ x = <<x[1], x[2]>>
    BY <1>1, AtIs DEF Files
  <1>3. PICK a \in T : \A b \in T : a <= b
    <2>1. T # {} /\ T \in SUBSET Nat
      BY <1>2
    <2>. HIDE DEF T
    <2>. QED BY <2>1, Smallest
  <1>. DEFINE U == {x[1] : x \in {y \in X : At(y[2]) = a}}
  <1>4. PICK i \in U : \A j \in U : i <= j
    <2>1. U # {} /\ U \in SUBSET Nat
      BY <1>2
    <2>. HIDE DEF U
    <2>. QED BY <2>1, Smallest
  <1>5. PICK x \in X : At(x[2]) = a /\ x[1] = i
    OBVIOUS
  <1>6. ASSUME NEW y \in X \ {x} PROVE Before(x, y)
    <2>1. a <= At(y[2]) /\ At(y[2]) \in Nat /\ a \in Nat
      BY <1>2, <1>3
    <2>2. CASE At(y[2]) = a
      <3>1. y[2] = x[2]
        BY <1>2, <1>5, <2>2, AtIs
      <3>2. y[1] # x[1]
        BY <1>2, <3>1
      <3>3. i <= y[1] /\ i \in Nat /\ y[1] \in Nat
        BY <1>2, <1>4, <2>2
      <3>. QED BY <1>5, <3>1, <3>2, <3>3 DEF Before
    <2>. QED BY <1>5, <2>1, <2>2 DEF Before
  <1>. QED BY <1>6 DEF FirstFound

\* What is found is a file on PATH.
LEMMA FoundAre == Found \subseteq Files
  BY DEF Found

\* The owner of a file is one of its names, and a recorded one if there is one.
LEMMA RowOwnerIs ==
    ASSUME NEW X \in SUBSET Files, X # {}
    PROVE  \E y \in X : /\ y[2] = rowOwner(X)
                        /\ (\E x \in X : x[2] \in Recorded) => y[2] \in Recorded
  <1>. DEFINE recorded == {z \in X : z[2] \in Recorded}
              nolink   == {z \in X : FileAt(z) = Program}
  <1>1. CASE recorded # {}
    <2>1. FirstFound(recorded) \in recorded
      BY <1>1, FirstFoundIs
    <2>2. rowOwner(X) = FirstFound(recorded)[2]
      BY <1>1 DEF rowOwner
    <2>. QED BY <2>1, <2>2
  <1>2. CASE recorded = {} /\ nolink # {}
    <2>1. FirstFound(nolink) \in nolink
      BY <1>2, FirstFoundIs
    <2>2. rowOwner(X) = FirstFound(nolink)[2]
      BY <1>2 DEF rowOwner
    <2>. QED BY <1>2, <2>1, <2>2
  <1>3. CASE recorded = {} /\ nolink = {}
    <2>1. FirstFound(X) \in X
      BY FirstFoundIs
    <2>2. rowOwner(X) = FirstFound(X)[2]
      BY <1>3 DEF rowOwner
    <2>. QED BY <1>3, <2>1, <2>2
  <1>. QED BY <1>1, <1>2, <1>3

\* A group is all that one program is found as, whichever of them is asked.
LEMMA GroupIs ==
    ASSUME NEW X \in Groups, NEW x \in X
    PROVE  x \in Found /\ \A y : y \in X <=> y \in Found /\ SameFile(x, y)
  <1>1. PICK w \in Found : X = {y \in Found : SameFile(w, y)}
    BY DEF Groups
  <1>. QED BY <1>1 DEF SameFile, Resolves

\* The rows that are printed (listInstalledPlugins).
LEMMA ListedOnce ==
    ASSUME listInstalledPlugins
    PROVE  ListsWhatIsInstalled'
  <1>1. rows' = {x \in Found : x[2] \notin aliasOwners} /\ UNCHANGED <<real, tree, records>>
    BY DEF listInstalledPlugins
  <1>2. ASSUME NEW x \in Found, x[2] \in Recorded \ RecordedAliases, x \notin rows'
        PROVE  \E y, z \in Found : y[2] \in Recorded \ {x[2]} /\ z[2] = x[2] /\ SameFile(y, z)
    <2>1. x[2] \in aliasOwners
      BY <1>1, <1>2
    <2>2. PICK X \in Groups : \E z \in X : z[2] = x[2] /\ rowOwner(X) # x[2]
      BY <1>2, <2>1 DEF aliasOwners
    <2>3. PICK z \in X : z[2] = x[2] /\ rowOwner(X) # x[2]
      BY <2>2
    <2>4. X \in SUBSET Files /\ X # {}
      BY <2>3, GroupIs, FoundAre
    <2>5. PICK y \in X : y[2] = rowOwner(X) /\ y[2] \in Recorded
      BY <1>2, <2>3, <2>4, RowOwnerIs
    <2>6. y \in Found /\ z \in Found /\ SameFile(y, z)
      BY <2>3, GroupIs
    <2>. QED BY <2>3, <2>5, <2>6
  <1>3. ASSUME NEW x \in Found, Resolves(x),
               \A y \in Found : SameFile(x, y) =>
                  y[2] \notin RecordedAliases /\ \A z \in Found : z[2] = y[2] => SameFile(y, z)
        PROVE  \E y \in rows' : SameFile(x, y)
    <2>. DEFINE X == {y \in Found : SameFile(x, y)}
    <2>1. X \in Groups /\ x \in X
      BY <1>3 DEF Groups, SameFile
    <2>. HIDE DEF X
    <2>2. X \in SUBSET Files /\ X # {}
      BY <2>1, GroupIs, FoundAre
    <2>3. PICK y \in X : y[2] = rowOwner(X)
      BY <2>2, RowOwnerIs
    <2>4. y \in Found /\ SameFile(x, y)
      BY <2>1, GroupIs
    <2>5. y[2] \notin RecordedAliases /\ \A z \in Found : z[2] = y[2] => SameFile(y, z)
      BY <1>3, <2>4
    <2>6. ASSUME NEW Y \in Groups, NEW z \in Y, z[2] = y[2] PROVE Y = X
      <3>1. z \in Found
        BY GroupIs
      <3>2. SameFile(y, z)
        BY <2>5, <2>6, <3>1
      <3>3. SameFile(x, z)
        BY <2>4, <3>2 DEF SameFile
      <3>4. z \in X
        BY <2>1, <3>1, <3>3, GroupIs
      <3>5. \A w : w \in X <=> w \in Y
        BY <2>1, <3>4, GroupIs
      <3>6. X \subseteq Found /\ Y \subseteq Found
        BY <2>1, <2>6, GroupIs
      <3>. QED BY <3>5, <3>6
    <2>7. y[2] \notin aliasOwners
      BY <2>3, <2>5, <2>6 DEF aliasOwners
    <2>. QED BY <1>1, <2>4, <2>7
  <1>4. ASSUME NEW x \in rows', NEW y \in rows', SameFile(x, y)
        PROVE  x[2] = y[2]
    <2>1. x \in Found /\ y \in Found /\ x[2] \notin aliasOwners /\ y[2] \notin aliasOwners
          /\ x[2] \in CmdNames /\ y[2] \in CmdNames
      BY <1>1, <1>4, FoundAre DEF Files
    <2>. DEFINE X == {w \in Found : SameFile(x, w)}
    <2>2. X \in Groups /\ x \in X /\ y \in X
      BY <1>4, <2>1 DEF Groups, SameFile
    <2>3. x[2] = rowOwner(X) /\ y[2] = rowOwner(X)
      <3>. HIDE DEF X
      <3>. QED BY <2>1, <2>2 DEF aliasOwners
    <2>. QED BY <2>3
  <1>5. /\ Found' = Found /\ Recorded' = Recorded /\ RecordedAliases' = RecordedAliases
        /\ \A x : Resolves(x)' <=> Resolves(x)
        /\ \A x, y : SameFile(x, y)' <=> SameFile(x, y)
    BY <1>1 DEF Found, Recorded, RecordedAliases, Resolves, SameFile, EvalSymlinks, FileAt
  <1>6. /\ \A x \in Found :
             x[2] \in Recorded \ RecordedAliases =>
               \/ x \in rows'
               \/ \E y, z \in Found : y[2] \in Recorded \ {x[2]} /\ z[2] = x[2] /\ SameFile(y, z)
        /\ \A x \in Found :
             /\ Resolves(x)
             /\ \A y \in Found : SameFile(x, y) =>
                   y[2] \notin RecordedAliases /\ \A z \in Found : z[2] = y[2] => SameFile(y, z)
             => \E y \in rows' : SameFile(x, y)
        /\ \A x, y \in rows' : SameFile(x, y) => x[2] = y[2]
    BY <1>2, <1>3, <1>4, Zenon
  <1>. QED BY <1>5, <1>6 DEF ListsWhatIsInstalled

\* An installed plugin has a row under its own name, unless the name is recorded
\* as an alias or is elsewhere the same file as another installed plugin; a
\* program whose names are no recorded aliases and mean nothing else has a row;
\* and rows of one program have one name (plugin.go): for every number of names
\* and places on PATH, wherever links lead and whatever was recorded.
THEOREM ListIsComplete == ListSpec => []ListsWhatIsInstalled
  <1>1. ListInit => ListsWhatIsInstalled
    BY DEF ListInit, ListsWhatIsInstalled
  <1>2. ListsWhatIsInstalled /\ [listInstalledPlugins]_listVars => ListsWhatIsInstalled'
    <2>. SUFFICES ASSUME ListsWhatIsInstalled, [listInstalledPlugins]_listVars
                  PROVE  ListsWhatIsInstalled'
      OBVIOUS
    <2>1. CASE listInstalledPlugins
      BY <2>1, ListedOnce
    <2>2. CASE UNCHANGED listVars
      <3>1. UNCHANGED <<real, tree, records, rows>>
        BY <2>2 DEF listVars
      <3>2. /\ Found' = Found /\ Recorded' = Recorded /\ RecordedAliases' = RecordedAliases
            /\ \A x : Resolves(x)' <=> Resolves(x)
            /\ \A x, y : SameFile(x, y)' <=> SameFile(x, y)
        BY <3>1 DEF Found, Recorded, RecordedAliases, Resolves, SameFile, EvalSymlinks, FileAt
      <3>. QED BY <3>1, <3>2 DEF ListsWhatIsInstalled
    <2>. QED BY <2>1, <2>2
  <1>. QED BY <1>1, <1>2, PTL DEF ListSpec

-----------------------------------------------------------------------------
(***************************************************************************)
(* Which plugin a command line runs (PluginDispatch).                      *)
(***************************************************************************)

\* A line of words, and plugins that some words name.
Typed == args \in Seq(Words) /\ onPath \in Installs

\* How the search for the first word goes on from i.
Search(from, i) ==
    from[i] = IF i > Len(args) THEN Len(args) + 1
              ELSE IF args[i] \notin Flags THEN i
              ELSE IF args[i] \in ZoneFlags /\ i < Len(args) THEN from[i + 2]
              ELSE from[i + 1]

\* The search for the first word ends: one value for each place is consistent.
LEMMA SearchEnds ==
    ASSUME Typed
    PROVE  \E from : firstIdx = from[1] /\ \A i \in 1..Len(args) + 2 : Search(from, i)
  <1>. DEFINE L == Len(args)
              Body(f, m) == [i \in m..L + 2 |->
                               IF i > L THEN L + 1
                               ELSE IF args[i] \notin Flags THEN i
                               ELSE IF args[i] \in ZoneFlags /\ i < L THEN f[i + 2]
                               ELSE f[i + 1]]
              Goes == {k \in Nat : k <= L + 1 => \E f : f = Body(f, L + 2 - k)}
  <1>1. L \in Nat
    BY DEF Typed
  <1>. HIDE DEF L
  <1>2. 0 \in Goes
    <2>. DEFINE f == [i \in L + 2..L + 2 |-> L + 1]
    <2>1. f = Body(f, L + 2)
      BY <1>1
    <2>2. L + 2 - 0 = L + 2
      BY <1>1
    <2>. QED BY <2>1, <2>2
  <1>3. ASSUME NEW k \in Nat, k \in Goes PROVE k + 1 \in Goes
    <2>1. SUFFICES ASSUME k + 1 <= L + 1 PROVE \E f : f = Body(f, L + 2 - (k + 1))
      OBVIOUS
    <2>. DEFINE m == L + 2 - k
    <2>2. m \in 2..L + 2 /\ L + 2 - (k + 1) = m - 1
      BY <1>1, <2>1
    <2>3. PICK f : f = Body(f, m)
      BY <1>1, <1>3, <2>1
    <2>. HIDE DEF m
    <2>4. \A i \in m..L + 2 : f[i] = Body(f, m)[i]
      BY <2>3
    <2>. DEFINE g == [i \in m - 1..L + 2 |-> IF i = m - 1 THEN Body(f, m - 1)[m - 1] ELSE f[i]]
    <2>5. \A i \in m..L + 2 : g[i] = f[i]
      BY <1>1, <2>2
    <2>6. g[m - 1] = Body(f, m - 1)[m - 1]
      BY <1>1, <2>2
    <2>7. g = [i \in m - 1..L + 2 |-> g[i]]
      OBVIOUS
    <2>. HIDE DEF g
    <2>8. ASSUME NEW i \in m - 1..L + 2 PROVE g[i] = Body(g, m - 1)[i]
      <3>1. CASE i = m - 1
        <4>1. i > L \/ i + 1 \in m..L + 2
          BY <1>1, <2>2, <3>1
        <4>2. i < L => i + 2 \in m..L + 2
          BY <1>1, <2>2, <3>1
        <4>. QED BY <2>5, <2>6, <3>1, <4>1, <4>2
      <3>2. CASE i \in m..L + 2
        <4>1. i > L \/ i + 1 \in m..L + 2
          BY <1>1, <2>2, <3>2
        <4>2. i < L => i + 2 \in m..L + 2
          BY <1>1, <2>2, <3>2
        <4>. QED BY <2>4, <2>5, <3>2, <4>1, <4>2
      <3>. QED BY <1>1, <2>2, <3>1, <3>2
    <2>9. g = Body(g, m - 1)
      BY <2>7, <2>8
    <2>. QED BY <2>2, <2>9
  <1>4. L + 1 \in Goes
    <2>. HIDE DEF Goes
    <2>. QED BY <1>1, <1>2, <1>3, EachNumber
  <1>5. \E f : f = Body(f, 1)
    <2>1. L + 2 - (L + 1) = 1
      BY <1>1
    <2>. QED BY <1>1, <1>4, <2>1
  <1>. DEFINE from == CHOOSE f : f = Body(f, 1)
  <1>6. from = Body(from, 1)
    BY <1>5
  <1>7. firstIdx = from[1]
    BY DEF firstIdx, L
  <1>. HIDE DEF from
  <1>8. \A i \in 1..L + 2 : from[i] = Body(from, 1)[i]
    BY <1>6
  <1>. QED BY <1>7, <1>8 DEF Search, L

\* The zone flags right before i.
Run(i) == {n \in 1..i - 1 : \A j \in i - n..i - 1 : args[j] \in ZoneFlags}

\* What is a value depends on how many zone flags come right before.
LEMMA ValueIs ==
    ASSUME NEW i, NEW r \in Nat, Run(i) = 1..r
    PROVE  IsValue(i) <=> r % 2 = 1
  <1>1. Cardinality(1..r) = r
    BY FS_Interval
  <1>. QED BY <1>1 DEF IsValue, Run

\* A zone flag continues the zone flags before it; any other word ends them.
LEMMA RunGrows ==
    ASSUME Typed, NEW i \in 1..Len(args)
    PROVE  /\ args[i] \notin ZoneFlags => Run(i + 1) = 1..0
           /\ \A r \in Nat : args[i] \in ZoneFlags /\ Run(i) = 1..r => Run(i + 1) = 1..r + 1
  <1>1. Len(args) \in Nat
    BY DEF Typed
  <1>2. ASSUME args[i] \notin ZoneFlags PROVE Run(i + 1) = 1..0
    <2>1. \A n \in 1..(i + 1) - 1 : i \in (i + 1) - n..(i + 1) - 1
      BY <1>1
    <2>2. 1..0 = {}
      OBVIOUS
    <2>. QED BY <1>2, <2>1, <2>2 DEF Run
  <1>3. ASSUME NEW r \in Nat, args[i] \in ZoneFlags, Run(i) = 1..r
        PROVE  Run(i + 1) = 1..r + 1
    <2>1. ASSUME NEW n \in Run(i + 1) PROVE n \in 1..r + 1
      <3>1. n \in 1..i /\ \A j \in (i + 1) - n..(i + 1) - 1 : args[j] \in ZoneFlags
        BY <1>1, <2>1 DEF Run
      <3>2. CASE n = 1
        BY <3>2
      <3>3. CASE n # 1
        <4>1. n - 1 \in 1..i - 1
          BY <1>1, <3>1, <3>3
        <4>2. \A j \in i - (n - 1)..i - 1 : j \in (i + 1) - n..(i + 1) - 1
          BY <1>1, <3>1
        <4>3. n - 1 \in Run(i)
          BY <3>1, <4>1, <4>2 DEF Run
        <4>. QED BY <1>3, <3>1, <4>3
      <3>. QED BY <3>2, <3>3
    <2>2. ASSUME NEW n \in 1..r + 1 PROVE n \in Run(i + 1)
      <3>1. CASE n = 1
        <4>1. n \in 1..(i + 1) - 1
          BY <1>1, <3>1
        <4>2. \A j \in (i + 1) - n..(i + 1) - 1 : j = i
          BY <1>1, <3>1
        <4>. QED BY <1>3, <4>1, <4>2 DEF Run
      <3>2. CASE n # 1
        <4>1. n - 1 \in 1..r
          BY <3>2
        <4>2. n - 1 \in 1..i - 1 /\ \A j \in i - (n - 1)..i - 1 : args[j] \in ZoneFlags
          BY <1>3, <4>1 DEF Run
        <4>3. n \in 1..(i + 1) - 1
          BY <1>1, <4>2
        <4>4. \A j \in (i + 1) - n..(i + 1) - 1 : j = i \/ j \in i - (n - 1)..i - 1
          BY <1>1, <4>2
        <4>. QED BY <1>3, <4>2, <4>3, <4>4 DEF Run
      <3>. QED BY <3>1, <3>2
    <2>. QED BY <2>1, <2>2
  <1>. QED BY <1>2, <1>3

\* The words that may be a command, or its first.
Command == {i \in 1..Len(args) :
              /\ args[i] \notin Flags /\ ~IsValue(i)
              /\ \A j \in 1..i - 1 : args[j] \in Flags \/ IsValue(j)}

\* The search finds the one word that may be a command, or the end of the line.
LEMMA FirstWord ==
    ASSUME Typed
    PROVE  /\ firstIdx \in 1..Len(args) + 1
           /\ Command = {firstIdx} \cap 1..Len(args)
           /\ firstIdx <= Len(args) => args[firstIdx] \notin Flags
  <1>1. Len(args) \in Nat
    BY DEF Typed
  <1>2. PICK from : firstIdx = from[1] /\ \A i \in 1..Len(args) + 2 : Search(from, i)
    BY SearchEnds
  <1>. DEFINE L == Len(args)
              Passed(i) == /\ firstIdx = from[i]
                           /\ \A j \in 1..i - 1 : j <= L => args[j] \in Flags \/ IsValue(j)
                           /\ i <= L => \E r \in Nat : Run(i) = 1..r /\ r % 2 = 0
              Reached == {i \in 1..L + 1 : Passed(i)}
  <1>3. 1 \in Reached
    <2>1. Run(1) = 1..0
      BY DEF Run
    <2>2. 0 % 2 = 0 /\ 0 \in Nat
      OBVIOUS
    <2>. QED BY <1>1, <1>2, <2>1, <2>2
  <1>4. ASSUME NEW i \in Reached, i <= L, args[i] \in Flags
        PROVE  \E k \in Reached : k > i
    <2>1. Search(from, i) /\ i \in 1..L
      BY <1>1, <1>2, <1>4
    <2>2. PICK r \in Nat : Run(i) = 1..r /\ r % 2 = 0
      BY <1>4
    <2>3. CASE args[i] \in ZoneFlags /\ i < L
      <3>1. firstIdx = from[i + 2]
        BY <1>1, <1>4, <2>1, <2>3 DEF Search
      <3>2. Run(i + 1) = 1..r + 1
        BY <2>1, <2>2, <2>3, RunGrows
      <3>3. IsValue(i + 1)
        <4>1. r + 1 \in Nat /\ (r + 1) % 2 = 1
          BY <2>2
        <4>. QED BY <3>2, <4>1, ValueIs
      <3>4. i + 1 \in 1..L /\ (i + 1) + 1 = i + 2
        BY <1>1, <2>1, <2>3
      <3>5. \E q \in Nat : Run(i + 2) = 1..q /\ q % 2 = 0
        <4>1. CASE args[i + 1] \in ZoneFlags
          <5>1. Run(i + 2) = 1..(r + 1) + 1
            BY <3>2, <3>4, <4>1, RunGrows
          <5>2. (r + 1) + 1 \in Nat /\ ((r + 1) + 1) % 2 = 0
            BY <2>2
          <5>. QED BY <5>1, <5>2
        <4>2. CASE args[i + 1] \notin ZoneFlags
          <5>1. Run(i + 2) = 1..0
            BY <3>4, <4>2, RunGrows
          <5>2. 0 \in Nat /\ 0 % 2 = 0
            OBVIOUS
          <5>. QED BY <5>1, <5>2
        <4>. QED BY <4>1, <4>2
      <3>6. ASSUME NEW j \in 1..(i + 2) - 1, j <= L PROVE args[j] \in Flags \/ IsValue(j)
        <4>1. j \in 1..i - 1 \/ j = i \/ j = i + 1
          BY <1>1
        <4>. QED BY <1>4, <3>3, <3>6, <4>1
      <3>7. i + 2 \in 1..L + 1 /\ i + 2 > i
        BY <1>1, <3>4
      <3>8. i + 2 \in Reached
        BY <3>1, <3>5, <3>6, <3>7
      <3>. HIDE DEF Reached
      <3>. QED BY <3>7, <3>8
    <2>4. CASE ~(args[i] \in ZoneFlags /\ i < L)
      <3>1. firstIdx = from[i + 1]
        BY <1>1, <1>4, <2>1, <2>4 DEF Search
      <3>2. i + 1 <= L => \E q \in Nat : Run(i + 1) = 1..q /\ q % 2 = 0
        <4>1. ASSUME i + 1 <= L PROVE Run(i + 1) = 1..0
          <5>1. args[i] \notin ZoneFlags
            BY <1>1, <2>4, <4>1
          <5>. QED BY <2>1, <5>1, RunGrows
        <4>2. 0 \in Nat /\ 0 % 2 = 0
          OBVIOUS
        <4>. QED BY <4>1, <4>2
      <3>3. ASSUME NEW j \in 1..(i + 1) - 1, j <= L PROVE args[j] \in Flags \/ IsValue(j)
        <4>1. j \in 1..i - 1 \/ j = i
          BY <1>1
        <4>. QED BY <1>4, <3>3, <4>1
      <3>4. i + 1 \in 1..L + 1 /\ i + 1 > i
        BY <1>1, <2>1
      <3>5. i + 1 \in Reached
        BY <3>1, <3>2, <3>3, <3>4
      <3>. HIDE DEF Reached
      <3>. QED BY <3>4, <3>5
    <2>. QED BY <2>3, <2>4
  <1>5. PICK i \in Reached : \A k \in Reached : k <= i
    <2>1. Reached \in SUBSET 0..L + 1 /\ L + 1 \in Nat
      BY <1>1
    <2>. HIDE DEF Reached
    <2>. QED BY <1>3, <2>1, Greatest
  <1>6. i > L \/ args[i] \notin Flags
    BY <1>1, <1>4, <1>5
  <1>7. firstIdx = i /\ i \in 1..L + 1
    <2>1. Search(from, i) /\ i \in 1..L + 1
      BY <1>1, <1>2, <1>5
    <2>. QED BY <1>1, <1>5, <1>6, <2>1 DEF Search
  <1>8. \A j \in 1..i - 1 : args[j] \in Flags \/ IsValue(j)
    BY <1>1, <1>5, <1>7
  <1>9. i <= L => ~IsValue(i)
    <2>. SUFFICES ASSUME i <= L PROVE ~IsValue(i)
      OBVIOUS
    <2>1. PICK r \in Nat : Run(i) = 1..r /\ r % 2 = 0
      BY <1>5
    <2>. QED BY <2>1, ValueIs
  <1>10. i <= L => i \in Command
    BY <1>1, <1>6, <1>7, <1>8, <1>9 DEF Command
  <1>11. ASSUME NEW k \in Command PROVE k = i
    <2>1. k \in 1..L /\ args[k] \notin Flags /\ ~IsValue(k)
      BY <1>11 DEF Command
    <2>2. ~(k < i)
      BY <1>1, <1>7, <1>8, <2>1
    <2>3. ~(i < k)
      <3>. SUFFICES ASSUME i < k PROVE FALSE
        OBVIOUS
      <3>1. i \in 1..k - 1 /\ i <= L
        BY <1>1, <1>7, <2>1
      <3>. QED BY <1>6, <1>9, <1>11, <1>1, <1>7, <3>1 DEF Command
    <2>. QED BY <1>1, <1>7, <2>1, <2>2, <2>3
  <1>12. Command \subseteq 1..L
    BY DEF Command
  <1>13. Command = {i} \cap 1..L
    <2>1. ASSUME NEW k \in Command PROVE k \in {i} \cap 1..L
      <3>1. k = i /\ k \in 1..L
        BY <1>11, <1>12
      <3>. QED BY <3>1
    <2>2. ASSUME NEW k \in {i} \cap 1..L PROVE k \in Command
      <3>1. k = i /\ k <= L
        BY <1>1
      <3>. QED BY <1>10, <3>1
    <2>. QED BY <2>1, <2>2
  <1>14. i <= L => args[i] \notin Flags
    BY <1>1, <1>6, <1>7
  <1>. QED BY <1>7, <1>13, <1>14

\* The words from there to the next flag.
LEMMA TokensAre ==
    ASSUME Typed, firstIdx <= Len(args)
    PROVE  \E end \in firstIdx + 1..Len(args) + 1 :
             /\ tokens = SubSeq(args, firstIdx, end - 1)
             /\ end = Len(args) + 1 \/ args[end] \in Flags
             /\ \A i \in firstIdx..end - 1 : args[i] \notin Flags
  <1>1. Len(args) \in Nat /\ firstIdx \in 1..Len(args) /\ args[firstIdx] \notin Flags
    BY FirstWord DEF Typed
  <1>. DEFINE L == Len(args)
              f == firstIdx
              Ends == {j \in f..L + 1 : j = L + 1 \/ args[j] \in Flags}
              Right(j) == /\ j = L + 1 \/ args[j] \in Flags
                          /\ \A i \in f..j - 1 : args[i] \notin Flags
              end == CHOOSE j \in f..L + 1 : Right(j)
  <1>2. PICK j \in Ends : \A i \in Ends : j <= i
    <2>1. Ends \in SUBSET Nat /\ L + 1 \in Ends
      BY <1>1
    <2>. HIDE DEF Ends
    <2>. QED BY <2>1, Smallest
  <1>3. Right(j)
    <2>1. \A i \in f..j - 1 : i \in f..L + 1 /\ i # L + 1 /\ ~(j <= i)
      BY <1>1, <1>2
    <2>. QED BY <1>2, <2>1
  <1>4. end \in f..L + 1 /\ Right(end)
    BY <1>2, <1>3
  <1>5. tokens = SubSeq(args, f, end - 1)
    BY DEF tokens
  <1>. HIDE DEF end, f
  <1>6. end # f
    BY <1>1, <1>4 DEF f
  <1>7. end \in f + 1..L + 1
    BY <1>1, <1>4, <1>6 DEF f
  <1>. QED BY <1>4, <1>5, <1>7 DEF f

\* Part of a line.
LEMMA PartOf ==
    ASSUME NEW s \in Seq(Words), NEW a \in 1..Len(s) + 1, NEW b \in a - 1..Len(s)
    PROVE  /\ SubSeq(s, a, b) \in Seq(Words)
           /\ Len(SubSeq(s, a, b)) = b - a + 1
           /\ \A x \in 1..b - a + 1 : SubSeq(s, a, b)[x] = s[a + x - 1]
  <1>1. Len(s) \in Nat /\ a \in Int /\ b \in Int
    OBVIOUS
  <1>2. \A x \in a..b : s[x] \in Words
    BY <1>1
  <1>3. /\ SubSeq(s, a, b) \in Seq(Words)
        /\ Len(SubSeq(s, a, b)) = IF a <= b THEN b - a + 1 ELSE 0
        /\ \A x \in 1..b - a + 1 : SubSeq(s, a, b)[x] = s[a + x - 1]
    BY <1>1, <1>2, SubSeqProperties
  <1>. QED BY <1>1, <1>3

\* Two lines in a row can be taken apart again.
LEMMA TakenApart ==
    ASSUME NEW s \in Seq(Words), NEW t \in Seq(Words)
    PROVE  /\ SubSeq(s \o t, 1, Len(s)) = s
           /\ SubSeq(s \o t, Len(s) + 1, Len(s \o t)) = t
  <1>. DEFINE both == s \o t
              p == Len(s)
              q == Len(t)
  <1>1. p \in Nat /\ q \in Nat
    OBVIOUS
  <1>2. /\ both \in Seq(Words) /\ Len(both) = p + q
        /\ \A x \in 1..p + q : both[x] = IF x <= p THEN s[x] ELSE t[x - p]
    BY ConcatProperties
  <1>. HIDE DEF both
  <1>3. SubSeq(both, 1, p) = s
    <2>1. 1 \in 1..Len(both) + 1 /\ p \in 1 - 1..Len(both) /\ p - 1 + 1 = p
      BY <1>1, <1>2
    <2>2. /\ SubSeq(both, 1, p) \in Seq(Words) /\ Len(SubSeq(both, 1, p)) = p
          /\ \A x \in 1..p : SubSeq(both, 1, p)[x] = both[1 + x - 1]
      BY <1>2, <2>1, PartOf
    <2>3. ASSUME NEW x \in 1..p PROVE SubSeq(both, 1, p)[x] = s[x]
      <3>1. 1 + x - 1 = x /\ x \in 1..p + q /\ x <= p
        BY <1>1
      <3>. QED BY <1>2, <2>2, <3>1
    <2>. QED BY <2>2, <2>3, SeqEqual
  <1>4. SubSeq(both, p + 1, p + q) = t
    <2>1. p + 1 \in 1..Len(both) + 1 /\ p + q \in (p + 1) - 1..Len(both) /\ (p + q) - (p + 1) + 1 = q
      BY <1>1, <1>2
    <2>2. /\ SubSeq(both, p + 1, p + q) \in Seq(Words) /\ Len(SubSeq(both, p + 1, p + q)) = q
          /\ \A x \in 1..q : SubSeq(both, p + 1, p + q)[x] = both[(p + 1) + x - 1]
      BY <1>2, <2>1, PartOf
    <2>3. ASSUME NEW x \in 1..q PROVE SubSeq(both, p + 1, p + q)[x] = t[x]
      <3>1. (p + 1) + x - 1 = p + x /\ p + x \in 1..p + q /\ ~(p + x <= p) /\ (p + x) - p = x
        BY <1>1
      <3>. QED BY <1>2, <2>2, <3>1
    <2>. QED BY <2>2, <2>3, SeqEqual
  <1>. QED BY <1>2, <1>3, <1>4 DEF both

\* A line without the m words from i on, and with them put back.
LEMMA PutBack ==
    ASSUME NEW s, s \in Seq(Words), NEW i \in 1..Len(s), NEW m \in Nat, i + m <= Len(s) + 1
    PROVE  LET rest == SubSeq(s, 1, i - 1) \o SubSeq(s, i + m, Len(s)) IN
             SubSeq(rest, 1, i - 1) \o SubSeq(s, i, i + m - 1) \o SubSeq(rest, i, Len(rest)) = s
  <1>. DEFINE L == Len(s)
              head == SubSeq(s, 1, i - 1)
              mid == SubSeq(s, i, i + m - 1)
              tail == SubSeq(s, i + m, L)
              rest == head \o tail
  <1>1. L \in Nat /\ i \in Nat
    OBVIOUS
  <1>2. head \in Seq(Words) /\ Len(head) = i - 1
    <2>1. 1 \in 1..L + 1 /\ i - 1 \in 1 - 1..L /\ (i - 1) - 1 + 1 = i - 1
      BY <1>1
    <2>. QED BY <2>1, PartOf
  <1>3. tail \in Seq(Words)
    <2>1. i + m \in 1..L + 1 /\ L \in (i + m) - 1..L
      BY <1>1
    <2>. QED BY <2>1, PartOf
  <1>4. head \o mid = SubSeq(s, 1, i + m - 1)
    <2>1. 1 \in 1..L + 1 /\ i - 1 \in 1 - 1..L /\ i + m - 1 \in i - 1..L /\ (i - 1) + 1 = i
      BY <1>1
    <2>. QED BY <2>1, ConcatAdjacentSubSeq
  <1>5. (head \o mid) \o tail = s
    <2>1. 1 \in 1..L + 1 /\ i + m - 1 \in 1 - 1..L /\ L \in i + m - 1..L /\ (i + m - 1) + 1 = i + m
      BY <1>1
    <2>2. SubSeq(s, 1, i + m - 1) \o SubSeq(s, i + m, L) = SubSeq(s, 1, L)
      BY <2>1, ConcatAdjacentSubSeq
    <2>3. SubSeq(s, 1, L) = s
      BY SubSeqFull
    <2>. QED BY <1>4, <2>2, <2>3
  <1>. HIDE DEF head, tail, mid
  <1>6. SubSeq(rest, 1, i - 1) = head /\ SubSeq(rest, i, Len(rest)) = tail
    <2>1. (i - 1) + 1 = i
      BY <1>1
    <2>. QED BY <1>2, <1>3, <2>1, TakenApart
  <1>. QED BY <1>5, <1>6 DEF head, tail, mid

\* The number of words that name the plugin, and the plugins that the words from
\* the first on begin with.
Lengths == {n \in 1..Len(tokens) : SubSeq(tokens, 1, n) \in onPath}
NamedAt(i) == {name \in onPath : /\ i + Len(name) - 1 <= Len(args)
                                 /\ name = SubSeq(args, i, i + Len(name) - 1)}

\* Whatever plugin the line names from the first word on is named by tokens.
LEMMA MatchIs ==
    ASSUME Typed, firstIdx <= Len(args)
    PROVE  /\ tokens # <<>> /\ tokens[1] = args[firstIdx]
           /\ \A n \in 1..Len(tokens) : SubSeq(tokens, 1, n) = SubSeq(args, firstIdx, firstIdx + n - 1)
           /\ \A n \in 1..Len(tokens) : firstIdx + n - 1 <= Len(args)
           /\ \A name \in NamedAt(firstIdx) : Len(name) \in Lengths /\ name = SubSeq(tokens, 1, Len(name))
  <1>. DEFINE L == Len(args)
              f == firstIdx
  <1>1. L \in Nat /\ f \in 1..L /\ args \in Seq(Words)
    BY FirstWord DEF Typed
  <1>2. PICK end \in f + 1..L + 1 :
             /\ tokens = SubSeq(args, f, end - 1)
             /\ end = L + 1 \/ args[end] \in Flags
             /\ \A i \in f..end - 1 : args[i] \notin Flags
    BY TokensAre
  <1>. HIDE DEF f
  <1>3. /\ tokens \in Seq(Words) /\ Len(tokens) = end - f
        /\ \A x \in 1..end - f : tokens[x] = args[f + x - 1]
    <2>1. f \in 1..L + 1 /\ end - 1 \in f - 1..L /\ (end - 1) - f + 1 = end - f
      BY <1>1, <1>2
    <2>. QED BY <1>1, <1>2, <2>1, PartOf
  <1>4. tokens # <<>> /\ tokens[1] = args[f]
    <2>1. 1 \in 1..end - f /\ f + 1 - 1 = f /\ end - f # 0
      BY <1>1, <1>2
    <2>2. Len(<<>>) = 0
      OBVIOUS
    <2>. QED BY <1>3, <2>1, <2>2
  <1>5. ASSUME NEW n \in 1..Len(tokens)
        PROVE  SubSeq(tokens, 1, n) = SubSeq(args, f, f + n - 1) /\ f + n - 1 <= L
    <2>1. /\ f \in 1..L + 1 /\ f + n - 1 \in f - 1..L /\ (f + n - 1) - f + 1 = n
          /\ n - 1 + 1 = n /\ 1 \in 1..Len(tokens) + 1 /\ n \in 1 - 1..Len(tokens)
      BY <1>1, <1>2, <1>3
    <2>2. /\ SubSeq(args, f, f + n - 1) \in Seq(Words) /\ Len(SubSeq(args, f, f + n - 1)) = n
          /\ \A x \in 1..n : SubSeq(args, f, f + n - 1)[x] = args[f + x - 1]
      BY <1>1, <2>1, PartOf
    <2>3. /\ SubSeq(tokens, 1, n) \in Seq(Words) /\ Len(SubSeq(tokens, 1, n)) = n
          /\ \A x \in 1..n : SubSeq(tokens, 1, n)[x] = tokens[1 + x - 1]
      BY <1>3, <2>1, PartOf
    <2>4. ASSUME NEW x \in 1..n PROVE SubSeq(tokens, 1, n)[x] = SubSeq(args, f, f + n - 1)[x]
      <3>1. 1 + x - 1 = x /\ x \in 1..end - f
        BY <1>3
      <3>. QED BY <1>3, <2>2, <2>3, <3>1
    <2>5. f + n - 1 <= L
      BY <2>1, <1>1
    <2>. QED BY <2>2, <2>3, <2>4, <2>5, SeqEqual
  <1>6. ASSUME NEW name \in NamedAt(f) PROVE Len(name) \in Lengths /\ name = SubSeq(tokens, 1, Len(name))
    <2>1. /\ name \in onPath /\ f + Len(name) - 1 <= L
          /\ name = SubSeq(args, f, f + Len(name) - 1)
      BY <1>6 DEF NamedAt
    <2>2. name \in Seq(Words \ Flags) /\ name # <<>>
      BY <2>1, DispatchAssumption DEF Typed
    <2>3. Len(name) \in Nat /\ Len(name) # 0
      BY <2>2
    <2>. DEFINE n == Len(name)
    <2>4. /\ f \in 1..L + 1 /\ f + n - 1 \in f - 1..L /\ (f + n - 1) - f + 1 = n
      BY <1>1, <2>1, <2>3
    <2>5. \A x \in 1..n : name[x] \in Words \ Flags
      BY <2>2
    <2>. HIDE DEF n
    <2>6. \A x \in 1..n : SubSeq(args, f, f + n - 1)[x] = args[f + x - 1]
      BY <1>1, <2>4, PartOf
    <2>7. \A x \in 1..n : args[f + x - 1] \notin Flags
      BY <2>1, <2>5, <2>6 DEF n
    <2>8. ~(end < f + n)
      <3>. SUFFICES ASSUME end < f + n PROVE FALSE
        OBVIOUS
      <3>1. end # L + 1 /\ end - f + 1 \in 1..n /\ f + (end - f + 1) - 1 = end
        BY <1>1, <1>2, <2>1, <2>3, <2>4
      <3>. QED BY <1>2, <2>7, <3>1
    <2>9. n \in 1..Len(tokens)
      BY <1>1, <1>2, <1>3, <2>3, <2>8 DEF n
    <2>10. name = SubSeq(tokens, 1, n)
      BY <1>5, <2>1, <2>9 DEF n
    <2>. QED BY <2>1, <2>9, <2>10 DEF Lengths, n
  <1>. QED BY <1>4, <1>5, <1>6 DEF f

\* The most of them (LongestMatch).
LEMMA LongestIs ==
    ASSUME Typed, firstIdx <= Len(args), Lengths # {}
    PROVE  matchedLen \in Lengths /\ \A n \in Lengths : n <= matchedLen
  <1>1. Len(tokens) \in Nat
    <2>1. PICK end \in firstIdx + 1..Len(args) + 1 : tokens = SubSeq(args, firstIdx, end - 1)
      BY TokensAre
    <2>2. firstIdx \in 1..Len(args) + 1 /\ end - 1 \in firstIdx - 1..Len(args) /\ args \in Seq(Words)
      BY FirstWord, <2>1 DEF Typed
    <2>3. tokens \in Seq(Words)
      BY <2>1, <2>2, PartOf
    <2>. QED BY <2>3
  <1>2. PICK n \in Lengths : \A m \in Lengths : m <= n
    <2>1. Lengths \in SUBSET 0..Len(tokens)
      BY <1>1 DEF Lengths
    <2>. HIDE DEF Lengths
    <2>. QED BY <1>1, <2>1, Greatest
  <1>3. matchedLen = CHOOSE m \in Lengths : \A k \in Lengths : k <= m
    BY DEF matchedLen, Lengths
  <1>. QED BY <1>2, <1>3

DispatchInv == Typed /\ RunsWhatWasTyped

\* Nothing has been decided of a line as it is typed.
LEMMA DispatchStarts == DispatchInit => DispatchInv
  <1>. SUFFICES ASSUME DispatchInit PROVE DispatchInv
    OBVIOUS
  <1>1. PICK n \in 0..MaxArgs : args \in [1..n -> Words]
    BY DEF DispatchInit
  <1>2. n \in Nat
    BY DispatchAssumption
  <1>3. args \in Seq(Words)
    BY <1>1, <1>2
  <1>. QED BY <1>3 DEF DispatchInit, DispatchInv, Typed, RunsWhatWasTyped

\* What maybeDispatchPlugin makes of a line.
LEMMA DispatchDecides ==
    ASSUME Typed, maybeDispatchPlugin
    PROVE  IF \E i \in Command : args[i] \notin Builtins /\ NamedAt(i) # {}
           THEN \A i \in Command :
                  /\ ran'.name \in NamedAt(i)
                  /\ \A name \in NamedAt(i) : Len(name) <= Len(ran'.name)
                  /\ SubSeq(ran'.args, 1, i - 1) \o ran'.name \o SubSeq(ran'.args, i, Len(ran'.args)) = args
           ELSE ran' = ToCobra
  <1>. DEFINE L == Len(args)
              f == firstIdx
  <1>1. L \in Nat /\ f \in 1..L + 1 /\ args \in Seq(Words) /\ Command = {f} \cap 1..L
    BY FirstWord DEF Typed
  <1>2. CASE ~(f <= L)
    <2>1. Command = {} /\ f = L + 1
      BY <1>1, <1>2
    <2>2. tokens = <<>>
      <3>1. PICK end \in L + 1..L + 1 : tokens = SubSeq(args, L + 1, end - 1)
        <4>. DEFINE end == CHOOSE j \in f..L + 1 : /\ j = L + 1 \/ args[j] \in Flags
                                                  /\ \A i \in f..j - 1 : args[i] \notin Flags
        <4>1. end \in f..L + 1
          <5>1. \A i \in f..(L + 1) - 1 : FALSE
            BY <1>1, <2>1
          <5>2. L + 1 \in f..L + 1
            BY <1>1, <2>1
          <5>. QED BY <5>1, <5>2
        <4>2. tokens = SubSeq(args, f, end - 1)
          BY DEF tokens
        <4>. HIDE DEF end
        <4>. QED BY <2>1, <4>1, <4>2
      <3>2. L + 1 \in Int /\ end - 1 \in Int /\ end - 1 < L + 1
        BY <1>1, <3>1
      <3>. QED BY <3>1, <3>2, SubSeqEmpty
    <2>. QED BY <2>1, <2>2 DEF maybeDispatchPlugin
  <1>3. CASE f <= L
    <2>1. Command = {f}
      BY <1>1, <1>3
    <2>2. /\ tokens # <<>> /\ tokens[1] = args[f]
          /\ \A n \in 1..Len(tokens) : SubSeq(tokens, 1, n) = SubSeq(args, f, f + n - 1)
          /\ \A n \in 1..Len(tokens) : f + n - 1 <= L
          /\ \A name \in NamedAt(f) : Len(name) \in Lengths /\ name = SubSeq(tokens, 1, Len(name))
      BY <1>3, MatchIs
    <2>3. CASE Lengths = {}
      <3>1. matchedLen = 0
        BY <2>3 DEF matchedLen, Lengths
      <3>2. NamedAt(f) = {}
        BY <2>2, <2>3
      <3>. QED BY <2>1, <3>1, <3>2 DEF maybeDispatchPlugin
    <2>4. CASE Lengths # {}
      <3>. DEFINE m == matchedLen
                  name == SubSeq(tokens, 1, m)
      <3>1. m \in Lengths /\ \A n \in Lengths : n <= m
        BY <1>3, <2>4, LongestIs
      <3>2. m \in 1..Len(tokens) /\ m # 0 /\ name \in onPath
        BY <3>1 DEF Lengths
      <3>. HIDE DEF m
      <3>3. name = SubSeq(args, f, f + m - 1) /\ f + m - 1 <= L /\ m \in Nat
        <4>1. name = SubSeq(args, f, f + m - 1) /\ f + m - 1 <= L
          <5>. HIDE DEF f
          <5>. QED BY <2>2, <3>2
        <4>2. m \in Nat
          BY <3>2
        <4>. QED BY <4>1, <4>2
      <3>4. Len(name) = m
        <4>1. f \in 1..L + 1 /\ f + m - 1 \in f - 1..L /\ (f + m - 1) - f + 1 = m
          BY <1>1, <1>3, <3>3
        <4>. QED BY <1>1, <3>3, <4>1, PartOf
      <3>5. name \in NamedAt(f)
        BY <3>2, <3>3, <3>4 DEF NamedAt
      <3>6. CASE args[f] \in Builtins
        <4>1. ran' = ToCobra
          BY <2>2, <3>6 DEF maybeDispatchPlugin
        <4>. QED BY <2>1, <3>6, <4>1
      <3>7. CASE args[f] \notin Builtins
        <4>1. ran'.name = name /\ ran'.args = argsAfterMatch
          BY <2>2, <3>2, <3>7 DEF maybeDispatchPlugin, m
        <4>2. \A other \in NamedAt(f) : Len(other) <= Len(name)
          BY <2>2, <3>1, <3>4 DEF m
        <4>3. argsAfterMatch = SubSeq(args, 1, f - 1) \o SubSeq(args, f + m, L)
          BY DEF argsAfterMatch, m
        <4>4. SubSeq(argsAfterMatch, 1, f - 1) \o name \o SubSeq(argsAfterMatch, f, Len(argsAfterMatch)) = args
          <5>1. f \in 1..L /\ f + m <= L + 1
            BY <1>1, <1>3, <3>3
          <5>. DEFINE rest == SubSeq(args, 1, f - 1) \o SubSeq(args, f + m, L)
          <5>2. SubSeq(rest, 1, f - 1) \o SubSeq(args, f, f + m - 1) \o SubSeq(rest, f, Len(rest)) = args
            <6>. HIDE DEF f
            <6>. QED BY <1>1, <3>3, <5>1, PutBack
          <5>3. argsAfterMatch = rest
            BY <4>3
          <5>. HIDE DEF f, name, rest
          <5>. QED BY <3>3, <5>2, <5>3
        <4>. HIDE DEF name, f
        <4>. QED BY <2>1, <3>5, <3>7, <4>1, <4>2, <4>4
      <3>. QED BY <3>6, <3>7
    <2>. QED BY <2>3, <2>4
  <1>. QED BY <1>2, <1>3

\* The decision is right, and stays.
LEMMA DispatchStep == DispatchInv /\ [maybeDispatchPlugin]_dispatchVars => DispatchInv'
  <1>. SUFFICES ASSUME DispatchInv, [maybeDispatchPlugin]_dispatchVars PROVE DispatchInv'
    OBVIOUS
  <1>1. UNCHANGED <<args, onPath>>
    BY DEF maybeDispatchPlugin, dispatchVars
  <1>2. Typed /\ Typed'
    BY <1>1 DEF DispatchInv, Typed
  <1>3. /\ Command' = Command
        /\ \A i : NamedAt(i)' = NamedAt(i)
    BY <1>1 DEF Command, NamedAt, IsValue
  <1>4. RunsWhatWasTyped <=>
          (ran # Waiting =>
             IF \E i \in Command : args[i] \notin Builtins /\ NamedAt(i) # {}
             THEN \A i \in Command :
                    /\ ran.name \in NamedAt(i)
                    /\ \A name \in NamedAt(i) : Len(name) <= Len(ran.name)
                    /\ SubSeq(ran.args, 1, i - 1) \o ran.name \o SubSeq(ran.args, i, Len(ran.args)) = args
             ELSE ran = ToCobra)
    BY DEF RunsWhatWasTyped, Command, NamedAt
  <1>5. RunsWhatWasTyped' <=>
          (ran' # Waiting =>
             IF \E i \in Command : args[i] \notin Builtins /\ NamedAt(i) # {}
             THEN \A i \in Command :
                    /\ ran'.name \in NamedAt(i)
                    /\ \A name \in NamedAt(i) : Len(name) <= Len(ran'.name)
                    /\ SubSeq(ran'.args, 1, i - 1) \o ran'.name \o SubSeq(ran'.args, i, Len(ran'.args)) = args
             ELSE ran' = ToCobra)
    BY <1>1 DEF RunsWhatWasTyped, Command, NamedAt, IsValue
  <1>6. CASE maybeDispatchPlugin
    BY <1>2, <1>5, <1>6, DispatchDecides DEF DispatchInv
  <1>7. CASE UNCHANGED dispatchVars
    <2>1. ran' = ran
      BY <1>7 DEF dispatchVars
    <2>. QED BY <1>2, <1>4, <1>5, <2>1 DEF DispatchInv
  <1>. QED BY <1>6, <1>7

\* A plugin runs if and only if the words that were typed, but flags and their
\* values, begin with its name and not with a command of viti's; the one with the
\* longest name runs, and is given every other word in order
\* (plugin_dispatch.go): for lines of every length and every set of plugins.
THEOREM PluginsRunAsTyped == DispatchSpec => []RunsWhatWasTyped
  <1>1. DispatchInv => RunsWhatWasTyped
    BY DEF DispatchInv
  <1>. QED BY <1>1, DispatchStarts, DispatchStep, PTL DEF DispatchSpec

-----------------------------------------------------------------------------
(***************************************************************************)
(* The zones of the configuration (ZoneSettings).                          *)
(***************************************************************************)

ZoneEntry == [name : ZoneNames, at : Int]
ZoneList == Seq(ZoneEntry)

\* The loop of RemoveAvailabilityZone, step by step.
LEMMA RemovalLoops ==
    ASSUME NEW zones \in ZoneList, NEW name
    PROVE  \E kept : /\ RemoveAvailabilityZone(zones, name) = kept[Len(zones)]
                     /\ kept[0] = <<>>
                     /\ \A i \in 1..Len(zones) :
                          kept[i] = IF zones[i].name = name THEN kept[i - 1]
                                    ELSE Append(kept[i - 1], zones[i])
  <1>. DEFINE Body(f, n) == [i \in 0..n |-> IF i = 0 THEN <<>>
                                            ELSE IF zones[i].name = name THEN f[i - 1]
                                            ELSE Append(f[i - 1], zones[i])]
              Goes == {n \in Nat : \E f : f = Body(f, n)}
  <1>1. 0 \in Goes
    <2>1. [i \in 0..0 |-> <<>>] = Body([i \in 0..0 |-> <<>>], 0)
      OBVIOUS
    <2>. QED BY <2>1
  <1>2. ASSUME NEW n \in Nat, n \in Goes PROVE n + 1 \in Goes
    <2>1. PICK f : f = Body(f, n)
      BY <1>2
    <2>. DEFINE g == [i \in 0..n + 1 |-> IF i = n + 1
                                         THEN IF zones[i].name = name THEN f[n]
                                              ELSE Append(f[n], zones[i])
                                         ELSE f[i]]
    <2>2. \A i \in 0..n : f[i] = Body(f, n)[i]
      BY <2>1
    <2>3. \A i \in 0..n : g[i] = f[i]
      OBVIOUS
    <2>4. ASSUME NEW i \in 0..n + 1 PROVE g[i] = Body(g, n + 1)[i]
      <3>1. CASE i = 0
        BY <3>1, <2>2
      <3>2. CASE i \in 1..n
        <4>1. i - 1 \in 0..n /\ i \in 0..n
          BY <3>2
        <4>2. g[i] = f[i] /\ g[i - 1] = f[i - 1]
          BY <4>1, <2>3
        <4>3. f[i] = IF zones[i].name = name THEN f[i - 1] ELSE Append(f[i - 1], zones[i])
          BY <3>2, <4>1, <2>2
        <4>. HIDE DEF g
        <4>. QED BY <3>2, <4>2, <4>3
      <3>3. CASE i = n + 1
        <4>1. g[i - 1] = f[n]
          BY <3>3, <2>3
        <4>2. g[i] = IF zones[i].name = name THEN f[n] ELSE Append(f[n], zones[i])
          BY <3>3
        <4>. HIDE DEF g
        <4>. QED BY <3>3, <4>1, <4>2
      <3>. QED BY <3>1, <3>2, <3>3
    <2>5. g = Body(g, n + 1)
      BY <2>4
    <2>. HIDE DEF g
    <2>. QED BY <2>5
  <1>3. Len(zones) \in Goes
    <2>. HIDE DEF Goes
    <2>1. Len(zones) \in Nat
      BY DEF ZoneList
    <2>. QED BY <1>1, <1>2, <2>1, EachNumber
  <1>. DEFINE kept == CHOOSE f : f = Body(f, Len(zones))
  <1>4. kept = Body(kept, Len(zones))
    BY <1>3
  <1>5. RemoveAvailabilityZone(zones, name) = kept[Len(zones)]
    BY DEF RemoveAvailabilityZone
  <1>. HIDE DEF kept
  <1>6. Len(zones) \in Nat
    BY DEF ZoneList
  <1>7. \A i \in 0..Len(zones) : kept[i] = Body(kept, Len(zones))[i]
    BY <1>4
  <1>8. kept[0] = <<>>
    BY <1>6, <1>7
  <1>9. ASSUME NEW i \in 1..Len(zones)
        PROVE  kept[i] = IF zones[i].name = name THEN kept[i - 1]
                         ELSE Append(kept[i - 1], zones[i])
    BY <1>6, <1>7
  <1>. QED BY <1>5, <1>8, <1>9

\* What has been kept after i zones: those of another name, in their order.
KeptOf(zones, name, i, kept) ==
    /\ kept \in ZoneList
    /\ \E from \in [1..Len(kept) -> 1..i] :
         /\ \A x \in 1..Len(kept) : zones[from[x]].name # name /\ kept[x] = zones[from[x]]
         /\ \A x, y \in 1..Len(kept) : x < y => from[x] < from[y]
         /\ \A j \in 1..i : zones[j].name # name => \E x \in 1..Len(kept) : from[x] = j

\* A removal keeps all zones of other names, in their order.
LEMMA RemovalKeeps ==
    ASSUME NEW zones \in ZoneList, NEW name
    PROVE  KeptOf(zones, name, Len(zones), RemoveAvailabilityZone(zones, name))
  <1>1. PICK kept : /\ RemoveAvailabilityZone(zones, name) = kept[Len(zones)]
                    /\ kept[0] = <<>>
                    /\ \A i \in 1..Len(zones) :
                          kept[i] = IF zones[i].name = name THEN kept[i - 1]
                                    ELSE Append(kept[i - 1], zones[i])
    BY RemovalLoops
  <1>2. Len(zones) \in Nat
    BY DEF ZoneList
  <1>. DEFINE Right == {n \in Nat : n <= Len(zones) => KeptOf(zones, name, n, kept[n])}
  <1>3. 0 \in Right
    <2>1. PICK none : none = <<>> /\ none \in ZoneList /\ Len(none) = 0
      <3>1. <<>> \in ZoneList /\ Len(<<>>) = 0
        BY DEF ZoneList
      <3>. QED BY <3>1, Zenon
    <2>2. PICK from : from \in [1..0 -> 1..0]
      <3>1. [x \in 1..0 |-> x] \in [1..0 -> 1..0]
        OBVIOUS
      <3>. QED BY <3>1
    <2>3. 1..0 = {}
      OBVIOUS
    <2>4. KeptOf(zones, name, 0, none)
      BY <2>1, <2>2, <2>3 DEF KeptOf
    <2>. QED BY <1>1, <2>1, <2>4
  <1>4. ASSUME NEW n \in Nat, n \in Right PROVE n + 1 \in Right
    <2>1. SUFFICES ASSUME n + 1 <= Len(zones) PROVE KeptOf(zones, name, n + 1, kept[n + 1])
      OBVIOUS
    <2>. DEFINE old == kept[n]
    <2>2. KeptOf(zones, name, n, old)
      BY <1>2, <1>4, <2>1
    <2>3. kept[n + 1] = IF zones[n + 1].name = name THEN old ELSE Append(old, zones[n + 1])
      <3>1. n + 1 \in 1..Len(zones) /\ (n + 1) - 1 = n
        BY <1>2, <2>1
      <3>. QED BY <1>1, <3>1
    <2>. HIDE DEF old
    <2>4. PICK from \in [1..Len(old) -> 1..n] :
            /\ \A x \in 1..Len(old) : zones[from[x]].name # name /\ old[x] = zones[from[x]]
            /\ \A x, y \in 1..Len(old) : x < y => from[x] < from[y]
            /\ \A j \in 1..n : zones[j].name # name => \E x \in 1..Len(old) : from[x] = j
      BY <2>2 DEF KeptOf
    <2>5. old \in ZoneList /\ Len(old) \in Nat
      BY <2>2 DEF KeptOf, ZoneList
    <2>6. zones[n + 1] \in ZoneEntry
      BY <1>2, <2>1 DEF ZoneList
    <2>7. CASE zones[n + 1].name = name
      <3>1. from \in [1..Len(old) -> 1..n + 1]
        OBVIOUS
      <3>2. \A j \in 1..n + 1 : zones[j].name # name => \E x \in 1..Len(old) : from[x] = j
        <4>1. \A j \in 1..n + 1 : j \in 1..n \/ j = n + 1
          OBVIOUS
        <4>. QED BY <2>4, <2>7, <4>1
      <3>3. KeptOf(zones, name, n + 1, old)
        BY <2>4, <2>5, <3>1, <3>2 DEF KeptOf
      <3>. QED BY <2>3, <2>7, <3>3
    <2>8. CASE zones[n + 1].name # name
      <3>. DEFINE new == Append(old, zones[n + 1])
                  to == [x \in 1..Len(old) + 1 |-> IF x = Len(old) + 1 THEN n + 1 ELSE from[x]]
      <3>1. /\ new \in ZoneList /\ Len(new) = Len(old) + 1
            /\ new[Len(old) + 1] = zones[n + 1]
            /\ \A x \in 1..Len(old) : new[x] = old[x]
        BY <2>5, <2>6 DEF ZoneList
      <3>. HIDE DEF new
      <3>2. /\ to[Len(old) + 1] = n + 1
            /\ \A x \in 1..Len(old) : to[x] = from[x]
        BY <2>5
      <3>3. to \in [1..Len(new) -> 1..n + 1]
        BY <2>5, <3>1
      <3>. HIDE DEF to
      <3>4. \A x \in 1..Len(new) : x \in 1..Len(old) \/ x = Len(old) + 1
        BY <2>5, <3>1
      <3>5. ASSUME NEW x \in 1..Len(new)
            PROVE  zones[to[x]].name # name /\ new[x] = zones[to[x]]
        BY <2>4, <2>8, <3>1, <3>2, <3>4
      <3>6. ASSUME NEW x \in 1..Len(new), NEW y \in 1..Len(new), x < y
            PROVE  to[x] < to[y]
        <4>1. x \in 1..Len(old)
          BY <2>5, <3>1, <3>6
        <4>2. CASE y \in 1..Len(old)
          BY <2>4, <3>2, <3>6, <4>1, <4>2
        <4>3. CASE y = Len(old) + 1
          <5>1. from[x] \in 1..n
            BY <4>1
          <5>. QED BY <3>2, <4>1, <4>3, <5>1
        <4>. QED BY <3>4, <4>2, <4>3
      <3>7. ASSUME NEW j \in 1..n + 1, zones[j].name # name
            PROVE  \E x \in 1..Len(new) : to[x] = j
        <4>1. CASE j = n + 1
          BY <4>1, <2>5, <3>1, <3>2
        <4>2. CASE j \in 1..n
          <5>1. PICK x \in 1..Len(old) : from[x] = j
            BY <2>4, <3>7, <4>2
          <5>2. x \in 1..Len(new)
            BY <2>5, <3>1
          <5>. QED BY <3>2, <5>1, <5>2
        <4>. QED BY <4>1, <4>2
      <3>8. KeptOf(zones, name, n + 1, new)
        BY <3>1, <3>3, <3>5, <3>6, <3>7 DEF KeptOf
      <3>. QED BY <2>3, <2>8, <3>8 DEF new
    <2>. QED BY <2>7, <2>8
  <1>5. Len(zones) \in Right
    <2>. HIDE DEF Right
    <2>. QED BY <1>2, <1>3, <1>4, EachNumber
  <1>. QED BY <1>1, <1>2, <1>5

\* A removal leaves the zones of other names alone, and none of the name.
LEMMA RemovalSpares ==
    ASSUME NEW zones \in ZoneList, NEW name
    PROVE  LET out == RemoveAvailabilityZone(zones, name) IN
             /\ out \in ZoneList
             /\ AvailabilityZoneByName(out, name) = Zone(name, 0)
             /\ SameOthers(zones, out, name)
  <1>. DEFINE out == RemoveAvailabilityZone(zones, name)
  <1>1. KeptOf(zones, name, Len(zones), out)
    BY RemovalKeeps
  <1>. HIDE DEF out
  <1>2. PICK from \in [1..Len(out) -> 1..Len(zones)] :
          /\ \A x \in 1..Len(out) : zones[from[x]].name # name /\ out[x] = zones[from[x]]
          /\ \A x, y \in 1..Len(out) : x < y => from[x] < from[y]
          /\ \A j \in 1..Len(zones) : zones[j].name # name => \E x \in 1..Len(out) : from[x] = j
    BY <1>1 DEF KeptOf
  <1>3. \A x \in 1..Len(out) : out[x].name # name
    BY <1>2
  <1>4. OtherZones(out, name) = 1..Len(out)
    BY <1>3 DEF OtherZones
  <1>5. from \in [OtherZones(out, name) -> OtherZones(zones, name)]
    BY <1>2, <1>4 DEF OtherZones
  <1>6. SameOthers(zones, out, name)
    <2>1. \A j \in OtherZones(zones, name) : \E x \in OtherZones(out, name) : from[x] = j
      BY <1>2, <1>4 DEF OtherZones
    <2>. QED BY <1>2, <1>4, <1>5, <2>1 DEF SameOthers
  <1>7. AvailabilityZoneByName(out, name) = Zone(name, 0)
    BY <1>3 DEF AvailabilityZoneByName, Named
  <1>. QED BY <1>1, <1>6, <1>7 DEF KeptOf, out

\* The first zone of a name.
LEMMA FirstIs ==
    ASSUME NEW zones \in ZoneList, NEW name, Named(zones, name) # {}
    PROVE  /\ FirstOf(zones, name) \in Named(zones, name)
           /\ \A j \in Named(zones, name) : FirstOf(zones, name) <= j
  <1>1. Named(zones, name) \in SUBSET Nat
    BY DEF Named, ZoneList
  <1>2. \E i \in Named(zones, name) : \A j \in Named(zones, name) : i <= j
    BY <1>1, Smallest
  <1>. QED BY <1>2 DEF FirstOf

\* An addition replaces the first zone of the name, or comes last.
LEMMA AdditionSpares ==
    ASSUME NEW zones \in ZoneList, NEW z \in ZoneEntry
    PROVE  LET out == AddAvailabilityZone(zones, z) IN
             /\ out \in ZoneList
             /\ AvailabilityZoneByName(out, z.name) = z
             /\ SameOthers(zones, out, z.name)
  <1>. DEFINE out == AddAvailabilityZone(zones, z)
              n == Len(zones)
  <1>1. n \in Nat /\ zones \in Seq(ZoneEntry)
    BY DEF ZoneList
  <1>2. CASE Named(zones, z.name) = {}
    <2>1. out = Append(zones, z)
      BY <1>2 DEF AddAvailabilityZone
    <2>2. /\ out \in ZoneList /\ Len(out) = n + 1 /\ out[n + 1] = z
          /\ \A i \in 1..n : out[i] = zones[i]
      BY <1>1, <2>1 DEF ZoneList
    <2>. HIDE DEF out
    <2>3. \A i \in 1..n : zones[i].name # z.name
      BY <1>2 DEF Named
    <2>4. Named(out, z.name) = {n + 1}
      BY <1>1, <2>2, <2>3 DEF Named
    <2>5. FirstOf(out, z.name) = n + 1
      BY <2>2, <2>4, FirstIs
    <2>6. AvailabilityZoneByName(out, z.name) = z
      BY <2>2, <2>4, <2>5 DEF AvailabilityZoneByName
    <2>7. OtherZones(out, z.name) = 1..n /\ OtherZones(zones, z.name) = 1..n
      BY <1>1, <2>2, <2>3 DEF OtherZones
    <2>8. SameOthers(zones, out, z.name)
      <3>. DEFINE from == [i \in 1..n |-> i]
      <3>1. from \in [1..n -> 1..n] /\ \A i \in 1..n : from[i] = i
        OBVIOUS
      <3>. HIDE DEF from
      <3>. QED BY <1>1, <2>2, <2>7, <3>1 DEF SameOthers
    <2>. QED BY <2>2, <2>6, <2>8 DEF out
  <1>3. CASE Named(zones, z.name) # {}
    <2>. DEFINE k == FirstOf(zones, z.name)
                others == OtherZones(zones, z.name)
    <2>1. /\ k \in 1..n /\ zones[k].name = z.name
          /\ \A j \in 1..n : zones[j].name = z.name => k <= j
      BY <1>3, FirstIs DEF Named
    <2>2. out = [zones EXCEPT ![k] = z]
      BY <1>3 DEF AddAvailabilityZone
    <2>. HIDE DEF k
    <2>3. /\ out \in ZoneList /\ Len(out) = n /\ out[k] = z
          /\ \A i \in 1..n : i # k => out[i] = zones[i]
      BY <1>1, <2>1, <2>2 DEF ZoneList
    <2>. HIDE DEF out
    <2>4. Named(out, z.name) = Named(zones, z.name)
      BY <2>1, <2>3 DEF Named
    <2>5. FirstOf(out, z.name) = k
      BY <2>4 DEF FirstOf, k
    <2>6. AvailabilityZoneByName(out, z.name) = z
      BY <1>3, <2>3, <2>4, <2>5 DEF AvailabilityZoneByName
    <2>7. OtherZones(out, z.name) = others
      BY <2>1, <2>3 DEF OtherZones
    <2>8. SameOthers(zones, out, z.name)
      <3>. DEFINE from == [i \in others |-> i]
      <3>1. from \in [others -> others] /\ \A i \in others : from[i] = i
        OBVIOUS
      <3>2. \A i \in others : out[i] = zones[i]
        BY <2>1, <2>3 DEF OtherZones
      <3>. HIDE DEF from
      <3>. QED BY <2>7, <3>1, <3>2 DEF SameOthers
    <2>. QED BY <2>3, <2>6, <2>8 DEF out
  <1>. QED BY <1>2, <1>3

\* A file, and a command that edits it.
ConfigFile == [zones : ZoneList, indexes : BOOLEAN]
Editing(c) ==
    /\ DOMAIN c = DOMAIN NoEdit
    /\ c.step \in {"edit", "save", "writing"}
    /\ c.op \in {"add", "remove"}
    /\ c.zone \in ZoneEntry
    /\ c.op = "remove" => c.zone.at = 0
    /\ c.mem \in ConfigFile
    /\ c.raced \in BOOLEAN
    /\ c.step # "edit" =>
         c.out = IF c.op = "add" THEN AddAvailabilityZone(c.mem.zones, c.zone)
                 ELSE RemoveAvailabilityZone(c.mem.zones, c.zone.name)

SettingsInv ==
    /\ ctlConfig \in ConfigFile
    /\ edits \in Int
    /\ editor = [t \in Terms |-> editor[t]]
    /\ \A t \in Terms : editor[t].step = "idle" \/ Editing(editor[t])
    /\ \A t \in Terms : editor[t].step \in {"edit", "save"} /\ ~editor[t].raced => ctlConfig = editor[t].mem

\* What a command is about to write.
LEMMA OutIs ==
    ASSUME NEW c, Editing(c), c.step # "edit"
    PROVE  /\ c.out \in ZoneList
           /\ AvailabilityZoneByName(c.out, c.zone.name) = c.zone
           /\ SameOthers(c.mem.zones, c.out, c.zone.name)
  <1>1. c.mem.zones \in ZoneList /\ c.zone \in ZoneEntry
    BY DEF Editing, ConfigFile
  <1>2. CASE c.op = "add"
    BY <1>1, <1>2, AdditionSpares DEF Editing
  <1>3. CASE c.op = "remove"
    <2>1. c.zone = Zone(c.zone.name, 0)
      BY <1>1, <1>3 DEF Editing, ZoneEntry, Zone
    <2>2. c.out = RemoveAvailabilityZone(c.mem.zones, c.zone.name)
      BY <1>3 DEF Editing
    <2>. QED BY <1>1, <2>1, <2>2, RemovalSpares
  <1>. QED BY <1>2, <1>3 DEF Editing

\* A file that somebody wrote by hand, and nobody is editing it.
LEMMA SettingsStart == SettingsInit => SettingsInv
  <1>. SUFFICES ASSUME SettingsInit PROVE SettingsInv
    OBVIOUS
  <1>1. PICK n \in 0..MaxZones - 1 : \E names \in [1..n -> ZoneNames], has \in BOOLEAN :
         ctlConfig = CtlConfig([i \in 1..n |-> Zone(names[i], -i)], has)
    BY DEF SettingsInit
  <1>2. PICK names \in [1..n -> ZoneNames], has \in BOOLEAN :
         ctlConfig = CtlConfig([i \in 1..n |-> Zone(names[i], -i)], has)
    BY <1>1
  <1>3. n \in Nat
    BY SettingsAssumption
  <1>4. \A i \in 1..n : Zone(names[i], -i) \in ZoneEntry
    BY <1>3 DEF Zone, ZoneEntry
  <1>5. [i \in 1..n |-> Zone(names[i], -i)] \in ZoneList
    BY <1>3, <1>4 DEF ZoneList
  <1>6. ctlConfig \in ConfigFile
    BY <1>2, <1>5 DEF CtlConfig, ConfigFile
  <1>7. /\ editor = [t \in Terms |-> NoEdit] /\ edits = 0
        /\ NoEdit.step = "idle"
    BY DEF SettingsInit, NoEdit
  <1>8. \A t \in Terms : editor[t] = NoEdit
    BY <1>7
  <1>. HIDE DEF NoEdit
  <1>9. editor = [t \in Terms |-> editor[t]]
    BY <1>7
  <1>. QED BY <1>6, <1>7, <1>8, <1>9 DEF SettingsInv

\* A terminal goes on, the others as they were or aware of having been raced.
LEMMA OthersGoOn ==
    ASSUME NEW c, Editing(c), NEW b \in BOOLEAN
    PROVE  Editing([c EXCEPT !.raced = b])
  BY DEF Editing, NoEdit

\* Every step keeps what a command has read, and has made of it.
LEMMA SettingsStep == SettingsInv /\ [SettingsNext]_settingsVars => SettingsInv'
  <1>. SUFFICES ASSUME SettingsInv, [SettingsNext]_settingsVars PROVE SettingsInv'
    OBVIOUS
  <1>. USE DEF SettingsInv
  <1>. DEFINE Told(c) == c.step \in {"edit", "save"} /\ ~c.raced => ctlConfig' = c.mem
  <1>1. ASSUME NEW t \in Terms, NEW r, EditStep(t, r), UNCHANGED ctlConfig,
               r.step = "idle" \/ Editing(r), Told(r)
        PROVE  /\ editor' = [u \in Terms |-> editor'[u]]
               /\ \A u \in Terms : editor'[u].step = "idle" \/ Editing(editor'[u])
               /\ \A u \in Terms : Told(editor'[u])
    <2>1. editor' = [editor EXCEPT ![t] = r]
      BY <1>1 DEF EditStep
    <2>2. \A u \in Terms : editor'[u] = IF u = t THEN r ELSE editor[u]
      BY <2>1
    <2>. QED BY <1>1, <2>1, <2>2
  <1>2. ASSUME NEW t \in Terms, NEW name \in ZoneNames, NEW k \in Int, NEW o \in {"add", "remove"},
               o = "remove" => k = 0, StartEdit(t, o, Zone(name, k))
        PROVE  SettingsInv'
    <2>. DEFINE r == [NoEdit EXCEPT !.step = "edit", !.op = o, !.zone = Zone(name, k), !.mem = ctlConfig]
    <2>2. EditStep(t, r) /\ edits' = edits + 1 /\ UNCHANGED ctlConfig
      BY <1>2 DEF StartEdit
    <2>1. Editing(r) /\ Told(r)
      <3>1. /\ DOMAIN r = DOMAIN NoEdit /\ r.step = "edit" /\ r.op = o /\ r.zone = Zone(name, k)
            /\ r.mem = ctlConfig /\ r.raced = FALSE
        BY DEF NoEdit
      <3>2. Zone(name, k) \in ZoneEntry /\ Zone(name, k).at = k
        BY DEF Zone, ZoneEntry
      <3>. HIDE DEF r
      <3>. QED BY <1>2, <2>2, <3>1, <3>2 DEF Editing
    <2>. HIDE DEF r
    <2>. QED BY <1>1, <2>1, <2>2
  <1>3. ASSUME NEW t \in Terms, Edit(t) PROVE SettingsInv'
    <2>. DEFINE c == editor[t]
                edited == IF c.op = "add" THEN AddAvailabilityZone(c.mem.zones, c.zone)
                          ELSE RemoveAvailabilityZone(c.mem.zones, c.zone.name)
                r == [c EXCEPT !.step = "save", !.out = edited]
    <2>1. c.step = "edit" /\ Editing(c)
      BY <1>3 DEF Edit
    <2>2. Editing(r) /\ Told(r)
      <3>. HIDE DEF edited, c
      <3>1. /\ DOMAIN r = DOMAIN NoEdit /\ r.step = "save" /\ r.op = c.op /\ r.zone = c.zone
            /\ r.mem = c.mem /\ r.out = edited /\ r.raced = c.raced
        BY <2>1 DEF Editing, NoEdit
      <3>2. ~c.raced => ctlConfig = c.mem
        BY <2>1 DEF c
      <3>3. UNCHANGED ctlConfig
        BY <1>3 DEF Edit
      <3>. HIDE DEF r
      <3>4. Editing(r)
        BY <2>1, <3>1 DEF Editing, edited
      <3>. QED BY <3>1, <3>2, <3>3, <3>4
    <2>3. (EditStep(t, NoEdit) \/ EditStep(t, r)) /\ UNCHANGED <<ctlConfig, edits>>
      BY <1>3 DEF Edit
    <2>4. NoEdit.step = "idle"
      BY DEF NoEdit
    <2>. HIDE DEF r
    <2>. QED BY <1>1, <2>2, <2>3, <2>4
  <1>4. ASSUME NEW T \in SUBSET Terms, NEW r,
               T # {} => r.step = "idle" \/ Editing(r),
               T # {} => r.step \notin {"edit", "save"},
               editor' = [u \in Terms |-> IF u \in T THEN r
                               ELSE [editor[u] EXCEPT !.raced = editor[u].step # "idle"]]
        PROVE  /\ editor' = [u \in Terms |-> editor'[u]]
               /\ \A u \in Terms : editor'[u].step = "idle" \/ Editing(editor'[u])
               /\ \A u \in Terms : Told(editor'[u])
    <2>1. ASSUME NEW u \in Terms PROVE editor'[u].step = "idle" \/ Editing(editor'[u])
      <3>1. CASE u \in T
        BY <1>4, <3>1
      <3>2. CASE u \notin T
        <4>. DEFINE b == editor[u].step # "idle"
        <4>1. editor'[u] = [editor[u] EXCEPT !.raced = b]
          BY <1>4, <3>2
        <4>2. b \in BOOLEAN
          OBVIOUS
        <4>3. CASE Editing(editor[u])
          <5>. HIDE DEF b
          <5>. QED BY <4>1, <4>2, <4>3, OthersGoOn
        <4>4. CASE editor[u].step = "idle"
          BY <4>1, <4>4
        <4>. QED BY <4>3, <4>4
      <3>. QED BY <3>1, <3>2
    <2>2. ASSUME NEW u \in Terms, editor'[u].step \in {"edit", "save"} PROVE editor'[u].raced
      <3>1. u \notin T
        BY <1>4, <2>2
      <3>. DEFINE b == editor[u].step # "idle"
      <3>2. editor'[u] = [editor[u] EXCEPT !.raced = b]
        BY <1>4, <3>1
      <3>3. CASE Editing(editor[u])
        <4>1. /\ editor'[u].step = editor[u].step
              /\ editor'[u].raced = b
          BY <3>2, <3>3 DEF Editing, NoEdit
        <4>. QED BY <2>2, <4>1
      <3>4. CASE editor[u].step = "idle"
        <4>1. editor'[u].step = "idle"
          BY <3>2, <3>4
        <4>. QED BY <2>2, <4>1
      <3>. QED BY <3>3, <3>4
    <2>. QED BY <1>4, <2>1, <2>2
  <1>5. ASSUME NEW t \in Terms, Save(t) PROVE SettingsInv'
    <2>. DEFINE c == editor[t]
    <2>1. c.step \in {"save", "writing"} /\ Editing(c)
      BY <1>5 DEF Save
    <2>2. edits' = edits
      BY <1>5 DEF Save
    <2>3. CASE c.step = "save"
      <3>. DEFINE r == [c EXCEPT !.step = "writing"]
      <3>1. ctlConfig' = Truncated /\ EditWrote(t, r)
        BY <1>5, <2>3 DEF Save
      <3>2. Truncated \in ConfigFile
        BY DEF Truncated, CtlConfig, ConfigFile, ZoneList
      <3>3. Editing(r)
        BY <2>1, <2>3 DEF Editing, NoEdit
      <3>. HIDE DEF r
      <3>4. editor' = [u \in Terms |-> IF u \in {t} THEN r
                               ELSE [editor[u] EXCEPT !.raced = editor[u].step # "idle"]]
        BY <3>1 DEF EditWrote
      <3>5. r.step = "writing"
        BY <2>1 DEF Editing, NoEdit, r
      <3>6. /\ editor' = [u \in Terms |-> editor'[u]]
            /\ \A u \in Terms : editor'[u].step = "idle" \/ Editing(editor'[u])
            /\ \A u \in Terms : Told(editor'[u])
        <4>1. {t} \in SUBSET Terms
          OBVIOUS
        <4>. HIDE DEF Told, SettingsInv
        <4>. QED BY <1>4, <3>3, <3>4, <3>5, <4>1
      <3>. QED BY <2>2, <3>1, <3>2, <3>6
    <2>4. CASE c.step = "writing"
      <3>1. ctlConfig' = [c.mem EXCEPT !.zones = c.out] /\ EditWrote(t, NoEdit)
        BY <1>5, <2>4 DEF Save
      <3>2. c.mem \in ConfigFile /\ c.out \in ZoneList
        BY <2>1, <2>4, OutIs DEF Editing
      <3>3. ctlConfig' \in ConfigFile
        BY <3>1, <3>2 DEF ConfigFile
      <3>4. editor' = [u \in Terms |-> IF u \in {t} THEN NoEdit
                               ELSE [editor[u] EXCEPT !.raced = editor[u].step # "idle"]]
        BY <3>1 DEF EditWrote
      <3>5. NoEdit.step = "idle"
        BY DEF NoEdit
      <3>6. /\ editor' = [u \in Terms |-> editor'[u]]
            /\ \A u \in Terms : editor'[u].step = "idle" \/ Editing(editor'[u])
            /\ \A u \in Terms : Told(editor'[u])
        <4>1. {t} \in SUBSET Terms
          OBVIOUS
        <4>. HIDE DEF Told, SettingsInv
        <4>. QED BY <1>4, <3>4, <3>5, <4>1
      <3>. QED BY <2>2, <3>3, <3>6
    <2>. QED BY <2>1, <2>3, <2>4
  <1>6. ASSUME NEW t \in Terms, EditKilled(t) PROVE SettingsInv'
    <2>1. EditStep(t, NoEdit) /\ edits' = edits + 1 /\ UNCHANGED ctlConfig
      BY <1>6 DEF EditKilled
    <2>2. NoEdit.step = "idle"
      BY DEF NoEdit
    <2>. QED BY <1>1, <2>1, <2>2
  <1>7. CASE EditedByHand
    <2>1. edits' = edits + 1
      BY <1>7 DEF EditedByHand
    <2>2. PICK name \in ZoneNames :
            ctlConfig' = [ctlConfig EXCEPT !.zones = Append(@, Zone(name, edits'))]
      BY <1>7 DEF EditedByHand
    <2>3. Zone(name, edits') \in ZoneEntry
      BY <2>1 DEF Zone, ZoneEntry
    <2>4. Append(ctlConfig.zones, Zone(name, edits')) \in ZoneList
      BY <2>3 DEF ConfigFile, ZoneList
    <2>5. ctlConfig' \in ConfigFile
      BY <2>2, <2>4 DEF ConfigFile
    <2>6. editor' = [u \in Terms |-> IF u \in {} THEN NoEdit
                               ELSE [editor[u] EXCEPT !.raced = editor[u].step # "idle"]]
      BY <1>7 DEF EditedByHand
    <2>7. /\ editor' = [u \in Terms |-> editor'[u]]
          /\ \A u \in Terms : editor'[u].step = "idle" \/ Editing(editor'[u])
          /\ \A u \in Terms : Told(editor'[u])
      <3>1. {} \in SUBSET Terms
        OBVIOUS
      <3>. HIDE DEF Told, SettingsInv
      <3>. QED BY <1>4, <2>6, <3>1
    <2>. QED BY <2>1, <2>5, <2>7
  <1>8. CASE UNCHANGED settingsVars
    BY <1>8 DEF settingsVars
  <1>9. ASSUME NEW t \in Terms, NEW name \in ZoneNames,
               \/ \E k \in {0, edits + 1} : StartEdit(t, "add", Zone(name, k))
               \/ StartEdit(t, "remove", Zone(name, 0))
        PROVE  SettingsInv'
    BY <1>2, <1>9
  <1>. QED BY <1>3, <1>5, <1>6, <1>7, <1>8, <1>9 DEF SettingsNext

\* A command of viti config that nobody overtook leaves the zone it names as it
\* says, and all other zones and settings as they were (settings.go): for every
\* number of zones, terminals and edits.
THEOREM ConfigEditsOneZone == SettingsSpec => EditsOneZone
  <1>. DEFINE Done(t) ==
         LET c == editor[t] IN
         /\ c.step = "save" /\ editor'[t].step = "writing" /\ ~c.raced => ctlConfig = c.mem
         /\ c.step = "writing" /\ editor'[t] = NoEdit /\ edits' = edits =>
              /\ AvailabilityZoneByName(ctlConfig'.zones, c.zone.name) = c.zone
              /\ SameOthers(c.mem.zones, ctlConfig'.zones, c.zone.name)
              /\ ctlConfig'.indexes = c.mem.indexes
  <1>1. ASSUME SettingsInv, [SettingsNext]_settingsVars, NEW t \in Terms PROVE Done(t)
    <2>. SUFFICES ASSUME editor[t].step = "writing", editor'[t] = NoEdit, edits' = edits
                  PROVE  /\ AvailabilityZoneByName(ctlConfig'.zones, editor[t].zone.name) = editor[t].zone
                         /\ SameOthers(editor[t].mem.zones, ctlConfig'.zones, editor[t].zone.name)
                         /\ ctlConfig'.indexes = editor[t].mem.indexes
      BY <1>1 DEF SettingsInv
    <2>1. edits' # edits + 1 /\ editor'[t].step = "idle" /\ editor'[t].step # editor[t].step
      <3>1. edits \in Int
        BY <1>1 DEF SettingsInv
      <3>2. NoEdit.step = "idle"
        BY DEF NoEdit
      <3>. QED BY <3>1, <3>2
    <2>2. \E u \in Terms : Edit(u) \/ Save(u)
      <3>1. edits' # edits + 1
        BY <2>1
      <3>2. ~UNCHANGED settingsVars
        BY <2>1 DEF settingsVars
      <3>3. \A u, o, z : ~StartEdit(u, o, z)
        BY <3>1 DEF StartEdit
      <3>4. \A u : ~EditKilled(u)
        BY <3>1 DEF EditKilled
      <3>5. ~EditedByHand
        BY <3>1 DEF EditedByHand
      <3>. QED BY <1>1, <3>2, <3>3, <3>4, <3>5 DEF SettingsNext
    <2>3. PICK u \in Terms : Edit(u) \/ Save(u)
      BY <2>2
    <2>4. u = t /\ Save(t)
      <3>1. CASE Edit(u)
        <4>1. editor[u].step = "edit"
          BY <3>1 DEF Edit
        <4>2. editor'[t] = editor[t]
          BY <1>1, <3>1, <4>1 DEF Edit, EditStep, SettingsInv
        <4>. QED BY <2>1, <4>2
      <3>2. CASE Save(u) /\ u # t
        <4>1. \E r : EditWrote(u, r)
          BY <3>2 DEF Save
        <4>2. editor'[t] = [editor[t] EXCEPT !.raced = editor[t].step # "idle"]
          BY <3>2, <4>1 DEF EditWrote
        <4>3. editor'[t].step = editor[t].step
          BY <4>2
        <4>. QED BY <2>1, <4>3
      <3>. QED BY <2>3, <3>1, <3>2
    <2>5. ctlConfig' = [editor[t].mem EXCEPT !.zones = editor[t].out]
      BY <2>4 DEF Save
    <2>6. Editing(editor[t])
      BY <1>1 DEF SettingsInv
    <2>7. ctlConfig'.zones = editor[t].out /\ ctlConfig'.indexes = editor[t].mem.indexes
      BY <2>5, <2>6 DEF Editing, ConfigFile
    <2>. QED BY <2>6, <2>7, OutIs
  <1>2. SettingsInv /\ [SettingsNext]_settingsVars => [\A t \in Terms : Done(t)]_<<ctlConfig, editor>>
    BY <1>1
  <1>. HIDE DEF Done
  <1>3. SettingsSpec => [][\A t \in Terms : Done(t)]_<<ctlConfig, editor>>
    BY <1>2, SettingsStart, SettingsStep, PTL DEF SettingsSpec
  <1>. QED BY <1>3 DEF EditsOneZone, Done
=============================================================================

----------------------------- MODULE ReleaseFetch -----------------------------
(***************************************************************************)
(* How a plugin is had from GitHub: the indexes that list it, its latest   *)
(* release, the assets of the release, and their verification.  Each       *)
(* request may be answered otherwise than the one before: the budget of    *)
(* API calls is shared, and runs out at any time.                          *)
(***************************************************************************)
EXTENDS Integers, Sequences, FiniteSets

CONSTANTS
    Sources,     \* how many indexes are configured
    Tokens       \* tokens a machine may have: a subset of AllTokens

\* None at all; one that is accepted; one that is answered 401; one that lacks
\* access, answered 403.
AllTokens == {"none", "good", "stale", "denied"}

ASSUME FetchAssumption == Sources \in Nat \ {0} /\ Tokens \subseteq AllTokens

VARIABLES
    site,        \* what does not change meanwhile: the machine, the repository
    step,        \* what Install does next, or how it ended
    indexes,     \* indexes[i]: what index i is
    entry,       \* the index the plugin's entry is from, 0: none so far
    late,        \* the index at which the time for reading them was up, or none: Sources + 1
    got,         \* got[asset]: "as published", "damaged" on the way, or "nothing"
    spoiled      \* (history) a download was answered 429, its limit

fetchVars == <<site, step, indexes, entry, late, got, spoiled>>

Site == [token: Tokens, public: BOOLEAN, complete: BOOLEAN, cosign: BOOLEAN,
         skipChecksum: BOOLEAN, skipCosign: BOOLEAN]
Assets == {"archive", "sums", "bundle"}

\* Down or not valid; open to everybody, without the plugin or listing it;
\* listing it, on GitHub, for those with a good token.
IndexKinds == {"unreadable", "lists not", "lists", "lists privately"}

\* complete: the release has a bundle for its archive.
FetchInit ==
    /\ site \in Site
    /\ step = [at |-> "index", i |-> 1]
    /\ indexes \in [1..Sources -> IndexKinds]
    /\ entry = 0 /\ late = Sources + 1
    /\ got = [a \in Assets |-> "nothing"]
    /\ spoiled = FALSE

Goto(s) == step' = [step EXCEPT !.at = s]
FetchEnded == {"installed", "failed"}

-----------------------------------------------------------------------------
\* A refused token makes GitHub deny a public file, too.
getIndex(index, token) ==
    \/ index \in {"lists", "lists not"} /\ token \in {"none", "good"}
    \/ index = "lists privately" /\ token = "good"

\* Mutant of fetchIndexBody: no second attempt.
getIndexOnce(index) == getIndex(index, site.token)

\* fetchIndexBody: any failure with a token is retried without.
fetchIndexBody(index) == getIndex(index, site.token) \/ getIndex(index, "none")

Lists(index) == fetchIndexBody(index) /\ index # "lists not"

\* FetchIndex: later indexes win, unreadable ones are skipped.  fetchTimeout is
\* one for all of them and for both attempts at each: once it is up, as an index
\* that does not answer makes it, no index is read any more.
ReadIndex ==
    /\ step.at = "index" /\ step.i <= Sources
    /\ \/ /\ late > Sources
          /\ entry' = IF Lists(indexes[step.i]) THEN step.i ELSE entry
          /\ UNCHANGED late
       \/ late' = (IF late > Sources THEN step.i ELSE late) /\ UNCHANGED entry
    /\ step' = [step EXCEPT !.i = @ + 1]
    /\ UNCHANGED <<site, indexes, got, spoiled>>

Find ==
    /\ step.at = "index" /\ step.i > Sources
    /\ Goto(IF entry = 0 THEN "failed" ELSE "latest")
    /\ UNCHANGED <<site, indexes, entry, late, got, spoiled>>

\* What GitHub's API answers about the repository.
Answers(token) ==
    CASE token = "stale"  -> {"401"}
      [] token = "denied" -> {"403"}
      [] OTHER -> {"limited 403", "limited 429",
                   IF site.public \/ token = "good" THEN "200" ELSE "404"}

Limited == {"limited 403", "limited 429"}

\* Mutant of getWithAnonymousFallback: a refused token is not done without.
getOnce == IF Answers(site.token) \subseteq {"401", "403"} THEN {"refused"}
           ELSE {IF a = "200" THEN "ok" ELSE IF a \in Limited THEN "limited" ELSE "refused" :
                   a \in Answers(site.token)}

\* What may come of asking for a release: a token that is refused is left out
\* of a second request.
getWithAnonymousFallback ==
    LET outcome(a) == IF a = "200" THEN "ok" ELSE IF a \in Limited THEN "limited" ELSE "refused"
    IN UNION {IF a \in {"401", "403"} THEN {outcome(b) : b \in Answers("none")} ELSE {outcome(a)} :
                a \in Answers(site.token)}

\* The release page and the public download URL see public repositories, and
\* have no limit.
Web == site.public

LatestVersion ==
    /\ step.at = "latest"
    /\ \E r \in getWithAnonymousFallback :
         Goto(IF r = "ok" \/ (r = "limited" /\ Web) THEN "archive" ELSE "failed")
    /\ UNCHANGED <<site, indexes, entry, late, got, spoiled>>

\* fetchAsset: whether it comes.  Of the answers to a download with a token
\* 401 and 403 lead to the public URL, limited or not; 429 does not.
fetchAsset(yes) ==
    \/ site.token = "none" /\ yes = Web /\ UNCHANGED spoiled
    \/ /\ site.token # "none"
       /\ \E r \in getWithAnonymousFallback :
            \/ r = "limited" /\ yes = Web /\ UNCHANGED spoiled
            \/ r = "refused" /\ ~yes /\ UNCHANGED spoiled
            \/ r = "ok" /\ \E a \in Answers(site.token) :
                 /\ yes = (a = "200" \/ (a \in {"401", "403", "limited 403"} /\ Web))
                 /\ spoiled' = (spoiled \/ a = "limited 429")

Download(asset, next) ==
    /\ step.at = asset
    /\ \E yes \in BOOLEAN :
         /\ fetchAsset(yes)
         /\ IF yes /\ (asset = "bundle" => site.complete)
            THEN \E how \in {"as published", "damaged"} : got' = [got EXCEPT ![asset] = how] /\ Goto(next)
            ELSE Goto("failed") /\ UNCHANGED got
    /\ UNCHANGED <<site, indexes, entry, late>>

GetArchive == Download("archive", IF ~site.skipChecksum THEN "sums"
                                  ELSE IF ~site.skipCosign THEN "bundle" ELSE "extract")
GetSums    == Download("sums", "compare")
GetBundle  == Download("bundle", "verify")

\* Mutant of CompareSums: an archive that the sums do not list is let through.
CompareSumsIfListed ==
    /\ step.at = "compare"
    /\ Goto(IF site.skipCosign THEN "extract" ELSE "bundle")
    /\ UNCHANGED <<site, indexes, entry, late, got, spoiled>>

\* The sums must list the archive, with its own sum.
CompareSums ==
    /\ step.at = "compare"
    /\ Goto(IF got["archive"] # "as published" \/ got["sums"] # "as published" THEN "failed"
            ELSE IF site.skipCosign THEN "extract" ELSE "bundle")
    /\ UNCHANGED <<site, indexes, entry, late, got, spoiled>>

\* verifyCosign: a bundle must be there; without cosign it is not looked at.
VerifyBundle ==
    /\ step.at = "verify"
    /\ Goto(IF site.cosign /\ (got["archive"] # "as published" \/ got["bundle"] # "as published")
            THEN "failed" ELSE "extract")
    /\ UNCHANGED <<site, indexes, entry, late, got, spoiled>>

\* extractBinary: a damaged archive may still unpack.
Extract ==
    /\ step.at = "extract"
    /\ \/ Goto("installed")
       \/ got["archive"] = "damaged" /\ Goto("failed")
    /\ UNCHANGED <<site, indexes, entry, late, got, spoiled>>

FetchNext ==
    \/ ReadIndex \/ Find \/ LatestVersion
    \/ GetArchive \/ GetSums \/ GetBundle
    \/ CompareSums \/ VerifyBundle \/ Extract

FetchSpec == FetchInit /\ [][FetchNext]_fetchVars

-----------------------------------------------------------------------------
\* The indexes whose turn came before the time was up.
InTime == 1..late - 1

\* "A used-up API budget need not stop an install" (install.go), nor does a
\* token left behind, which "would otherwise break installs of public plugins
\* that need no credentials at all" (auth.go), nor an index that cannot be read:
\* a public plugin that some readable index lists installs, whatever GitHub
\* answers, if its release is complete and arrives as published; unless a
\* download itself is answered 429, or the time was up before that index.
PublicPluginsInstall ==
    step.at = "failed" =>
        \/ ~site.public \/ spoiled
        \/ ~site.complete /\ ~site.skipCosign
        \/ \A i \in InTime : indexes[i] # "lists"
        \/ \E a \in Assets : got[a] = "damaged"

\* What is installed is what was published, and the last readable index in time
\* that lists the plugin said where: unless checksum and signature are both
\* skipped, or the signature could not be looked at and the checksum is
\* skipped.
InstallsWhatWasPublished ==
    step.at = "installed" =>
        /\ \/ got["archive"] = "as published"
           \/ site.skipChecksum /\ (site.skipCosign \/ ~site.cosign)
        /\ site.skipCosign \/ site.complete
        /\ \A i \in InTime :
             indexes[i] = "lists" \/ (indexes[i] = "lists privately" /\ site.token = "good") => i <= entry
=============================================================================

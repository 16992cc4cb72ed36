------------------------------ MODULE Release ------------------------------
(***************************************************************************)
(* How the main step finds and downloads the daemon's binary (js/main.js). *)
(* The ref that the action was pinned to, or the input action-ref, is a tag*)
(* or a commit, and only its form tells which: what looks like a commit is *)
(* looked up in the list of tags, page by page, and its release is asked   *)
(* for with the token; anything else is taken for a tag, whose asset has a *)
(* public address.                                                         *)
(*                                                                         *)
(* GitHub is external: a private repository answers only requests with a   *)
(* token, and its tags may be added and removed between two pages.         *)
(***************************************************************************)
EXTENDS Naturals, SequencesExt, FiniteSets

CONSTANTS
    Tag,        \* names of tags
    HexTag,     \* those that are 7 to 40 hexadecimal digits
    Sha,        \* full or abbreviated commit hashes
    UpperCase,  \* the hexadecimal refs that have a digit in upper case
    Abbreviates,\* Abbreviates[s]: the tags whose commit s abbreviates, in either case
    Released,   \* the tags that have, as long as they exist, a release with the asset
    PerPage     \* tags per page, 100 in the code

ASSUME RefsAssumption ==
    /\ IsFiniteSet(Tag)
    /\ HexTag \subseteq Tag /\ Released \subseteq Tag
    /\ Sha \cap Tag = {}
    /\ UpperCase \subseteq Sha \cup HexTag
    /\ Abbreviates \in [Sha \cup HexTag -> SUBSET Tag]
    /\ PerPage \in Nat \ {0}

VARIABLES
    ref,       \* action-ref or GITHUB_ACTION_REF
    private,   \* the repository is private
    token,     \* a github-token was given
    tags,      \* server: the tags of the repository, in the order it lists them
    first,     \* server: the tags there were at the start (history)
    removed,   \* server: a tag was removed since (history)
    pc,        \* where main is, or how it ended
    page,      \* page
    tag,       \* the tag whose asset is asked for
    fault      \* a request has failed for no reason of its own (history)

server == <<private, tags, first, removed>>
vars == <<ref, token, server, pc, page, tag, fault>>

None == "none"

Init == /\ ref \in Tag \cup Sha
        /\ private \in BOOLEAN /\ token \in BOOLEAN
        /\ \E present \in SUBSET Tag : tags \in SetToSeqs(present)
        /\ first = ToSet(tags)
        /\ removed = FALSE
        /\ pc = "start" /\ page = 1 /\ tag = None
        /\ fault = FALSE

Ended == pc \in {"ok", "failed", "noTag"}

-----------------------------------------------------------------------------
\* Server: a tag is added anywhere in the list, or removed.
AddTag(t) ==
    /\ t \notin ToSet(tags)
    /\ ~Ended /\ t \notin first
    /\ \E i \in 1 .. Len(tags) + 1 : tags' = InsertAt(tags, i, t)
    /\ UNCHANGED <<ref, token, private, first, removed, pc, page, tag, fault>>

RemoveTag(t) ==
    /\ ~Ended /\ t \in first /\ ~removed
    /\ \E i \in 1 .. Len(tags) : tags[i] = t /\ tags' = RemoveAt(tags, i)
    /\ removed' = TRUE
    /\ UNCHANGED <<ref, token, private, first, pc, page, tag, fault>>

-----------------------------------------------------------------------------
\* The test does not look at the case of the digits ...
IsCommitSha(r) == r \in Sha \cup HexTag

Start ==
    /\ pc = "start"
    /\ \/ IsCommitSha(ref) /\ pc' = "tags" /\ tag' = tag
       \/ ~IsCommitSha(ref) /\ pc' = "direct" /\ tag' = ref
    /\ UNCHANGED <<ref, token, server, page, fault>>

\* The server answers a request that carries the token, if there is one.
Answered == private => token

\* The places in the list that a page shows: none, past the end of the list.
Page(n) == {i \in 1 .. Len(tags) : (n - 1) * PerPage < i /\ i <= n * PerPage}

\* ... but commit.sha.startsWith(commitSha) does, and hashes are in lower case.
IsOfRef(i) == ref \notin UpperCase /\ tags[i] \in Abbreviates[ref]

NoneOnPage == \A i \in Page(page) : ~IsOfRef(i)

\* tags.find: the first of the page that is of the commit.
FirstOnPage(i) == /\ i \in Page(page) /\ IsOfRef(i)
                  /\ \A j \in Page(page) : IsOfRef(j) => i <= j

\* (mutant) A page that is not full is taken for the end, unread.
ListTagsOfFullPages ==
    /\ pc = "tags" /\ Answered
    /\ \/ /\ Cardinality(Page(page)) < PerPage
          /\ pc' = "noTag" /\ UNCHANGED <<page, tag>>
       \/ /\ Cardinality(Page(page)) = PerPage /\ NoneOnPage
          /\ page' = page + 1 /\ UNCHANGED <<pc, tag>>
       \/ /\ Cardinality(Page(page)) = PerPage
          /\ \E i \in Page(page) : FirstOnPage(i) /\ tag' = tags[i]
          /\ pc' = "release" /\ page' = page
    /\ UNCHANGED <<ref, token, server, fault>>

\* (mutant) The first page is asked for again.
ListFirstPage ==
    /\ pc = "tags" /\ Answered
    /\ \/ /\ Page(page) = {}
          /\ pc' = "noTag" /\ tag' = tag
       \/ /\ Page(page) # {} /\ NoneOnPage
          /\ UNCHANGED <<pc, tag>>
       \/ /\ \E i \in Page(page) : FirstOnPage(i) /\ tag' = tags[i]
          /\ pc' = "release"
    /\ UNCHANGED <<ref, token, server, page, fault>>

\* One iteration of tagForCommit.
ListTags ==
    /\ pc = "tags" /\ Answered
    /\ \/ /\ Page(page) = {}
          /\ pc' = "noTag" /\ UNCHANGED <<page, tag>>
       \/ /\ Page(page) # {} /\ NoneOnPage
          /\ page' = page + 1 /\ UNCHANGED <<pc, tag>>
       \/ /\ \E i \in Page(page) : FirstOnPage(i) /\ tag' = tags[i]
          /\ pc' = "release" /\ page' = page
    /\ UNCHANGED <<ref, token, server, fault>>

\* The tag has a release with the asset of this platform.
HasAsset(t) == t \in Released \cap ToSet(tags)

\* The release of the tag is found, and the asset in it.
FindAsset ==
    /\ pc = "release" /\ Answered
    /\ pc' = IF HasAsset(tag) THEN "asset" ELSE "failed"
    /\ UNCHANGED <<ref, token, server, page, tag, fault>>

\* (mutant) The asset itself is asked for without the token.
DownloadAssetWithoutToken ==
    /\ pc = "asset" /\ Answered
    /\ pc' = IF private THEN "failed" ELSE "ok"
    /\ UNCHANGED <<ref, token, server, page, tag, fault>>

\* The asset is downloaded, with the token ...
DownloadAsset ==
    /\ pc = "asset" /\ Answered
    /\ pc' = "ok"
    /\ UNCHANGED <<ref, token, server, page, tag, fault>>

\* ... or from its public address, without.
DownloadDirectly ==
    /\ pc = "direct"
    /\ pc' = IF HasAsset(tag) /\ ~private THEN "ok" ELSE "failed"
    /\ UNCHANGED <<ref, token, server, page, tag, fault>>

Refused ==
    /\ pc \in {"tags", "release", "asset"} /\ ~Answered
    /\ pc' = "failed"
    /\ UNCHANGED <<ref, token, server, page, tag, fault>>

\* A request fails, or the asset is not the whole of a gzip file.
RequestFails ==
    /\ pc # "start" /\ ~Ended
    /\ pc' = "failed" /\ fault' = TRUE
    /\ UNCHANGED <<ref, token, server, page, tag>>

Main == \/ Start \/ ListTags \/ FindAsset
        \/ DownloadAsset \/ DownloadDirectly \/ Refused

Over == Ended /\ UNCHANGED vars

Next == \/ Main \/ RequestFails \/ Over
        \/ \E t \in Tag : AddTag(t) \/ RemoveTag(t)

Spec == Init /\ [][Next]_vars

\* Every request is answered.
FairSpec == Spec /\ WF_vars(Main)

-----------------------------------------------------------------------------
(***************************************************************************)
(* The state of main and of the repository; paging stops one page past the *)
(* list.                                                                   *)
(***************************************************************************)
TypeOK ==
    /\ ref \in Tag \cup Sha
    /\ tags \in Seq(Tag)
    /\ pc \in {"start", "tags", "release", "asset", "direct",
               "ok", "failed", "noTag"}
    /\ page \in 1 .. Cardinality(Tag) + 1
    /\ tag \in Tag \cup {None}

(***************************************************************************)
(* A commit is reported to have no tag only if none of the tags that were  *)
(* there when the search began is of it, unless one was removed meanwhile: *)
(* tags that are added between two pages push others to later pages, where *)
(* they are seen (again), never to earlier ones.  A ref with a digit in    *)
(* upper case is the exception: it is taken for a commit, but no tag       *)
(* matches it.                                                             *)
(***************************************************************************)
NoTagMeansNone ==
    pc = "noTag" /\ ~removed =>
        ref \in UpperCase \/ first \cap Abbreviates[ref] = {}

(***************************************************************************)
(* An action that is pinned to a commit gets the binary of a tag of this   *)
(* commit, from a private repository, too, if there is a token: when a tag *)
(* was there from the start, every tag of the commit is released, none     *)
(* goes away and no request fails, then the step does not, although tags   *)
(* are added between its requests.                                         *)
(***************************************************************************)
CommitIsDownloaded ==
    /\ Ended /\ ~fault /\ ~removed /\ Answered
    /\ IsCommitSha(ref) /\ ref \notin UpperCase
    /\ first \cap Abbreviates[ref] # {} /\ Abbreviates[ref] \subseteq Released
    => pc = "ok" /\ tag \in Abbreviates[ref]

(***************************************************************************)
(* What the description of github-token in action.yaml says of an action   *)
(* that is pinned to a released tag of a private repository: with a token  *)
(* its binary is downloaded.  The code does not send the token for a tag.  *)
(***************************************************************************)
TagIsDownloaded ==
    /\ Ended /\ ~fault /\ ~removed /\ private /\ token
    /\ ~IsCommitSha(ref) /\ ref \in Released \cap first
    => pc = "ok"

(***************************************************************************)
(* The search ends: the pages run out although tags are being added.       *)
(***************************************************************************)
SearchEnds == <>Ended
=============================================================================

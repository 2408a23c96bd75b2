----------------------------- MODULE CoreCatalog -----------------------------
(***************************************************************************)
(* The catalog of official cores: internal/catalog/github*.go,             *)
(* application/core.go, store/catalog_state.go, server/catalog_refresh.go. *)
(*                                                                         *)
(* Upstream lists its releases on pages, a request reads one of them. A     *)
(* refresh keeps the catalog when every page answers that it is unchanged  *)
(* and none follows the last; otherwise it loads all pages again. Upstream  *)
(* may change between any two requests.                                    *)
(***************************************************************************)
EXTENDS Integers, Sequences, FiniteSets, SequencesExt

CONSTANTS
  Releases,          \* what upstream may release
  Stable,            \* those with a stable version and usable assets
  PerPage,
  MaximumPages,
  RefreshInterval,
  MaxChanges,        \* bound: changes at upstream
  MaxTime            \* bound: clock

VARIABLES
  upstream,          \* releases at upstream, in the order of its list
  state,             \* catalog_state: the stored catalog and its validator
  refresh,           \* the refresh that holds catalogMu
  time, changes      \* clock and counter, both bounded

catalogVars == <<upstream, state, refresh, time, changes>>

None == [stored |-> FALSE, validator |-> <<>>, catalog |-> {}, refreshed |-> 0]
Idle == [step |-> "idle", page |-> 0, validator |-> <<>>, releases |-> <<>>, quiet |-> FALSE]

\* A page of the list; nothing else can follow a page that is not full.
Page(k) == SubSeq(upstream, (k - 1) * PerPage + 1, IF k * PerPage < Len(upstream) THEN k * PerPage ELSE Len(upstream))
HasNextLink(k) == k * PerPage < Len(upstream)
PageIsEmpty(k) == Page(k) = <<>>
NoETag == <<"none">>   \* a page that came without a validator

\* The validator of a page stands for its content.
Unchanged(etag, k) == etag = Page(k)

\* filter keeps the stable releases; validateCatalog refuses a duplicate one.
Filter(releases) == ToSet(releases) \cap Stable
ValidCatalog(releases) == \A i, j \in DOMAIN releases : releases[i] = releases[j] /\ releases[i] \in Stable => i = j

\* encodePageValidator: without the validator of every page there is none.
PageValidator(etags) == IF \E i \in DOMAIN etags : etags[i] = NoETag THEN <<>> ELSE etags

TypeOK ==
  /\ upstream \in SeqOf(Releases, Cardinality(Releases)) /\ IsInjective(upstream)
  /\ state.catalog \subseteq Stable /\ Len(state.validator) <= MaximumPages /\ state.stored \in BOOLEAN
  /\ refresh.step \in {"idle", "probe", "last", "unchanged", "load", "repository"}
  /\ refresh.page \in 0 .. MaximumPages + 1 /\ Len(refresh.releases) <= MaximumPages * PerPage

Init ==
  /\ upstream = <<>> /\ state = None /\ refresh = Idle /\ time = 0 /\ changes = 0

-----------------------------------------------------------------------------
\* RefreshCatalog: a scheduled one is skipped before it is due.
Due == ~state.stored \/ time >= state.refreshed + RefreshInterval
RefreshCatalog(force) ==
  /\ refresh = Idle /\ (force \/ Due)
  /\ refresh' = [Idle EXCEPT !.step = IF state.validator = <<>> THEN "load" ELSE "probe", !.page = 1, !.quiet = TRUE]
  /\ UNCHANGED <<upstream, state, time, changes>>

\* releasePagesUnchanged asks for every stored page; another answer than "not
\* modified" makes the refresh load everything.
ProbePage ==
  /\ refresh.step = "probe"
  /\ refresh' = IF ~Unchanged(state.validator[refresh.page], refresh.page)
                  THEN [refresh EXCEPT !.step = "load", !.page = 1]
                  ELSE [refresh EXCEPT !.step = IF refresh.page = Len(state.validator) THEN "last" ELSE @, !.page = @ + 1]
  /\ UNCHANGED <<upstream, state, time, changes>>

\* Mutant: the page after the last one is not asked for.
SkipLastPage ==
  /\ refresh.step = "last" /\ refresh' = [refresh EXCEPT !.step = "unchanged"]
  /\ UNCHANGED <<upstream, state, time, changes>>

\* Then for the page that would follow, which must be empty.
ProbeLastPage ==
  /\ refresh.step = "last"
  /\ refresh' = IF PageIsEmpty(refresh.page) /\ ~HasNextLink(refresh.page)
                  THEN [refresh EXCEPT !.step = "unchanged"]
                  ELSE [refresh EXCEPT !.step = "load", !.page = 1]
  /\ UNCHANGED <<upstream, state, time, changes>>

\* loadReleasePages, a page per request; upstream may leave a validator out.
LoadPage ==
  /\ refresh.step = "load" /\ refresh.page <= MaximumPages
  /\ \E etag \in {Page(refresh.page), NoETag} :
       refresh' = [refresh EXCEPT !.validator = Append(@, etag), !.releases = @ \o Page(refresh.page),
                                  !.page = @ + 1, !.step = IF HasNextLink(refresh.page) THEN "load" ELSE "repository"]
  /\ UNCHANGED <<upstream, state, time, changes>>

\* loadRepository has confirmed whose list it is; refreshCatalogWith stores the
\* pages, or once more what was not modified.
Save ==
  /\ \/ refresh.step = "unchanged" /\ state' = [state EXCEPT !.refreshed = time]
     \/ /\ refresh.step = "repository" /\ ValidCatalog(refresh.releases)
        /\ state' = [stored |-> TRUE, validator |-> PageValidator(refresh.validator),
                     catalog |-> Filter(refresh.releases), refreshed |-> time]
  /\ refresh' = Idle /\ UNCHANGED <<upstream, time, changes>>

\* A request fails, upstream has too many pages or a duplicate: nothing is stored.
Fail == refresh # Idle /\ refresh' = Idle /\ UNCHANGED <<upstream, state, time, changes>>

-----------------------------------------------------------------------------
\* Upstream publishes a release, also a back-dated one, or withdraws one.
Publish(r, place) ==
  /\ r \notin ToSet(upstream) /\ place \in 1 .. Len(upstream) + 1 /\ upstream' = InsertAt(upstream, place, r)
Withdraw(place) == place \in DOMAIN upstream /\ upstream' = RemoveAt(upstream, place)
UpstreamChanges ==
  /\ changes < MaxChanges /\ changes' = changes + 1
  /\ \/ \E r \in Releases : \E place \in 1 .. Cardinality(Releases) : Publish(r, place)
     \/ \E place \in 1 .. Cardinality(Releases) : Withdraw(place)
  /\ refresh' = [refresh EXCEPT !.quiet = FALSE] /\ UNCHANGED <<state, time>>

Tick == time < MaxTime /\ time' = time + 1 /\ UNCHANGED <<upstream, state, refresh, changes>>

Next ==
  \/ \E force \in BOOLEAN : RefreshCatalog(force)
  \/ ProbePage \/ ProbeLastPage \/ LoadPage \/ Save \/ Fail \/ UpstreamChanges \/ Tick

Spec == Init /\ [][Next]_catalogVars

-----------------------------------------------------------------------------
\* Whatever upstream changed while earlier refreshes read its pages one by one,
\* a refresh during which it stays as it is leaves exactly its stable releases,
\* also when it finds every page it knows unchanged and keeps the old catalog.
RefreshIsExact == [][(state' # state /\ refresh.quiet) => state'.catalog = Filter(upstream)]_catalogVars
=============================================================================

------------------------------ MODULE Routing ------------------------------
(***************************************************************************)
(* RoutingService: the Smart VPN settings of one user, the catalogue of    *)
(* domain rules, and the versioned profiles of one device.                 *)
(*                                                                         *)
(* regenerate_profile is part of a READ COMMITTED transaction (a refresh,  *)
(* a provisioning or a reissue).  It reads the mode, then the rules, then  *)
(* asks the DNS about each domain, which takes seconds, then reads the     *)
(* current profile, marks it superseded and inserts the next; settings and *)
(* other regenerations of the device go on in between.                     *)
(*                                                                         *)
(* A profile is either full (all traffic) or the set of domains whose      *)
(* addresses it routes; an address stands for its domain.                  *)
(***************************************************************************)
EXTENDS Naturals, FiniteSets, FiniteSetsExt

CONSTANTS
    Domains,
    Catalogue,   \* the domains admins may put rules in the catalogue for
    Categories,
    CategoryOf,  \* the category of each domain of the catalogue
    Jobs,        \* transactions that regenerate the profile
    MaxGens,     \* bound: regenerations
    MaxEdits,    \* bound: changes of settings and rules
    MaxFailures  \* bound: DNS failures and failed commits

ASSUME RoutingAssumption == /\ IsFiniteSet(Domains) /\ Catalogue \subseteq Domains
                            /\ CategoryOf \in [Catalogue -> Categories]
                            /\ MaxGens \in Nat /\ MaxEdits \in Nat /\ MaxFailures \in Nat

VARIABLES
    saved,     \* the user has a user_routing_profiles row
    mode,      \* its mode
    prefs,     \* user_category_preferences: the enabled categories
    rules,     \* routing_rules: the route of each listed domain
    custom,    \* user_custom_domains: the route of each
    rows,      \* vpn_profiles of the device
    job,       \* the open regenerations
    gens, edits, failures,
    raced,     \* history: two regenerations were open at once
    gone       \* domains that do not exist (NXDOMAIN)

settings    == <<saved, mode, prefs, rules, custom>>
routingVars == <<settings, rows, job, gens, edits, failures, raced, gone>>

Modes  == {"full_vpn", "smart_vpn"}
Routes == {"none", "vpn", "direct"}
Row    == [id : 1 .. MaxGens, version : Nat, current : BOOLEAN, full : BOOLEAN,
           routes : SUBSET Domains]

NoJob == [pc |-> "none", mode |-> "full_vpn", wanted |-> {}, routes |-> {}, full |-> FALSE,
          version |-> 0, old |-> {}, marked |-> {}, creates |-> FALSE, fresh |-> FALSE, id |-> 0]

Running == {j \in Jobs : job[j].pc # "none"}
Current == {r \in rows : r.current}

-----------------------------------------------------------------------------
(* Settings and rules.  Any of them may change while a profile is made:    *)
(* that profile is not fresh any more.                                     *)

Edit == /\ edits < MaxEdits /\ edits' = edits + 1
        /\ job' = [j \in Jobs |-> [job[j] EXCEPT !.fresh = FALSE]]
        /\ UNCHANGED <<rows, gens, failures, raced>>

(* get_or_create_user_profile and the new mode, in one short transaction.  *)
SetMode(m) == /\ m # mode /\ mode' = m
              /\ \A j \in Running : ~job[j].creates
              /\ saved' = TRUE
              /\ Edit /\ UNCHANGED <<prefs, rules, custom, gone>>

SetCategoryPreference(c, enabled) ==
    /\ prefs' = IF enabled THEN prefs \cup {c} ELSE prefs \ {c}
    /\ prefs' # prefs
    /\ Edit /\ UNCHANGED <<saved, mode, rules, custom, gone>>

(* An existing row gets the new route. *)
AddCustomDomain(d, route) ==
    /\ custom[d] # route
    /\ custom' = [custom EXCEPT ![d] = route]
    /\ Edit /\ UNCHANGED <<saved, mode, prefs, rules, gone>>

(* An admin lists a domain. *)
AddRule(d, route) == /\ rules[d] = "none"
                     /\ rules' = [rules EXCEPT ![d] = route]
                     /\ Edit /\ UNCHANGED <<saved, mode, prefs, custom, gone>>

(* A domain ceases to exist. *)
Disappear(d) == /\ d \notin gone /\ gone' = gone \cup {d}
                /\ Edit /\ UNCHANGED settings

-----------------------------------------------------------------------------
(* regenerate_profile.                                                     *)

Advance(j, record) == job' = [job EXCEPT ![j] = record]
Step(j, pc)        == Advance(j, [job[j] EXCEPT !.pc = pc])

Start(j) ==
    /\ job[j].pc = "none" /\ gens < MaxGens
    /\ gens' = gens + 1
    /\ raced' = (raced \/ Running # {})
    /\ Advance(j, [NoJob EXCEPT !.pc = IF saved THEN "mode" ELSE "create", !.id = gens',
                                !.fresh = TRUE])
    /\ UNCHANGED <<settings, rows, edits, failures, gone>>

(* The transaction ends with an exception: nothing of it stays.            *)
Abort(j) == /\ job' = [job EXCEPT ![j] = NoJob]
            /\ UNCHANGED <<settings, rows, gens, edits, failures, raced, gone>>

(* No settings row was found: one is inserted.  The unique user_id makes   *)
(* it wait for another that does the same, and fail once that committed.   *)
CreateSettings(j) ==
    /\ job[j].pc = "create"
    /\ \A k \in Running : ~job[k].creates
    /\ IF saved THEN Abort(j)
       ELSE /\ Advance(j, [job[j] EXCEPT !.pc = "supersede", !.creates = TRUE, !.full = TRUE])
            /\ UNCHANGED <<settings, rows, gens, edits, failures, raced, gone>>

ReadMode(j) ==
    /\ job[j].pc = "mode"
    /\ Advance(j, [job[j] EXCEPT !.mode = mode, !.full = mode = "full_vpn",
                                 !.pc = IF mode = "full_vpn" THEN "supersede" ELSE "rules"])
    /\ UNCHANGED <<settings, rows, gens, edits, failures, raced, gone>>

(* Mutant: a category without a preference counts as enabled. *)
EffectiveUnlessDisabled ==
    {d \in Catalogue : rules[d] = "vpn"} \cup {d \in Domains : custom[d] = "vpn"}

(* _resolve_user_domain_rules, for the domains that get route VPN from one *)
(* rule or the other: a catalogue rule whose category is enabled, or a     *)
(* domain of the user's own.                                               *)
Effective == {d \in Catalogue : rules[d] = "vpn" /\ CategoryOf[d] \in prefs}
             \cup {d \in Domains : custom[d] = "vpn"}

ReadRules(j) ==
    /\ job[j].pc = "rules"
    /\ Advance(j, [job[j] EXCEPT !.pc = "resolve", !.wanted = Effective])
    /\ UNCHANGED <<settings, rows, gens, edits, failures, raced, gone>>

(* "Never provision a peer that can reach nothing". *)
FallsBack(routes) == routes = {}

(* DomainResolver.resolve: a domain that does not exist has no address; a  *)
(* transient failure has none either, because regenerate_profile passes no *)
(* previous addresses to fall back to.                                     *)
Resolve(j) ==
    /\ job[j].pc = "resolve"
    /\ \E failed \in SUBSET (job[j].wanted \ gone) :
          LET routes == job[j].wanted \ (gone \cup failed) IN
          /\ failures + Cardinality(failed) <= MaxFailures
          /\ failures' = failures + Cardinality(failed)
          /\ Advance(j, [job[j] EXCEPT !.pc = "supersede", !.routes = routes,
                                       !.full = FallsBack(routes),
                                       !.fresh = job[j].fresh /\ failed = {}])
    /\ UNCHANGED <<settings, rows, gens, edits, raced, gone>>

NextVersion == 1 + (IF Current = {} THEN 0 ELSE (CHOOSE r \in Current : TRUE).version)

(* get_current_for_device raises when there are two current profiles.      *)
ReadCurrent(j) ==
    /\ job[j].pc = "supersede"
    /\ IF Cardinality(Current) > 1 THEN Abort(j)
       ELSE /\ Advance(j, [job[j] EXCEPT !.pc = "mark", !.version = NextVersion])
            /\ UNCHANGED <<settings, rows, gens, edits, failures, raced, gone>>

(* Mutant: the previous profile is not superseded. *)
SupersededNone == {}

(* The rows mark_superseded's UPDATE finds, by its snapshot. *)
Superseded == {r.id : r \in Current}

MarkSuperseded(j) ==
    /\ job[j].pc = "mark"
    /\ Advance(j, [job[j] EXCEPT !.pc = "lock", !.old = Superseded])
    /\ UNCHANGED <<settings, rows, gens, edits, failures, raced, gone>>

(* The UPDATE waits for the rows another transaction has updated, then     *)
(* looks at them again: rows that are not current any more are left alone, *)
(* and the row the other inserted is not among those it found.             *)
LockRows(j) ==
    /\ job[j].pc = "lock"
    /\ \A k \in Running : job[k].marked \cap job[j].old = {}
    /\ Advance(j, [job[j] EXCEPT !.pc = "commit",
                                 !.marked = job[j].old \cap {r.id : r \in Current}])
    /\ UNCHANGED <<settings, rows, gens, edits, failures, raced, gone>>

Commit(j) ==
    /\ job[j].pc = "commit"
    /\ rows' = {[r EXCEPT !.current = r.current /\ r.id \notin job[j].marked] : r \in rows}
               \cup {[id |-> job[j].id, version |-> job[j].version, current |-> TRUE,
                      full |-> job[j].full, routes |-> job[j].routes]}
    /\ saved' = (saved \/ job[j].creates)
    /\ Step(j, "done")
    /\ UNCHANGED <<mode, prefs, rules, custom, gens, edits, failures, raced, gone>>

(* The request fails after all: the answer of an agent, the commit.        *)
Fail(j) == /\ job[j].pc = "commit" /\ failures < MaxFailures
           /\ failures' = failures + 1
           /\ job' = [job EXCEPT ![j] = NoJob]
           /\ UNCHANGED <<settings, rows, gens, edits, raced, gone>>

Finish(j) == job[j].pc = "done" /\ Abort(j)

-----------------------------------------------------------------------------
(* A user who has chosen nothing yet. *)
UntouchedSettings ==
    /\ mode = "full_vpn" /\ prefs = {}
    /\ rules \in [Catalogue -> {"none", "vpn"}]
    /\ custom = [d \in Domains |-> "none"]
    /\ job = [j \in Jobs |-> NoJob]
    /\ edits = 0 /\ failures = 0
    /\ raced = FALSE /\ gone = {}

(* A device whose first profile is still to be made. *)
RoutingInit == UntouchedSettings /\ saved \in BOOLEAN /\ rows = {} /\ gens = 0

Settings == \/ \E m \in Modes : SetMode(m)
            \/ \E c \in Categories, on \in BOOLEAN : SetCategoryPreference(c, on)
            \/ \E d \in Domains, r \in {"vpn", "direct"} : AddCustomDomain(d, r)
            \/ \E d \in Catalogue, r \in {"vpn", "direct"} : AddRule(d, r)
            \/ \E d \in Domains : Disappear(d)

Regenerate(j) == \/ Start(j) \/ CreateSettings(j) \/ ReadMode(j) \/ ReadRules(j) \/ Resolve(j)
                 \/ ReadCurrent(j) \/ MarkSuperseded(j) \/ LockRows(j) \/ Commit(j)
                 \/ Fail(j) \/ Finish(j)

RoutingNext == Settings \/ \E j \in Jobs : Regenerate(j)

RoutingSpec == RoutingInit /\ [][RoutingNext]_routingVars

-----------------------------------------------------------------------------
(* Types: the settings tables, vpn_profiles, and the open regenerations.   *)
RoutingTypeOK ==
    /\ saved \in BOOLEAN /\ mode \in Modes /\ prefs \subseteq Categories
    /\ rules \in [Catalogue -> Routes] /\ custom \in [Domains -> Routes]
    /\ rows \subseteq Row
    /\ \A j \in Jobs : /\ job[j].wanted \subseteq Domains /\ job[j].routes \subseteq Domains
                       /\ job[j].version \in 0 .. gens
                       /\ job[j].marked \subseteq 1 .. MaxGens
    /\ gens <= MaxGens /\ edits <= MaxEdits /\ failures <= MaxFailures

(* A device that has a profile has a current one, whatever fails and       *)
(* whatever overlaps; as long as regenerations did not overlap, it has     *)
(* exactly one and it is the newest.  When they do overlap two can stay    *)
(* current, and get_current_for_device raises from then on.                *)
CurrentProfile ==
    /\ rows # {} => Current # {}
    /\ ~raced => \A r \in Current, s \in rows : r = s \/ r.version > s.version

(* A regeneration that met no failing lookup and no change of settings     *)
(* commits exactly what the settings ask for: everything in full_vpn mode, *)
(* otherwise the domains of the enabled categories and the user's own that *)
(* exist, and everything where that leaves nothing.                        *)
FreshProfileIsExact ==
    \A j \in Jobs : job[j].pc = "done" /\ job[j].fresh =>
        LET asked == {d \in Domains : \/ custom[d] = "vpn"
                                      \/ d \in Catalogue /\ rules[d] = "vpn"
                                                         /\ CategoryOf[d] \in prefs}
            r == CHOOSE x \in rows : x.id = job[j].id
        IN  IF mode = "full_vpn" \/ asked \cap gone = asked THEN r.full
            ELSE ~r.full /\ asked \ gone \subseteq r.routes /\ r.routes \subseteq asked

(* A domain that was routed through the VPN, exists and is still asked for *)
(* stays routed when its lookup fails (docs/routing.md, "flaky DNS").      *)
FlakyDnsKeepsDomain ==
    [][\A j \in Jobs : \A r \in Current :
          job[j].pc = "commit" /\ job'[j].pc = "done" =>
              \A d \in (r.routes \cap job[j].wanted) \ gone :
                  job[j].full \/ d \in job[j].routes]_routingVars
=============================================================================

--------------------------- MODULE VpnAgentProofs ---------------------------
(***************************************************************************)
(* Proofs about VpnAgent for any number of keys, addresses, requests and   *)
(* faults: what was acknowledged stays true through other requests,        *)
(* crashes, reboots and startup passes, the startup pass restores every    *)
(* peer, and the node implements PeerAccess.                               *)
(***************************************************************************)
EXTENDS VpnAgent, TLAPS

CreateSteps  == {"create_upsert", "create_set", "create_save", "create_rename"}
DeleteSteps  == {"delete_row", "delete_remove", "delete_save", "delete_rename"}
DisableSteps == {"disable_get", "disable_row", "disable_remove", "disable_save",
                 "disable_rename"}
EnableSteps  == {"enable_get", "enable_reget", "enable_row", "enable_set", "enable_save",
                 "enable_rename"}

StepsOf(op) == CASE op = "create"  -> CreateSteps
                 [] op = "delete"  -> DeleteSteps
                 [] op = "disable" -> DisableSteps
                 [] op = "enable"  -> EnableSteps
                 [] OTHER          -> {}

(* A handler runs its own request's steps, on a key that has an address,   *)
(* while the agent is up; and a request that overlapped no other has its   *)
(* key to itself.                                                          *)
CallInv ==
    /\ \A c \in Calls : Busy(c) => /\ call[c].pc \in StepsOf(call[c].op)
                                   /\ call[c].key \in Keys
                                   /\ ip[call[c].key] # NoIp
                                   /\ agent = "up"
    /\ \A c, d \in Calls : c # d /\ Busy(c) /\ Busy(d) /\ call[c].solo => call[d].key # call[c].key

(* Every row has an address; what a copy of the interface holds belongs to *)
(* a peer with an address, and is that address if nobody else was given it. *)
Sound(conf) == \A k \in Keys : conf[k] # NotPeer => /\ ip[k] # NoIp
                                                    /\ Uncontested(k) => conf[k] = ip[k]
AddrInv == /\ \A k \in Keys : row[k] # "absent" => ip[k] # NoIp
           /\ Sound(live) /\ Sound(saved) /\ \A c \in Calls : Sound(snap[c])

(* How far a handler that has its key to itself has got. *)
Progress(c) ==
    Busy(c) /\ call[c].solo =>
        LET k == call[c].key IN
        /\ call[c].pc \in {"create_set", "create_save", "create_rename",
                           "enable_set", "enable_save", "enable_rename"} => row[k] = "enabled"
        /\ call[c].pc \in {"create_save", "create_rename", "enable_save", "enable_rename"} =>
              live[k] # NotPeer
        /\ call[c].pc \in {"create_rename", "enable_rename"} => snap[c][k] # NotPeer
        /\ call[c].pc \in {"enable_reget", "enable_row"} => row[k] # "absent"
        /\ call[c].pc \in {"delete_remove", "delete_save", "delete_rename",
                           "disable_remove", "disable_save", "disable_rename"} =>
              row[k] # "enabled"
        /\ call[c].pc \in {"delete_save", "delete_rename", "disable_save", "disable_rename"} =>
              live[k] = NotPeer
        /\ call[c].pc \in {"delete_rename", "disable_rename"} => snap[c][k] = NotPeer
ProgressInv == \A c \in Calls : Progress(c)

(* The interface, the file and every reading that may yet become the file. *)
OnInAll(k)  == /\ live[k] # NotPeer /\ saved[k] # NotPeer
               /\ \A c \in Calls : Saving(c) => snap[c][k] # NotPeer
OffInAll(k) == /\ live[k] = NotPeer /\ saved[k] = NotPeer
               /\ \A c \in Calls : Saving(c) => snap[c][k] = NotPeer

(* What was acknowledged, and that only requests to the same effect are    *)
(* under way for it.                                                       *)
AckInv ==
    /\ known \cup settled \cup revoked \subseteq {k \in Keys : ip[k] # NoIp}
    /\ \A k \in revoked : row[k] # "enabled" /\ (k \notin stale => OffInAll(k))
    /\ \A k \in settled : /\ row[k] = "enabled" /\ (k \notin stale => OnInAll(k))
                          /\ agent = "up" => live[k] # NotPeer
    /\ \A c \in Calls : Busy(c) =>
         /\ call[c].key \in revoked => call[c].op \in {"delete", "disable"}
         /\ call[c].key \in settled => call[c].op = "enable"

(* The startup pass works off the enabled peers, which nobody changes      *)
(* meanwhile; those it is done with are on the interface.                  *)
BootInv ==
    /\ agent # "applying" => boot = {}
    /\ agent = "applying" =>
         /\ boot \subseteq Enabled
         /\ \A k \in Enabled \ boot :
              /\ live[k] # NotPeer
              /\ (\A p \in Enabled \ {k} : ip[p] # ip[k]) => live[k] = ip[k]

IInv == TypeOK /\ CallInv /\ AddrInv /\ ProgressInv /\ AckInv /\ BootInv

-----------------------------------------------------------------------------
(* The interface. *)

(* A step for key k leaves the other keys' rows as they are, and the other *)
(* peers on or off the interface.                                          *)
OthersKept(k) == \A p \in Keys \ {k} : /\ row'[p] = row[p]
                                       /\ (live'[p] = NotPeer) <=> (live[p] = NotPeer)

(* Giving a peer its address takes no address from a peer that has one of  *)
(* its own, and nobody off the interface.                                  *)
LEMMA SetPeer ==
    ASSUME TypeOK, Sound(live), NEW k \in Keys, ip[k] # NoIp, UNCHANGED ip,
           live' = AddOrUpdatePeer(k, ip[k])
    PROVE  /\ live' \in [Keys -> Addresses] /\ Sound(live)'
           /\ live'[k] # NotPeer /\ live'[k] = ip[k]
           /\ \A p \in Keys \ {k} : /\ (live'[p] = NotPeer) <=> (live[p] = NotPeer)
                                    /\ live[p] = ip[p] /\ ip[p] # ip[k] => live'[p] = ip[p]
PROOF
<1>1. \A p \in Keys : live'[p] = IF p = k THEN ip[k] ELSE IF live[p] = ip[k] THEN NoIp ELSE live[p]
  BY DEF AddOrUpdatePeer
<1>2. /\ live' \in [Keys -> Addresses]
      /\ live'[k] # NotPeer /\ live'[k] = ip[k]
      /\ \A p \in Keys \ {k} : /\ (live'[p] = NotPeer) <=> (live[p] = NotPeer)
                               /\ live[p] = ip[p] /\ ip[p] # ip[k] => live'[p] = ip[p]
  BY <1>1, IpAssumption DEF TypeOK, AddOrUpdatePeer, Addresses
<1>3. Sound(live)'
  BY <1>1, <1>2 DEF Sound, Uncontested
<1> QED BY <1>2, <1>3

LEMMA DropPeer ==
    ASSUME TypeOK, Sound(live), NEW k \in Keys, UNCHANGED ip, live' = RemovePeer(k)
    PROVE  /\ live' \in [Keys -> Addresses] /\ Sound(live)' /\ live'[k] = NotPeer
           /\ \A p \in Keys \ {k} : (live'[p] = NotPeer) <=> (live[p] = NotPeer)
  BY IpAssumption DEF TypeOK, RemovePeer, Sound, Uncontested, Addresses

-----------------------------------------------------------------------------
(* Handlers. *)

Labels == Steps \cup Ends
CallRecords == [op : {"none", "create", "delete", "disable", "enable"},
                key : Keys \cup {NoKey}, pc : Labels, solo : BOOLEAN]

LEMMA StepLabels == \A op : StepsOf(op) \subseteq Steps
  BY DEF StepsOf, Steps, Renames, CreateSteps, DeleteSteps, DisableSteps, EnableSteps

LEMMA GotoFacts ==
    ASSUME TypeOK, NEW c \in Calls, NEW s \in Labels, Goto(c, s)
    PROVE  /\ call' \in [Calls -> CallRecords]
           /\ \A d \in Calls : /\ call'[d].op = call[d].op /\ call'[d].key = call[d].key
                               /\ call'[d].solo = call[d].solo
                               /\ call'[d].pc = IF d = c THEN s ELSE call[d].pc
  BY DEF TypeOK, Goto, Labels, CallRecords

(* A disable or delete never brings its peer back, an enable never loses it. *)
Towards(c) ==
    LET k == call[c].key IN
    /\ call[c].op \in {"delete", "disable"} =>
         /\ row'[k] = "enabled" => row[k] = "enabled"
         /\ live[k] = NotPeer => live'[k] = NotPeer
    /\ call[c].op = "enable" =>
         /\ row[k] = "enabled" => row'[k] = "enabled"
         /\ live[k] # NotPeer => live'[k] # NotPeer

(* A step of a handler that only touches its own key keeps IInv if it      *)
(* makes progress towards its own end; a save that starts has read the     *)
(* interface as it is.                                                     *)
LEMMA HandlerStep ==
    ASSUME IInv, NEW c \in Calls, Busy(c), NEW s \in StepsOf(call[c].op) \cup Ends, Goto(c, s),
           row' \in [Keys -> Rows], live' \in [Keys -> Addresses], faults' \in 0 .. MaxFaults,
           snap' \in [Calls -> [Keys -> Addresses]], \A d \in Calls \ {c} : snap'[d] = snap[d],
           UNCHANGED <<ip, saved, agent, boot, known, settled, revoked, stale>>,
           Sound(live)', Sound(snap[c])', s \in Renames => snap'[c] = live /\ live' = live,
           OthersKept(call[c].key), Towards(c), Progress(c)'
    PROVE  IInv'
PROOF
<1> USE DEF IInv
<1>1. s \in Labels
  BY StepLabels DEF Labels
<1>2. /\ call' \in [Calls -> CallRecords]
      /\ \A d \in Calls : /\ call'[d].op = call[d].op /\ call'[d].key = call[d].key
                          /\ call'[d].solo = call[d].solo
                          /\ call'[d].pc = IF d = c THEN s ELSE call[d].pc
  BY <1>1, GotoFacts
<1>3. \A d \in Calls : Busy(d)' => Busy(d)
  BY <1>2 DEF Busy
<1>4. TypeOK'
  BY <1>2 DEF TypeOK, Labels, CallRecords
<1>5. CallInv'
  <2>1. \A d \in Calls : Busy(d)' => call'[d].pc \in StepsOf(call'[d].op)
    <3> SUFFICES ASSUME NEW d \in Calls, Busy(d)'
                 PROVE  call'[d].pc \in StepsOf(call'[d].op)
      OBVIOUS
    <3>1. CASE d = c
      BY <1>2, <3>1 DEF Busy, Steps, Renames, Ends
    <3>2. CASE d # c
      BY <1>2, <1>3, <3>2 DEF CallInv
    <3> QED BY <3>1, <3>2
  <2> QED BY <1>2, <1>3, <2>1 DEF CallInv
<1>6. ProgressInv'
  <2> SUFFICES ASSUME NEW d \in Calls, d # c, Busy(d), call[d].solo
               PROVE  Progress(d)'
    BY <1>2, <1>3 DEF ProgressInv, Progress
  <2>1. call[d].key # call[c].key /\ call[d].key \in Keys
    BY DEF CallInv
  <2>2. Progress(d)
    BY DEF ProgressInv
  <2> QED BY <1>2, <2>1, <2>2 DEF Progress, OthersKept
<1>7. AddrInv'
  <2>1. Sound(saved)' /\ \A d \in Calls \ {c} : Sound(snap[d])'
    BY DEF AddrInv, Sound, Uncontested
  <2>2. \A p \in Keys : row'[p] # "absent" => ip'[p] # NoIp
    BY DEF AddrInv, CallInv, OthersKept
  <2> QED BY <2>1, <2>2 DEF AddrInv
<1>8. AckInv'
  <2> DEFINE k == call[c].key
  <2>1. k \in revoked => call[c].op \in {"delete", "disable"}
    BY DEF AckInv
  <2>2. k \in settled => call[c].op = "enable"
    BY DEF AckInv
  <2>3. \A p \in revoked : /\ row'[p] # "enabled"
                           /\ live[p] = NotPeer => live'[p] = NotPeer
    BY <2>1 DEF AckInv, OthersKept, Towards
  <2>4. \A p \in settled : /\ row'[p] = "enabled"
                           /\ live[p] # NotPeer => live'[p] # NotPeer
    <3> SUFFICES ASSUME NEW p \in settled
                 PROVE  row'[p] = "enabled" /\ (live[p] # NotPeer => live'[p] # NotPeer)
      OBVIOUS
    <3>1. p \in Keys /\ row[p] = "enabled"
      BY DEF AckInv
    <3>2. CASE p = k
      BY <1>2, <2>2, <3>1, <3>2 DEF Towards
    <3>3. CASE p # k
      BY <3>1, <3>3 DEF OthersKept
    <3> QED BY <3>2, <3>3
  <2>5. \A d \in Calls : Saving(d)' => IF d = c THEN snap'[c] = live ELSE Saving(d) /\ snap'[d] = snap[d]
    BY <1>2 DEF Saving
  <2>6. \A p \in revoked : OffInAll(p) => OffInAll(p)'
    BY <2>3, <2>5 DEF OffInAll
  <2>7. \A p \in settled : OnInAll(p) => OnInAll(p)'
    BY <2>4, <2>5 DEF OnInAll
  <2>8. \A d \in Calls : Busy(d)' =>
            /\ call'[d].key \in revoked => call'[d].op \in {"delete", "disable"}
            /\ call'[d].key \in settled => call'[d].op = "enable"
    BY <1>2, <1>3 DEF AckInv
  <2> QED BY <2>3, <2>4, <2>6, <2>7, <2>8 DEF AckInv
<1>9. BootInv'
  <2>1. agent = "up"
    BY DEF CallInv
  <2> QED BY <2>1 DEF BootInv
<1> QED BY <1>4, <1>5, <1>6, <1>7, <1>8, <1>9

(* The step a handler is at tells its operation, and its key is a peer's.  *)
LEMMA BusyFacts ==
    ASSUME IInv, NEW c \in Calls, Busy(c)
    PROVE  /\ call[c].key \in Keys /\ ip[call[c].key] # NoIp /\ agent = "up"
           /\ call[c].pc \in CreateSteps  => call[c].op = "create"
           /\ call[c].pc \in DeleteSteps  => call[c].op = "delete"
           /\ call[c].pc \in DisableSteps => call[c].op = "disable"
           /\ call[c].pc \in EnableSteps  => call[c].op = "enable"
  BY DEF IInv, CallInv, StepsOf, CreateSteps, DeleteSteps, DisableSteps, EnableSteps

(* Steps that write or read the table. *)
LEMMA RowSteps ==
    ASSUME IInv, NEW c \in Calls,
           \/ AddPeerUpsert(c) \/ RemovePeerRow(c) \/ DisablePeerRow(c) \/ EnablePeerRow(c)
           \/ DisablePeerGet(c) \/ EnablePeerGet(c) \/ EnablePeerReget(c)
    PROVE  IInv'
PROOF
<1> DEFINE k == call[c].key
<1>1. Busy(c)
  BY DEF AddPeerUpsert, RemovePeerRow, DisablePeerRow, EnablePeerRow, DisablePeerGet,
         EnablePeerGet, EnablePeerReget, WriteRow, ReadRow, At, Busy, Steps
<1>2. k \in Keys /\ ip[k] # NoIp
  BY <1>1, BusyFacts
<1>3. row \in [Keys -> Rows] /\ live \in [Keys -> Addresses] /\ faults \in 0 .. MaxFaults
  BY DEF IInv, TypeOK
<1>4. /\ UNCHANGED <<live, ip, saved, snap, agent, boot, known, faults, settled, revoked, stale>>
      /\ row' \in [Keys -> Rows] /\ \A p \in Keys \ {k} : row'[p] = row[p]
  BY <1>3 DEF AddPeerUpsert, RemovePeerRow, DisablePeerRow, EnablePeerRow, DisablePeerGet,
         EnablePeerGet, EnablePeerReget, WriteRow, ReadRow, SetEnabled, Rows
<1>5. OthersKept(k) /\ Sound(live)' /\ Sound(snap[c])' /\ snap' \in [Calls -> [Keys -> Addresses]]
  BY <1>4 DEF OthersKept, IInv, TypeOK, AddrInv, Sound, Uncontested
<1>6. ASSUME NEW s \in StepsOf(call[c].op) \cup Ends, Goto(c, s),
             call[c].op \in {"delete", "disable"} => (row'[k] = "enabled" => row[k] = "enabled"),
             call[c].op = "enable" => (row[k] = "enabled" => row'[k] = "enabled"),
             s \in {"create_set", "enable_set"} => (call[c].solo => row'[k] = "enabled"),
             s \in {"enable_reget", "enable_row"} => row'[k] # "absent",
             s \in {"delete_remove", "disable_remove"} => row'[k] # "enabled",
             s \notin {"create_save", "enable_save", "delete_save", "disable_save"} \cup Renames
      PROVE  IInv'
  <2>1. s \in Labels
    BY StepLabels DEF Labels
  <2>2. call'[c].key = k /\ call'[c].solo = call[c].solo /\ call'[c].pc = s
    BY <1>6, <2>1, GotoFacts DEF IInv
  <2>3. Towards(c)
    BY <1>2, <1>4, <1>6, <2>2 DEF Towards
  <2>4. Progress(c)'
    BY <1>6, <2>2 DEF Progress, Renames
  <2> QED BY <1>1, <1>3, <1>4, <1>5, <1>6, <2>3, <2>4, HandlerStep
<1>7. CASE AddPeerUpsert(c)
  <2>1. call[c].op = "create"
    BY <1>1, <1>7, BusyFacts DEF AddPeerUpsert, WriteRow, At, CreateSteps
  <2>2. row'[k] = "enabled" /\ Goto(c, "create_set")
    BY <1>2, <1>3, <1>7 DEF AddPeerUpsert, WriteRow
  <2> QED BY <1>6, <2>1, <2>2 DEF StepsOf, CreateSteps, Renames
<1>8. CASE RemovePeerRow(c)
  <2>1. call[c].op = "delete"
    BY <1>1, <1>8, BusyFacts DEF RemovePeerRow, WriteRow, At, DeleteSteps
  <2>2. row'[k] = "absent" /\ Goto(c, "delete_remove")
    BY <1>2, <1>3, <1>8 DEF RemovePeerRow, WriteRow
  <2> QED BY <1>6, <2>1, <2>2 DEF StepsOf, DeleteSteps, Renames
<1>9. CASE DisablePeerRow(c)
  <2>1. call[c].op = "disable"
    BY <1>1, <1>9, BusyFacts DEF DisablePeerRow, WriteRow, At, DisableSteps
  <2>2. row'[k] # "enabled" /\ Goto(c, "disable_remove")
    BY <1>2, <1>3, <1>9 DEF DisablePeerRow, WriteRow, SetEnabled
  <2> QED BY <1>6, <2>1, <2>2 DEF StepsOf, DisableSteps, Renames
<1>10. CASE EnablePeerRow(c)
  <2>1. call[c].op = "enable"
    BY <1>1, <1>10, BusyFacts DEF EnablePeerRow, WriteRow, At, EnableSteps
  <2>2. call[c].solo => row[k] # "absent"
    BY <1>1, <1>10 DEF IInv, ProgressInv, Progress, EnablePeerRow, WriteRow, At
  <2>3. /\ Goto(c, "enable_set")
        /\ row[k] # "absent" => row'[k] = "enabled"
        /\ row[k] = "enabled" => row'[k] = "enabled"
    BY <1>2, <1>3, <1>10 DEF EnablePeerRow, WriteRow, SetEnabled
  <2> QED BY <1>6, <2>1, <2>2, <2>3 DEF StepsOf, EnableSteps, Renames
<1>11. CASE DisablePeerGet(c)
  <2>1. call[c].op = "disable"
    BY <1>1, <1>11, BusyFacts DEF DisablePeerGet, ReadRow, At, DisableSteps
  <2>2. row' = row /\ (Goto(c, "disable_row") \/ Goto(c, "not_found"))
    BY <1>11 DEF DisablePeerGet, ReadRow
  <2> QED BY <1>6, <2>1, <2>2 DEF StepsOf, DisableSteps, Ends, Renames
<1>12. CASE EnablePeerGet(c)
  <2>1. call[c].op = "enable"
    BY <1>1, <1>12, BusyFacts DEF EnablePeerGet, ReadRow, At, EnableSteps
  <2>2. row' = row /\ ((row[k] # "absent" /\ Goto(c, "enable_reget")) \/ Goto(c, "not_found"))
    BY <1>12 DEF EnablePeerGet, ReadRow
  <2> QED BY <1>6, <2>1, <2>2 DEF StepsOf, EnableSteps, Ends, Renames
<1>13. CASE EnablePeerReget(c)
  <2>1. call[c].op = "enable"
    BY <1>1, <1>13, BusyFacts DEF EnablePeerReget, ReadRow, At, EnableSteps
  <2>2. row' = row /\ ((row[k] # "absent" /\ Goto(c, "enable_row")) \/ Goto(c, "ok"))
    BY <1>13 DEF EnablePeerReget, ReadRow
  <2> QED BY <1>6, <2>1, <2>2 DEF StepsOf, EnableSteps, Ends, Renames
<1> QED BY <1>7, <1>8, <1>9, <1>10, <1>11, <1>12, <1>13

(* Steps that change or read the interface, and commands that fail. *)
LEMMA WgSteps ==
    ASSUME IInv, NEW c \in Calls,
           \/ AddPeerSet(c) \/ RemovePeerLive(c) \/ DisablePeerLive(c) \/ EnablePeerSet(c)
           \/ AddPeerSave(c) \/ RemovePeerSave(c) \/ DisablePeerSave(c) \/ EnablePeerSave(c)
           \/ CommandFails(c)
    PROVE  IInv'
PROOF
<1>1. Busy(c)
  BY DEF AddPeerSet, RemovePeerLive, DisablePeerLive, EnablePeerSet, AddPeerSave, RemovePeerSave,
         DisablePeerSave, EnablePeerSave, CommandFails, WgSet, Save, At, Busy, Steps
<1>2. PICK k \in Keys : k = call[c].key /\ ip[k] # NoIp
  BY <1>1, BusyFacts
<1>3. /\ row \in [Keys -> Rows] /\ live \in [Keys -> Addresses] /\ faults \in 0 .. MaxFaults
      /\ snap \in [Calls -> [Keys -> Addresses]] /\ Sound(live) /\ Sound(snap[c])
  BY DEF IInv, TypeOK, AddrInv
<1>4. /\ UNCHANGED <<row, ip, saved, agent, boot, known, settled, revoked, stale>>
      /\ faults' \in 0 .. MaxFaults
  BY <1>3, FaultsAssumption
     DEF AddPeerSet, RemovePeerLive, DisablePeerLive, EnablePeerSet, AddPeerSave, RemovePeerSave,
         DisablePeerSave, EnablePeerSave, CommandFails, WgSet, Save
<1>5. CASE AddPeerSet(c) \/ EnablePeerSet(c)
  <2>1. live' = AddOrUpdatePeer(k, ip[k]) /\ snap' = snap
    BY <1>2, <1>5 DEF AddPeerSet, EnablePeerSet, WgSet
  <2>2. live' \in [Keys -> Addresses] /\ Sound(live)' /\ live'[k] # NotPeer /\ OthersKept(k)
    BY <1>2, <1>3, <1>4, <2>1, SetPeer DEF IInv, OthersKept
  <2>3. PICK s \in StepsOf(call[c].op) :
          /\ Goto(c, s) /\ s \in {"create_save", "enable_save"}
          /\ call[c].pc \in {"create_set", "enable_set"}
          /\ call[c].op \in {"create", "enable"}
    <3>1. CASE AddPeerSet(c)
      BY <1>1, <3>1, BusyFacts DEF AddPeerSet, WgSet, At, StepsOf, CreateSteps
    <3>2. CASE EnablePeerSet(c)
      BY <1>1, <3>2, BusyFacts DEF EnablePeerSet, WgSet, At, StepsOf, EnableSteps
    <3> QED BY <1>5, <3>1, <3>2
  <2>4. call'[c].key = k /\ call'[c].solo = call[c].solo /\ call'[c].pc = s
    BY <1>2, <2>3, GotoFacts, StepLabels DEF IInv, Labels
  <2>5. call[c].solo => row[k] = "enabled"
    BY <1>1, <1>2, <2>3 DEF IInv, ProgressInv, Progress
  <2>6. Towards(c)
    BY <1>2, <1>4, <2>2, <2>3, <2>4 DEF Towards
  <2>7. Progress(c)'
    BY <1>2, <1>4, <2>2, <2>3, <2>4, <2>5 DEF Progress
  <2>8. s \notin Renames /\ Sound(snap[c])'
    BY <1>3, <1>4, <2>1, <2>3 DEF Renames, Sound, Uncontested
  <2> QED BY <1>1, <1>2, <1>3, <1>4, <2>1, <2>2, <2>3, <2>6, <2>7, <2>8, HandlerStep
<1>6. CASE RemovePeerLive(c) \/ DisablePeerLive(c)
  <2>1. live' = RemovePeer(k) /\ snap' = snap
    BY <1>2, <1>6 DEF RemovePeerLive, DisablePeerLive, WgSet
  <2>2. live' \in [Keys -> Addresses] /\ Sound(live)' /\ live'[k] = NotPeer /\ OthersKept(k)
    BY <1>2, <1>3, <1>4, <2>1, DropPeer DEF IInv, OthersKept
  <2>3. PICK s \in StepsOf(call[c].op) :
          /\ Goto(c, s) /\ s \in {"delete_save", "disable_save"}
          /\ call[c].pc \in {"delete_remove", "disable_remove"}
          /\ call[c].op \in {"delete", "disable"}
    <3>1. CASE RemovePeerLive(c)
      BY <1>1, <3>1, BusyFacts DEF RemovePeerLive, WgSet, At, StepsOf, DeleteSteps
    <3>2. CASE DisablePeerLive(c)
      BY <1>1, <3>2, BusyFacts DEF DisablePeerLive, WgSet, At, StepsOf, DisableSteps
    <3> QED BY <1>6, <3>1, <3>2
  <2>4. call'[c].key = k /\ call'[c].solo = call[c].solo /\ call'[c].pc = s
    BY <1>2, <2>3, GotoFacts, StepLabels DEF IInv, Labels
  <2>5. call[c].solo => row[k] # "enabled"
    BY <1>1, <1>2, <2>3 DEF IInv, ProgressInv, Progress
  <2>6. Towards(c)
    BY <1>2, <1>4, <2>2, <2>3 DEF Towards
  <2>7. Progress(c)'
    BY <1>2, <1>4, <2>2, <2>3, <2>4, <2>5 DEF Progress
  <2>8. s \notin Renames /\ Sound(snap[c])'
    BY <1>3, <1>4, <2>1, <2>3 DEF Renames, Sound, Uncontested
  <2> QED BY <1>1, <1>2, <1>3, <1>4, <2>1, <2>2, <2>3, <2>6, <2>7, <2>8, HandlerStep
<1>7. CASE AddPeerSave(c) \/ RemovePeerSave(c) \/ DisablePeerSave(c) \/ EnablePeerSave(c)
  <2>1. snap' = [snap EXCEPT ![c] = live] /\ UNCHANGED live /\ UNCHANGED faults
    BY <1>7 DEF AddPeerSave, RemovePeerSave, DisablePeerSave, EnablePeerSave, Save
  <2>2. OthersKept(k) /\ Sound(live)'
    BY <1>3, <1>4, <2>1 DEF OthersKept, Sound, Uncontested
  <2>3. /\ snap' \in [Calls -> [Keys -> Addresses]] /\ snap'[c] = live
        /\ \A d \in Calls \ {c} : snap'[d] = snap[d]
    BY <1>3, <2>1
  <2>4. Sound(snap[c])'
    BY <2>1, <2>2, <2>3 DEF Sound, Uncontested
  <2>5. PICK s \in StepsOf(call[c].op) :
          /\ Goto(c, s)
          /\ \/ call[c].pc = "create_save"  /\ s = "create_rename"
             \/ call[c].pc = "delete_save"  /\ s = "delete_rename"
             \/ call[c].pc = "disable_save" /\ s = "disable_rename"
             \/ call[c].pc = "enable_save"  /\ s = "enable_rename"
    <3>1. CASE AddPeerSave(c)
      BY <1>1, <3>1, BusyFacts DEF AddPeerSave, Save, At, StepsOf, CreateSteps
    <3>2. CASE RemovePeerSave(c)
      BY <1>1, <3>2, BusyFacts DEF RemovePeerSave, Save, At, StepsOf, DeleteSteps
    <3>3. CASE DisablePeerSave(c)
      BY <1>1, <3>3, BusyFacts DEF DisablePeerSave, Save, At, StepsOf, DisableSteps
    <3>4. CASE EnablePeerSave(c)
      BY <1>1, <3>4, BusyFacts DEF EnablePeerSave, Save, At, StepsOf, EnableSteps
    <3> QED BY <1>7, <3>1, <3>2, <3>3, <3>4
  <2>6. call'[c].key = k /\ call'[c].solo = call[c].solo /\ call'[c].pc = s
    BY <1>2, <2>5, GotoFacts, StepLabels DEF IInv, Labels
  <2>7. Towards(c)
    BY <1>2, <1>4, <2>1 DEF Towards
  <2>8. Progress(c)
    BY DEF IInv, ProgressInv
  <2>9. Progress(c)'
    BY <1>1, <1>2, <1>4, <2>1, <2>3, <2>5, <2>6, <2>8 DEF Progress
  <2> QED BY <1>1, <1>2, <1>3, <1>4, <2>1, <2>2, <2>3, <2>4, <2>5, <2>7, <2>9, HandlerStep
<1>8. CASE CommandFails(c)
  <2>1. Goto(c, "error") /\ UNCHANGED live /\ snap' = [snap EXCEPT ![c] = NoSnap]
    BY <1>8 DEF CommandFails
  <2>2. OthersKept(k) /\ Sound(live)'
    BY <1>3, <1>4, <2>1 DEF OthersKept, Sound, Uncontested
  <2>3. /\ snap' \in [Calls -> [Keys -> Addresses]] /\ snap'[c] = NoSnap
        /\ \A d \in Calls \ {c} : snap'[d] = snap[d]
    BY <1>3, <2>1 DEF NoSnap, Addresses
  <2>4. Sound(snap[c])'
    BY <2>3 DEF Sound, NoSnap
  <2>5. call'[c].key = k /\ call'[c].pc = "error"
    BY <1>2, <2>1, GotoFacts DEF IInv, Labels, Ends
  <2>6. Towards(c)
    BY <1>2, <1>4, <2>1 DEF Towards
  <2>7. Progress(c)'
    BY <2>5 DEF Progress, Busy, Steps, Renames
  <2>8. "error" \in Ends \ Renames
    BY DEF Ends, Renames
  <2> QED BY <1>1, <1>2, <1>3, <1>4, <2>1, <2>2, <2>3, <2>4, <2>6, <2>7, <2>8, HandlerStep
<1> QED BY <1>5, <1>6, <1>7, <1>8

(* `wg-quick save` renames its file, and the answer: what it has read is   *)
(* now what a reboot brings back, and a request nobody overlapped is       *)
(* acknowledged.                                                           *)
LEMMA RenameStep ==
    ASSUME IInv, NEW c \in Calls, NEW step \in Renames, Rename(c, step)
    PROVE  IInv'
PROOF
<1> USE DEF IInv
<1>1. PICK k \in Keys : /\ k = call[c].key /\ ip[k] # NoIp /\ Busy(c) /\ Saving(c)
                        /\ call[c].pc = step /\ agent = "up"
  BY BusyFacts DEF Rename, At, Busy, Saving, Steps
<1>2. /\ saved' = snap[c] /\ Goto(c, "ok") /\ known' = known \cup {k}
      /\ snap' = [snap EXCEPT ![c] = NoSnap]
      /\ settled' \in {settled, settled \cup {k}} /\ revoked' \in {revoked, revoked \cup {k}}
      /\ stale' \in {stale, stale \cup {k}, stale \ {k}}
      /\ UNCHANGED <<row, ip, live, agent, boot, faults>>
  BY <1>1 DEF Rename
<1>3. /\ call' \in [Calls -> CallRecords]
      /\ \A d \in Calls : /\ call'[d].op = call[d].op /\ call'[d].key = call[d].key
                          /\ call'[d].solo = call[d].solo
                          /\ call'[d].pc = IF d = c THEN "ok" ELSE call[d].pc
  BY <1>2, GotoFacts DEF Labels, Ends
<1>4. \A d \in Calls : /\ Busy(d)' => d # c /\ Busy(d)
                       /\ Saving(d)' => d # c /\ Saving(d)
  BY <1>3 DEF Busy, Saving, Steps, Renames
<1>5. /\ snap' \in [Calls -> [Keys -> Addresses]]
      /\ snap'[c] = NoSnap /\ \A d \in Calls \ {c} : snap'[d] = snap[d]
  BY <1>2 DEF TypeOK, NoSnap, Addresses
<1>6. TypeOK'
  BY <1>2, <1>3, <1>5 DEF TypeOK, Labels, CallRecords
<1>7. CallInv'
  BY <1>2, <1>3, <1>4 DEF CallInv
<1>8. AddrInv'
  <2>1. Sound(live)' /\ Sound(saved)'
    BY <1>2 DEF AddrInv, Sound, Uncontested
  <2>2. \A d \in Calls : Sound(snap[d])'
    BY <1>2, <1>5 DEF AddrInv, Sound, Uncontested, NoSnap
  <2> QED BY <1>2, <2>1, <2>2 DEF AddrInv
<1>9. ProgressInv'
  <2> SUFFICES ASSUME NEW d \in Calls, Busy(d), d # c, call[d].solo PROVE Progress(d)'
    BY <1>3, <1>4 DEF ProgressInv, Progress
  <2>1. call[d].key \in Keys /\ Progress(d)
    BY DEF CallInv, ProgressInv
  <2> QED BY <1>2, <1>3, <1>5, <2>1 DEF Progress
<1>10. /\ step \in {"create_rename", "enable_rename"} <=> call[c].op \in {"create", "enable"}
       /\ step \in {"delete_rename", "disable_rename"} <=> call[c].op \in {"delete", "disable"}
  BY <1>1, BusyFacts DEF Renames, CreateSteps, EnableSteps, DeleteSteps, DisableSteps
<1>11. /\ settled' # settled => call[c].solo /\ call[c].op \in {"create", "enable"}
       /\ revoked' # revoked => call[c].solo /\ call[c].op \in {"delete", "disable"}
       /\ call[c].solo /\ k \notin stale' => ~Overtaken(c)
       /\ ~call[c].solo => stale' = stale
  BY <1>1, <1>2 DEF Rename, TypeOK
<1>12. /\ call[c].solo /\ call[c].op \in {"create", "enable"} =>
            row[k] = "enabled" /\ live[k] # NotPeer /\ snap[c][k] # NotPeer
       /\ call[c].solo /\ call[c].op \in {"delete", "disable"} =>
            row[k] # "enabled" /\ live[k] = NotPeer /\ snap[c][k] = NotPeer
  BY <1>1, <1>10 DEF ProgressInv, Progress
<1>13. /\ \A p \in Keys : OffInAll(p) => OffInAll(p)'
       /\ \A p \in Keys : OnInAll(p) => OnInAll(p)'
  BY <1>1, <1>2, <1>4, <1>5 DEF OffInAll, OnInAll
<1>14. call[c].solo /\ k \notin stale' =>
         /\ call[c].op \in {"delete", "disable"} => OffInAll(k)'
         /\ call[c].op \in {"create", "enable"} => OnInAll(k)'
  <2> SUFFICES ASSUME call[c].solo, ~Overtaken(c)
               PROVE  /\ call[c].op \in {"delete", "disable"} => OffInAll(k)'
                      /\ call[c].op \in {"create", "enable"} => OnInAll(k)'
    BY <1>11
  <2>1. \A d \in Calls \ {c} : Saving(d) => ((snap[d][k] = NotPeer) <=> (snap[c][k] = NotPeer))
    BY <1>1 DEF Overtaken
  <2> QED BY <1>2, <1>4, <1>5, <1>12, <2>1 DEF OffInAll, OnInAll
<1>15. AckInv'
  <2>1. ASSUME NEW p \in revoked'
        PROVE  row'[p] # "enabled" /\ (p \notin stale' => OffInAll(p)')
    <3>1. CASE p # k
      BY <1>2, <1>13, <2>1, <3>1 DEF AckInv
    <3>2. CASE p = k /\ ~call[c].solo
      BY <1>1, <1>2, <1>11, <1>13, <2>1, <3>2 DEF AckInv
    <3>3. CASE p = k /\ call[c].solo
      <4>1. call[c].op \in {"delete", "disable"}
        BY <1>1, <1>11, <2>1, <3>3 DEF AckInv
      <4> QED BY <1>2, <1>12, <1>14, <3>3, <4>1
    <3> QED BY <3>1, <3>2, <3>3
  <2>2. ASSUME NEW p \in settled'
        PROVE  /\ row'[p] = "enabled" /\ (p \notin stale' => OnInAll(p)')
               /\ agent' = "up" => live'[p] # NotPeer
    <3>1. CASE p # k
      BY <1>2, <1>13, <2>2, <3>1 DEF AckInv
    <3>2. CASE p = k /\ ~call[c].solo
      BY <1>1, <1>2, <1>11, <1>13, <2>2, <3>2 DEF AckInv
    <3>3. CASE p = k /\ call[c].solo
      <4>1. call[c].op \in {"create", "enable"}
        BY <1>1, <1>11, <2>2, <3>3 DEF AckInv
      <4> QED BY <1>2, <1>12, <1>14, <3>3, <4>1
    <3> QED BY <3>1, <3>2, <3>3
  <2>4. ASSUME NEW d \in Calls, Busy(d)'
        PROVE  /\ call'[d].key \in revoked' => call'[d].op \in {"delete", "disable"}
               /\ call'[d].key \in settled' => call'[d].op = "enable"
    <3>1. d # c /\ Busy(d) /\ call'[d].key = call[d].key /\ call'[d].op = call[d].op
      BY <1>3, <1>4, <2>4
    <3>2. call[c].solo => call[d].key # k
      BY <1>1, <3>1 DEF CallInv
    <3> QED BY <1>2, <1>11, <3>1, <3>2 DEF AckInv
  <2>5. known' \cup settled' \cup revoked' \subseteq {p \in Keys : ip'[p] # NoIp}
    BY <1>1, <1>2 DEF AckInv
  <2> QED BY <2>1, <2>2, <2>4, <2>5 DEF AckInv
<1>16. BootInv'
  BY <1>1, <1>2 DEF BootInv
<1> QED BY <1>6, <1>7, <1>8, <1>9, <1>15, <1>16

LEMMA HandleStep ==
    ASSUME IInv, NEW c \in Calls, Handle(c)
    PROVE  IInv'
PROOF
<1>1. CASE \/ AddPeerUpsert(c) \/ RemovePeerRow(c) \/ DisablePeerRow(c) \/ EnablePeerRow(c)
           \/ DisablePeerGet(c) \/ EnablePeerGet(c) \/ EnablePeerReget(c)
  BY <1>1, RowSteps
<1>2. CASE \/ AddPeerSet(c) \/ RemovePeerLive(c) \/ DisablePeerLive(c) \/ EnablePeerSet(c)
           \/ AddPeerSave(c) \/ RemovePeerSave(c) \/ DisablePeerSave(c) \/ EnablePeerSave(c)
           \/ CommandFails(c)
  BY <1>2, WgSteps
<1>3. CASE AddPeerRename(c) \/ RemovePeerRename(c) \/ DisablePeerRename(c) \/ EnablePeerRename(c)
  BY <1>3, RenameStep DEF AddPeerRename, RemovePeerRename, DisablePeerRename, EnablePeerRename,
                          Renames
<1> QED BY <1>1, <1>2, <1>3 DEF Handle

-----------------------------------------------------------------------------
(* Requests. *)

LEMMA StartFacts ==
    ASSUME TypeOK, NEW c \in Calls, NEW op \in {"create", "delete", "disable", "enable"},
           NEW k \in Keys, Start(c, op, k)
    PROVE  /\ agent = "up" /\ ~Busy(c)
           /\ call' \in [Calls -> CallRecords]
           /\ call'[c].op = op /\ call'[c].key = k /\ call'[c].pc = FirstStep(op)
           /\ call'[c].solo <=> \A d \in Calls : Busy(d) => call[d].key # k
           /\ \A d \in Calls \ {c} :
                /\ call'[d].op = call[d].op /\ call'[d].key = call[d].key
                /\ call'[d].pc = call[d].pc
                /\ call'[d].solo <=> (call[d].solo /\ call[d].key # k)
PROOF
<1>1. FirstStep(op) \in Steps
  BY DEF FirstStep, Steps
<1>2. ~Busy(c)
  BY DEF Start, Busy, Steps, Renames
<1>3. /\ call'[c].op = op /\ call'[c].key = k /\ call'[c].pc = FirstStep(op)
      /\ call'[c].solo <=> \A d \in Calls : Busy(d) => call[d].key # k
      /\ call'[c] \in CallRecords
  <2> DEFINE alone == \A y \in Calls : Busy(y) => call[y].key # k
  <2>1. call'[c] = [op |-> op, key |-> k, pc |-> FirstStep(op), solo |-> alone]
    BY DEF Start
  <2>2. alone \in BOOLEAN
    OBVIOUS
  <2>3. call'[c].solo = alone
    BY <2>1
  <2> HIDE DEF alone
  <2>4. call'[c] \in CallRecords
    BY <1>1, <2>1, <2>2 DEF CallRecords, Labels
  <2>5. call'[c].op = op /\ call'[c].key = k /\ call'[c].pc = FirstStep(op)
    BY <2>1
  <2> QED BY <2>3, <2>4, <2>5 DEF alone
<1>4. ASSUME NEW d \in Calls \ {c}
      PROVE  /\ call'[d].op = call[d].op /\ call'[d].key = call[d].key
             /\ call'[d].pc = call[d].pc
             /\ call'[d].solo <=> (call[d].solo /\ call[d].key # k)
             /\ call'[d] \in CallRecords
  <2> DEFINE alone == call[d].solo /\ call[d].key # k
  <2>1. call'[d] = [call[d] EXCEPT !.solo = alone]
    BY DEF Start
  <2>2. alone \in BOOLEAN /\ call[d] \in CallRecords
    BY DEF TypeOK, CallRecords, Labels
  <2> HIDE DEF alone
  <2>3. call'[d].solo = alone /\ call'[d] \in CallRecords
    BY <2>1, <2>2 DEF CallRecords
  <2>4. /\ call'[d].op = call[d].op /\ call'[d].key = call[d].key /\ call'[d].pc = call[d].pc
    BY <2>1, <2>2 DEF CallRecords
  <2> QED BY <2>3, <2>4 DEF alone
<1>5. call' = [x \in Calls |-> call'[x]]
  BY DEF Start
<1>6. \A d \in Calls : call'[d] \in CallRecords
  BY <1>3, <1>4
<1>7. call' \in [Calls -> CallRecords]
  BY <1>5, <1>6
<1>8. agent = "up"
  BY DEF Start
<1> QED BY <1>2, <1>3, <1>4, <1>7, <1>8

(* Minting a key gives an address to a peer nobody has heard of, and takes *)
(* none from anybody.                                                      *)
LEMMA Minted ==
    ASSUME TypeOK, NEW k \in Keys, NEW a \in Ips, ip[k] = NoIp, ip' = [ip EXCEPT ![k] = a]
    PROVE  /\ ip' \in [Keys -> Ips \cup {NoIp}] /\ ip'[k] # NoIp
           /\ \A p \in Keys : ip[p] # NoIp => /\ ip'[p] = ip[p] /\ ip'[p] # NoIp
                                              /\ Uncontested(p)' => Uncontested(p)
  BY IpAssumption DEF TypeOK, Uncontested

(* A request keeps IInv: minting aside, it takes its key out of what the   *)
(* opposite request had acknowledged.                                      *)
LEMMA RequestStep ==
    ASSUME IInv, Request
    PROVE  IInv'
PROOF
<1> USE DEF IInv
<1>1. PICK c \in Calls, k \in Keys, op \in {"create", "delete", "disable", "enable"} :
        /\ Start(c, op, k)
        /\ ip' \in [Keys -> Ips \cup {NoIp}] /\ ip'[k] # NoIp
        /\ \A p \in Keys : ip[p] # NoIp => /\ ip'[p] = ip[p]
                                           /\ Uncontested(p)' => Uncontested(p)
        /\ op = "create" => ip[k] = NoIp /\ UNCHANGED <<settled, revoked>>
        /\ op \in {"delete", "disable"} => settled' = settled \ {k} /\ UNCHANGED revoked
        /\ op = "enable" => revoked' = revoked \ {k} /\ UNCHANGED settled
  <2>1. ASSUME NEW c \in Calls, NEW k \in Keys, NEW a \in Ips, CreatePeer(c, k, a)
        PROVE  /\ Start(c, "create", k) /\ ip[k] = NoIp /\ UNCHANGED <<settled, revoked>>
               /\ ip' \in [Keys -> Ips \cup {NoIp}] /\ ip'[k] # NoIp
               /\ \A p \in Keys : ip[p] # NoIp => /\ ip'[p] = ip[p]
                                                  /\ Uncontested(p)' => Uncontested(p)
    BY <2>1, Minted DEF CreatePeer, Start
  <2>2. ASSUME UNCHANGED ip
        PROVE  \A p \in Keys : Uncontested(p)' => Uncontested(p)
    BY <2>2 DEF Uncontested
  <2>3. \A k \in known : k \in Keys /\ ip[k] # NoIp
    BY DEF AckInv
  <2>4. ip \in [Keys -> Ips \cup {NoIp}]
    BY DEF TypeOK
  <2>5. CASE \E c \in Calls, k \in Keys, a \in Ips : CreatePeer(c, k, a)
    BY <2>1, <2>5
  <2>6. ASSUME NEW c \in Calls, NEW k \in Keys, DeletePeer(c, k)
        PROVE  /\ Start(c, "delete", k) /\ settled' = settled \ {k} /\ ip[k] # NoIp
               /\ UNCHANGED <<ip, revoked>>
    BY <2>3, <2>6 DEF DeletePeer, Start
  <2>7. ASSUME NEW c \in Calls, NEW k \in Keys, DisablePeer(c, k)
        PROVE  /\ Start(c, "disable", k) /\ settled' = settled \ {k} /\ ip[k] # NoIp
               /\ UNCHANGED <<ip, revoked>>
    BY <2>3, <2>7 DEF DisablePeer, Start
  <2>8. ASSUME NEW c \in Calls, NEW k \in Keys, EnablePeer(c, k)
        PROVE  /\ Start(c, "enable", k) /\ revoked' = revoked \ {k} /\ ip[k] # NoIp
               /\ UNCHANGED <<ip, settled>>
    BY <2>3, <2>8 DEF EnablePeer, Start
  <2>9. CASE \E c \in Calls, k \in Keys : DeletePeer(c, k)
    BY <2>2, <2>4, <2>6, <2>9
  <2>10. CASE \E c \in Calls, k \in Keys : DisablePeer(c, k)
    BY <2>2, <2>4, <2>7, <2>10
  <2>11. CASE \E c \in Calls, k \in Keys : EnablePeer(c, k)
    BY <2>2, <2>4, <2>8, <2>11
  <2> QED BY <2>5, <2>9, <2>10, <2>11 DEF Request
<1>2. /\ agent = "up" /\ ~Busy(c)
      /\ call' \in [Calls -> CallRecords]
      /\ call'[c].op = op /\ call'[c].key = k /\ call'[c].pc = FirstStep(op)
      /\ call'[c].solo <=> \A d \in Calls : Busy(d) => call[d].key # k
      /\ \A d \in Calls \ {c} :
           /\ call'[d].op = call[d].op /\ call'[d].key = call[d].key
           /\ call'[d].pc = call[d].pc
           /\ call'[d].solo <=> (call[d].solo /\ call[d].key # k)
  BY <1>1, StartFacts
<1>3. UNCHANGED <<row, live, saved, snap, agent, boot, known, faults, stale>>
  BY <1>1 DEF Start
<1>4. /\ \A d \in Calls \ {c} : Busy(d)' <=> Busy(d)
      /\ \A d \in Calls : Saving(d)' => d # c /\ Saving(d)
  BY <1>2 DEF Busy, Saving, FirstStep, Renames
<1>5. settled' \subseteq settled /\ revoked' \subseteq revoked
  BY <1>1
<1>6. TypeOK'
  BY <1>1, <1>2, <1>3, <1>5 DEF TypeOK, Labels, CallRecords
<1>7. CallInv'
  <2>1. FirstStep(op) \in StepsOf(op)
    BY DEF FirstStep, StepsOf, CreateSteps, DeleteSteps, DisableSteps, EnableSteps
  <2>2. \A d \in Calls : Busy(d)' => /\ call'[d].pc \in StepsOf(call'[d].op)
                                     /\ call'[d].key \in Keys
                                     /\ ip'[call'[d].key] # NoIp
                                     /\ agent' = "up"
    BY <1>1, <1>2, <1>3, <1>4, <2>1 DEF CallInv
  <2>3. ASSUME NEW d \in Calls, NEW e \in Calls, d # e, Busy(d)', Busy(e)', call'[d].solo
        PROVE  call'[e].key # call'[d].key
    <3>1. CASE d = c
      BY <1>2, <1>4, <2>3, <3>1
    <3>2. CASE e = c
      BY <1>2, <2>3, <3>2
    <3>3. CASE d # c /\ e # c
      BY <1>2, <1>4, <2>3, <3>3 DEF CallInv
    <3> QED BY <3>1, <3>2, <3>3
  <2> QED BY <2>2, <2>3 DEF CallInv
<1>8. ProgressInv'
  <2> SUFFICES ASSUME NEW d \in Calls, Busy(d)', call'[d].solo PROVE Progress(d)'
    BY DEF ProgressInv, Progress
  <2>1. CASE d = c
    BY <1>2, <2>1 DEF Progress, FirstStep
  <2>2. CASE d # c
    <3>1. /\ Busy(d) /\ Progress(d) /\ call[d].solo
          /\ call[d].key \in Keys /\ ip[call[d].key] # NoIp
      BY <1>2, <1>4, <2>2 DEF ProgressInv, CallInv
    <3> QED BY <1>1, <1>2, <1>3, <2>2, <3>1 DEF Progress
  <2> QED BY <2>1, <2>2
<1>9. AckInv'
  <2>1. \A p \in known \cup settled \cup revoked : p \in Keys /\ ip[p] # NoIp /\ ip'[p] # NoIp
    BY <1>1 DEF AckInv
  <2>2. known' \cup settled' \cup revoked' \subseteq {p \in Keys : ip'[p] # NoIp}
    BY <1>3, <1>5, <2>1
  <2>3. \A p \in revoked' : row'[p] # "enabled" /\ (p \notin stale' => OffInAll(p)')
    BY <1>3, <1>4, <1>5 DEF AckInv, OffInAll
  <2>4. \A p \in settled' : /\ row'[p] = "enabled" /\ (p \notin stale' => OnInAll(p)')
                            /\ agent' = "up" => live'[p] # NotPeer
    BY <1>3, <1>4, <1>5 DEF AckInv, OnInAll
  <2>5. ASSUME NEW d \in Calls, Busy(d)'
        PROVE  /\ call'[d].key \in revoked' => call'[d].op \in {"delete", "disable"}
               /\ call'[d].key \in settled' => call'[d].op = "enable"
    <3>1. CASE d = c
      BY <1>1, <1>2, <1>5, <2>1, <3>1
    <3>2. CASE d # c
      BY <1>2, <1>4, <1>5, <2>5, <3>2 DEF AckInv
    <3> QED BY <3>1, <3>2
  <2> QED BY <2>2, <2>3, <2>4, <2>5 DEF AckInv
<1>10. BootInv'
  BY <1>2, <1>3 DEF BootInv
<1>11. AddrInv'
  <2>1. ASSUME NEW conf \in [Keys -> Addresses], Sound(conf)
        PROVE  \A p \in Keys : conf[p] # NotPeer => /\ ip'[p] # NoIp
                                                    /\ Uncontested(p)' => conf[p] = ip'[p]
    BY <1>1, <2>1 DEF Sound
  <2>2. Sound(live)' /\ Sound(saved)'
    BY <1>3, <2>1 DEF AddrInv, TypeOK, Sound
  <2>3. \A d \in Calls : Sound(snap[d])'
    BY <1>3, <2>1 DEF AddrInv, TypeOK, Sound
  <2> QED BY <1>1, <1>3, <2>2, <2>3 DEF AddrInv
<1> QED BY <1>6, <1>7, <1>8, <1>9, <1>10, <1>11

-----------------------------------------------------------------------------
(* The startup pass, and failures.  None of them runs beside a handler.    *)

LEMMA NobodyBusy ==
    ASSUME IInv, agent # "up"
    PROVE  \A c \in Calls : ~Busy(c)
  BY DEF IInv, CallInv

(* A step after which no handler runs has only stores and the pass to keep. *)
LEMMA QuietStep ==
    ASSUME IInv, TypeOK', AddrInv', BootInv', \A c \in Calls : ~Busy(c)',
           UNCHANGED <<row, ip, known, settled, revoked, stale>>,
           \A k \in revoked \ stale : live'[k] = NotPeer /\ saved'[k] = NotPeer,
           \A k \in settled \ stale : live'[k] # NotPeer /\ saved'[k] # NotPeer,
           agent' = "up" => \A k \in settled : live'[k] # NotPeer
    PROVE  IInv'
PROOF
<1>1. CallInv' /\ ProgressInv'
  BY DEF CallInv, ProgressInv, Progress
<1>2. \A c \in Calls : ~Saving(c)'
  BY DEF Busy, Saving, Steps
<1>3. AckInv'
  BY <1>2 DEF IInv, AckInv, OnInAll, OffInAll
<1> QED BY <1>1, <1>3 DEF IInv

(* What the invariant says of the stores of the acknowledged peers. *)
LEMMA AckStores ==
    ASSUME IInv
    PROVE  /\ \A k \in revoked \ stale : live[k] = NotPeer /\ saved[k] = NotPeer
           /\ \A k \in settled \ stale : live[k] # NotPeer /\ saved[k] # NotPeer
           /\ \A k \in settled : k \in Enabled
           /\ \A k \in revoked : k \in Keys \ Enabled
  BY DEF IInv, AckInv, OnInAll, OffInAll, Enabled

LEMMA SameAddresses ==
    ASSUME AddrInv, UNCHANGED <<row, ip, live, saved, snap>>
    PROVE  AddrInv'
  BY DEF AddrInv, Sound, Uncontested

LEMMA ReapplyStep ==
    ASSUME IInv, NEW k \in Keys, Reapply(k)
    PROVE  IInv'
PROOF
<1> USE DEF IInv
<1>1. /\ agent = "applying" /\ k \in boot /\ boot' = boot \ {k} /\ live' = AddOrUpdatePeer(k, ip[k])
      /\ UNCHANGED <<row, ip, saved, snap, agent, call, known, faults, settled, revoked, stale>>
  BY DEF Reapply
<1>2. k \in Enabled /\ ip[k] # NoIp
  BY <1>1 DEF BootInv, AddrInv, Enabled
<1>3. /\ live' \in [Keys -> Addresses] /\ Sound(live)' /\ live'[k] # NotPeer /\ live'[k] = ip[k]
      /\ \A p \in Keys \ {k} : /\ (live'[p] = NotPeer) <=> (live[p] = NotPeer)
                               /\ live[p] = ip[p] /\ ip[p] # ip[k] => live'[p] = ip[p]
  BY <1>1, <1>2, SetPeer DEF AddrInv
<1>4. \A c \in Calls : ~Busy(c)'
  BY <1>1, NobodyBusy DEF Busy
<1>5. TypeOK'
  BY <1>1, <1>3 DEF TypeOK
<1>6. AddrInv'
  BY <1>1, <1>3 DEF AddrInv, Sound, Uncontested
<1>7. \A p \in revoked \ stale : live'[p] = NotPeer /\ saved'[p] = NotPeer
  BY <1>1, <1>2, <1>3, AckStores
<1>8. \A p \in settled \ stale : live'[p] # NotPeer /\ saved'[p] # NotPeer
  BY <1>1, <1>3, AckStores DEF Enabled
<1>9. BootInv'
  <2>1. Enabled' = Enabled /\ boot' \subseteq Enabled
    BY <1>1 DEF BootInv, Enabled
  <2>2. ASSUME NEW p \in Enabled \ boot'
        PROVE  /\ live'[p] # NotPeer
               /\ (\A q \in Enabled \ {p} : ip[q] # ip[p]) => live'[p] = ip[p]
    <3>1. CASE p = k
      BY <1>3, <3>1
    <3>2. CASE p # k
      <4>1. /\ p \in Keys /\ live[p] # NotPeer
            /\ (\A q \in Enabled \ {p} : ip[q] # ip[p]) => live[p] = ip[p]
        BY <1>1, <2>2, <3>2 DEF BootInv, Enabled
      <4>2. k \in Enabled \ {p}
        BY <1>2, <3>2
      <4> QED BY <1>3, <3>2, <4>1, <4>2
    <3> QED BY <3>1, <3>2
  <2> QED BY <1>1, <2>1, <2>2 DEF BootInv
<1> QED BY <1>1, <1>4, <1>5, <1>6, <1>7, <1>8, <1>9, QuietStep

LEMMA StartupStep ==
    ASSUME IInv, Startup
    PROVE  IInv'
PROOF
<1> USE DEF IInv
<1>1. CASE ListEnabled
  <2>1. TypeOK'
    BY <1>1 DEF ListEnabled, TypeOK, Enabled
  <2>2. \A c \in Calls : ~Busy(c)'
    BY <1>1, NobodyBusy DEF ListEnabled, Busy
  <2>3. BootInv'
    BY <1>1 DEF ListEnabled, BootInv, Enabled
  <2> QED BY <1>1, <2>1, <2>2, <2>3, AckStores, SameAddresses, QuietStep DEF ListEnabled
<1>2. CASE ReapplyFails
  <2>1. TypeOK'
    BY <1>2, FaultsAssumption DEF ReapplyFails, TypeOK
  <2>2. \A c \in Calls : ~Busy(c)'
    BY <1>2, NobodyBusy DEF ReapplyFails, Busy
  <2>3. BootInv'
    BY <1>2 DEF ReapplyFails, BootInv
  <2> QED BY <1>2, <2>1, <2>2, <2>3, AckStores, SameAddresses, QuietStep DEF ReapplyFails
<1>3. CASE Serve
  <2>1. TypeOK'
    BY <1>3 DEF Serve, TypeOK
  <2>2. \A c \in Calls : ~Busy(c)'
    BY <1>3, NobodyBusy DEF Serve, Busy
  <2>3. BootInv'
    BY <1>3 DEF Serve, BootInv
  <2>4. \A k \in settled : live[k] # NotPeer
    BY <1>3, AckStores DEF Serve, BootInv
  <2> QED BY <1>3, <2>1, <2>2, <2>3, <2>4, AckStores, SameAddresses, QuietStep DEF Serve
<1> QED BY <1>1, <1>2, <1>3, ReapplyStep DEF Startup

LEMMA FailureStep ==
    ASSUME IInv, AgentCrash \/ Reboot(saved) \/ Reboot(live) \/ AgentStart
    PROVE  IInv'
PROOF
<1> USE DEF IInv
<1>1. ASSUME Lose
      PROVE  /\ call' \in [Calls -> CallRecords] /\ \A c \in Calls : ~Busy(c)'
             /\ snap' \in [Calls -> [Keys -> Addresses]] /\ \A c \in Calls : Sound(snap[c])'
  <2>1. ASSUME NEW c \in Calls
        PROVE  call'[c] \in CallRecords /\ call'[c].pc \notin Steps
    <3>1. /\ call[c] \in CallRecords
          /\ call'[c] = IF Busy(c) THEN [call[c] EXCEPT !.pc = "lost"] ELSE call[c]
      BY <1>1 DEF TypeOK, Lose, CallRecords, Labels
    <3>2. "lost" \in Labels \ Steps
      BY DEF Labels, Ends, Steps, Renames
    <3> QED BY <3>1, <3>2 DEF Busy, CallRecords
  <2>2. /\ snap' \in [Calls -> [Keys -> Addresses]]
        /\ \A c \in Calls : snap'[c] = NoSnap
    BY <1>1 DEF Lose, NoSnap, Addresses
  <2>3. \A c \in Calls : Sound(snap[c])'
    BY <2>2 DEF Sound, NoSnap
  <2> QED BY <1>1, <2>1, <2>2, <2>3 DEF Lose, Busy
<1>2. CASE AgentCrash
  <2>1. TypeOK' /\ BootInv'
    BY <1>1, <1>2, FaultsAssumption DEF AgentCrash, TypeOK, BootInv, CallRecords, Labels
  <2>2. AddrInv'
    BY <1>1, <1>2 DEF AgentCrash, AddrInv, Sound, Uncontested
  <2> QED BY <1>1, <1>2, <2>1, <2>2, AckStores, QuietStep DEF AgentCrash
<1>3. CASE Reboot(saved) \/ Reboot(live)
  <2>1. /\ live' = saved' /\ saved' \in {saved, live} /\ agent' = "down" /\ boot' = {}
        /\ faults < MaxFaults /\ faults' = faults + 1 /\ Lose
        /\ UNCHANGED <<row, ip, known, settled, revoked, stale>>
    BY <1>3 DEF Reboot
  <2>2. TypeOK' /\ BootInv'
    BY <1>1, <2>1, FaultsAssumption DEF TypeOK, BootInv, CallRecords, Labels
  <2>3. Sound(live)' /\ Sound(saved)'
    BY <2>1 DEF AddrInv, Sound, Uncontested
  <2>4. AddrInv'
    BY <1>1, <2>1, <2>3 DEF AddrInv
  <2> QED BY <1>1, <2>1, <2>2, <2>4, AckStores, QuietStep
<1>4. CASE AgentStart
  <2>1. TypeOK' /\ BootInv'
    BY <1>4 DEF AgentStart, TypeOK, BootInv
  <2>2. \A c \in Calls : ~Busy(c)'
    BY <1>4, NobodyBusy DEF AgentStart, Busy
  <2> QED BY <1>4, <2>1, <2>2, AckStores, SameAddresses, QuietStep DEF AgentStart
<1> QED BY <1>2, <1>3, <1>4

-----------------------------------------------------------------------------
LEMMA InitIInv == Init => IInv
PROOF
<1> SUFFICES ASSUME Init PROVE IInv
  OBVIOUS
<1>1. TypeOK
  BY FaultsAssumption DEF Init, TypeOK, NoSnap, NoCall, Rows, Addresses, Ends
<1>2. \A c \in Calls : ~Busy(c)
  BY DEF Init, NoCall, Busy, Steps, Renames
<1>3. CallInv /\ ProgressInv /\ AckInv
  BY <1>2 DEF Init, CallInv, ProgressInv, Progress, AckInv
<1>4. AddrInv /\ BootInv
  BY DEF Init, AddrInv, Sound, NoSnap, BootInv
<1> QED BY <1>1, <1>3, <1>4 DEF IInv

LEMMA NextIInv == IInv /\ [Next]_vars => IInv'
PROOF
<1> SUFFICES ASSUME IInv, [Next]_vars PROVE IInv'
  OBVIOUS
<1>1. CASE Next
  BY <1>1, RequestStep, HandleStep, StartupStep, FailureStep DEF Next
<1>2. CASE UNCHANGED vars
  <2>1. TypeOK' /\ CallInv' /\ ProgressInv'
    BY <1>2 DEF vars, IInv, TypeOK, CallInv, ProgressInv, Progress, Busy
  <2>2. AddrInv'
    BY <1>2, SameAddresses DEF vars, IInv
  <2>3. AckInv' /\ BootInv'
    BY <1>2 DEF vars, IInv, AckInv, BootInv, Enabled, Busy, Saving, OnInAll, OffInAll
  <2> QED BY <2>1, <2>2, <2>3 DEF IInv
<1> QED BY <1>1, <1>2

LEMMA Invariant == Spec => []IInv
  BY InitIInv, NextIInv, PTL DEF Spec

(* Table, interface, saved file and handlers are well typed in every       *)
(* reachable state of the agent.                                           *)
THEOREM TypeCorrect == Spec => []TypeOK
PROOF
<1>1. IInv => TypeOK
  BY DEF IInv
<1> QED BY <1>1, Invariant, PTL

(* A disable or delete that was answered holds: not enabled in the table,  *)
(* and off the interface and out of wg0.conf unless an older reading was   *)
(* yet to be saved, whatever other requests, crashes, reboots and startup  *)
(* passes do, until an enable is requested.                                *)
THEOREM RevokedStaysOff == Spec => []RevokedPeerStaysOff
PROOF
<1>1. IInv => RevokedPeerStaysOff
  BY DEF IInv, AckInv, OffInAll, RevokedPeerStaysOff
<1> QED BY <1>1, Invariant, PTL

(* A create or enable that was answered holds: enabled in the table, and   *)
(* routed to its address whenever the agent serves, while no other key was *)
(* given it; without an older reading yet to be saved, in wg0.conf too.    *)
THEOREM SettledStaysOn == Spec => []SettledPeerStaysOn
PROOF
<1>1. IInv => SettledPeerStaysOn
  BY DEF IInv, AckInv, AddrInv, Sound, OnInAll, SettledPeerStaysOn
<1> QED BY <1>1, Invariant, PTL

(* The startup pass gives every enabled peer its address back before the   *)
(* agent serves.                                                           *)
THEOREM StartupRestores == Spec => []StartupReapplies
PROOF
<1>1. IInv => StartupReapplies
  BY DEF IInv, BootInv, StartupReapplies
<1> QED BY <1>1, Invariant, PTL

-----------------------------------------------------------------------------
(* The node implements PeerAccess. *)

AccessOf    == [k \in Keys |-> IF k \in revoked THEN "off"
                               ELSE IF k \in settled THEN "on" ELSE "open"]
ReachableOf == {k \in Keys : live[k] # NotPeer}

(* What was answered cannot be both on and off. *)
LEMMA OneAnswer ==
    ASSUME IInv
    PROVE  /\ \A k \in revoked : k \in Keys /\ k \notin settled
           /\ \A k \in settled : k \in Keys /\ k \notin revoked
  BY DEF IInv, AckInv

(* A step that acknowledges nothing and withdraws nothing, and takes peers *)
(* only to where they should be, is a Move.                                *)
LEMMA MoveStep ==
    ASSUME IInv, UNCHANGED <<settled, revoked, stale>>, (agent' = "up") <=> (agent = "up"),
           \A k \in revoked : live[k] = NotPeer => live'[k] = NotPeer,
           \A k \in settled : live[k] # NotPeer => live'[k] # NotPeer
    PROVE  Access!Next
PROOF
<1>1. AccessOf' = AccessOf /\ ReachableOf' \in SUBSET Keys
  BY DEF AccessOf, ReachableOf
<1>2. ASSUME NEW k \in Keys
      PROVE  /\ AccessOf[k] = "on" /\ k \in ReachableOf => k \in ReachableOf'
             /\ AccessOf[k] = "off" /\ k \notin ReachableOf => k \notin ReachableOf'
  BY OneAnswer DEF AccessOf, ReachableOf
<1>3. (agent' = "up") = (agent = "up")
  OBVIOUS
<1>4. Access!Move
  BY <1>1, <1>2, <1>3 DEF Access!Move, AccessOf, ReachableOf
<1> QED BY <1>4 DEF Access!Next

(* A request for the opposite of what was acknowledged is an Ask. *)
LEMMA AskStep ==
    ASSUME IInv, NEW k \in Keys, agent = "up", UNCHANGED <<live, stale, agent>>,
           \/ settled' = settled \ {k} /\ UNCHANGED revoked
           \/ revoked' = revoked \ {k} /\ UNCHANGED settled
    PROVE  Access!Next \/ UNCHANGED <<AccessOf, ReachableOf>>
PROOF
<1>1. UNCHANGED ReachableOf
  BY DEF ReachableOf
<1>2. CASE UNCHANGED <<settled, revoked>>
  BY <1>1, <1>2 DEF AccessOf
<1>3. CASE ~UNCHANGED <<settled, revoked>>
  <2>1. k \in settled \cup revoked /\ k \notin settled' \cup revoked'
    BY <1>3, OneAnswer
  <2>2. AccessOf[k] # "open" /\ AccessOf'[k] = "open"
    BY <2>1 DEF AccessOf
  <2>3. AccessOf' = [AccessOf EXCEPT ![k] = "open"]
    BY <2>1 DEF AccessOf
  <2>4. Access!Ask(k)
    BY <1>1, <2>2, <2>3 DEF Access!Ask, AccessOf, ReachableOf
  <2> QED BY <2>4 DEF Access!Next
<1> QED BY <1>2, <1>3

(* The answer to a request nobody overlapped is an Acknowledge. *)
LEMMA AcknowledgeStep ==
    ASSUME IInv, IInv', NEW k \in Keys, agent = "up", UNCHANGED <<live, agent>>,
           stale' \in {stale \cup {k}, stale \ {k}},
           \/ /\ settled' = settled \cup {k} /\ UNCHANGED revoked /\ live[k] # NotPeer
           \/ /\ revoked' = revoked \cup {k} /\ UNCHANGED settled /\ live[k] = NotPeer
    PROVE  Access!Next
PROOF
<1>1. UNCHANGED ReachableOf /\ AccessOf = [p \in Keys |-> AccessOf[p]]
  BY DEF ReachableOf, AccessOf
<1>2. CASE settled' = settled \cup {k} /\ UNCHANGED revoked /\ live[k] # NotPeer
  <2>1. k \notin revoked
    BY <1>2, OneAnswer DEF IInv, AckInv
  <2>2. k \in ReachableOf
    BY <1>2 DEF ReachableOf
  <2>3. AccessOf[k] \in {"open", "on"} /\ AccessOf' = [AccessOf EXCEPT ![k] = "on"]
    BY <1>2, <2>1 DEF AccessOf
  <2>4. Access!Acknowledge(k, "on")
    BY <1>1, <2>2, <2>3 DEF Access!Acknowledge, AccessOf, ReachableOf
  <2> QED BY <2>4 DEF Access!Next
<1>3. CASE revoked' = revoked \cup {k} /\ UNCHANGED settled /\ live[k] = NotPeer
  <2>1. k \notin settled
    BY <1>3, OneAnswer DEF IInv, AckInv
  <2>2. k \notin ReachableOf
    BY <1>3 DEF ReachableOf
  <2>3. AccessOf[k] \in {"open", "off"} /\ AccessOf' = [AccessOf EXCEPT ![k] = "off"]
    BY <1>3, <2>1 DEF AccessOf
  <2>4. Access!Acknowledge(k, "off")
    BY <1>1, <2>2, <2>3 DEF Access!Acknowledge, AccessOf, ReachableOf
  <2> QED BY <2>4 DEF Access!Next
<1> QED BY <1>2, <1>3

(* A handler never takes a peer away from what was acknowledged about it:  *)
(* it works on its own key, towards the same end.                          *)
LEMMA HandlerMoves ==
    ASSUME IInv, NEW c \in Calls, Handle(c)
    PROVE  /\ \A p \in revoked : live[p] = NotPeer => live'[p] = NotPeer
           /\ \A p \in settled : live[p] # NotPeer => live'[p] # NotPeer
           /\ agent = "up" /\ agent' = "up"
PROOF
<1>1. Busy(c) /\ UNCHANGED agent
  BY DEF Handle, AddPeerUpsert, AddPeerSet, AddPeerSave, AddPeerRename, RemovePeerRow,
         RemovePeerLive, RemovePeerSave, RemovePeerRename, DisablePeerGet, DisablePeerRow,
         DisablePeerLive, DisablePeerSave, DisablePeerRename, EnablePeerGet, EnablePeerReget,
         EnablePeerRow, EnablePeerSet, EnablePeerSave, EnablePeerRename, CommandFails,
         ReadRow, WriteRow, WgSet, Save, Rename, At, Busy, Steps, Renames
<1>2. PICK k \in Keys : k = call[c].key /\ ip[k] # NoIp /\ agent = "up"
  BY <1>1, BusyFacts
<1>3. /\ TypeOK /\ Sound(live) /\ revoked \subseteq Keys /\ settled \subseteq Keys
      /\ k \in revoked => call[c].op \in {"delete", "disable"}
      /\ k \in settled => call[c].op = "enable"
  BY <1>1, <1>2 DEF IInv, AddrInv, AckInv
<1>4. CASE UNCHANGED live
  BY <1>1, <1>2, <1>4
<1>5. CASE AddPeerSet(c) \/ EnablePeerSet(c)
  <2>1. live' = AddOrUpdatePeer(k, ip[k]) /\ UNCHANGED ip
    BY <1>2, <1>5 DEF AddPeerSet, EnablePeerSet, WgSet
  <2>2. k \notin revoked
    BY <1>1, <1>3, <1>5, BusyFacts
       DEF AddPeerSet, EnablePeerSet, WgSet, At, CreateSteps, EnableSteps
  <2> QED BY <1>1, <1>2, <1>3, <2>1, <2>2, SetPeer
<1>6. CASE RemovePeerLive(c) \/ DisablePeerLive(c)
  <2>1. live' = RemovePeer(k) /\ UNCHANGED ip
    BY <1>2, <1>6 DEF RemovePeerLive, DisablePeerLive, WgSet
  <2>2. k \notin settled
    BY <1>1, <1>3, <1>6, BusyFacts
       DEF RemovePeerLive, DisablePeerLive, WgSet, At, DeleteSteps, DisableSteps
  <2> QED BY <1>1, <1>2, <1>3, <2>1, <2>2, DropPeer
<1>7. UNCHANGED live \/ AddPeerSet(c) \/ EnablePeerSet(c) \/ RemovePeerLive(c) \/ DisablePeerLive(c)
  BY DEF Handle, AddPeerUpsert, AddPeerSave, AddPeerRename, RemovePeerRow,
         RemovePeerSave, RemovePeerRename, DisablePeerGet, DisablePeerRow,
         DisablePeerSave, DisablePeerRename, EnablePeerGet, EnablePeerReget,
         EnablePeerRow, EnablePeerSave, EnablePeerRename, CommandFails,
         ReadRow, WriteRow, Save, Rename
<1> QED BY <1>4, <1>5, <1>6, <1>7

LEMMA AccessStep == IInv /\ IInv' /\ [Next]_vars => [Access!Next]_(Access!vars)
PROOF
<1> SUFFICES ASSUME IInv, IInv', Next
             PROVE  Access!Next \/ UNCHANGED <<AccessOf, ReachableOf, stale, (agent = "up")>>
  BY DEF Access!vars, AccessOf, ReachableOf, vars
<1>1. CASE Request
  <2>1. ASSUME NEW c \in Calls, NEW k \in Keys, NEW a \in Ips, CreatePeer(c, k, a)
        PROVE  UNCHANGED <<settled, revoked, stale, live, agent>>
    BY <2>1 DEF CreatePeer, Start
  <2>2. ASSUME NEW c \in Calls, NEW k \in Keys, DeletePeer(c, k) \/ DisablePeer(c, k)
        PROVE  settled' = settled \ {k} /\ agent = "up" /\ UNCHANGED <<live, revoked, stale, agent>>
    BY <2>2 DEF DeletePeer, DisablePeer, Start
  <2>3. ASSUME NEW c \in Calls, NEW k \in Keys, EnablePeer(c, k)
        PROVE  revoked' = revoked \ {k} /\ agent = "up" /\ UNCHANGED <<live, settled, stale, agent>>
    BY <2>3 DEF EnablePeer, Start
  <2>4. CASE \E c \in Calls, k \in Keys, a \in Ips : CreatePeer(c, k, a)
    BY <2>1, <2>4, MoveStep
  <2>5. CASE \E c \in Calls, k \in Keys : DeletePeer(c, k) \/ DisablePeer(c, k)
    <3>1. UNCHANGED <<stale, agent>>
      BY <2>2, <2>5
    <3> QED BY <2>2, <2>5, <3>1, AskStep
  <2>6. CASE \E c \in Calls, k \in Keys : EnablePeer(c, k)
    <3>1. UNCHANGED <<stale, agent>>
      BY <2>3, <2>6
    <3> QED BY <2>3, <2>6, <3>1, AskStep
  <2> QED BY <1>1, <2>4, <2>5, <2>6 DEF Request
<1>2. ASSUME NEW c \in Calls, Handle(c)
      PROVE  Access!Next
  <2>1. CASE \E step \in Renames : Rename(c, step)
    <3>1. PICK step \in Renames : Rename(c, step)
      BY <2>1
    <3>2. Busy(c) /\ call[c].pc = step
      BY <3>1 DEF Rename, At, Busy, Steps
    <3>3. call[c].key \in Keys /\ agent = "up" /\ UNCHANGED <<live, agent>>
      BY <3>1, <3>2, BusyFacts DEF Rename
    <3>4. CASE ~call[c].solo
      <4>1. UNCHANGED <<settled, revoked, stale>>
        BY <3>1, <3>4 DEF Rename
      <4> QED BY <3>3, <4>1, MoveStep
    <3>5. CASE call[c].solo
      <4>1. \/ /\ call[c].op \in {"create", "enable"} /\ step \in {"create_rename", "enable_rename"}
            \/ /\ call[c].op \in {"delete", "disable"} /\ step \in {"delete_rename", "disable_rename"}
        BY <3>2, BusyFacts DEF Renames, CreateSteps, EnableSteps, DeleteSteps, DisableSteps
      <4>2. Progress(c)
        BY DEF IInv, ProgressInv
      <4>3. stale' \in {stale \cup {call[c].key}, stale \ {call[c].key}}
        BY <3>1, <3>5 DEF Rename
      <4>4. CASE call[c].op \in {"create", "enable"}
        <5>1. settled' = settled \cup {call[c].key} /\ UNCHANGED revoked
          BY <3>1, <3>5, <4>4 DEF Rename
        <5>2. live[call[c].key] # NotPeer
          BY <3>2, <3>5, <4>1, <4>2, <4>4 DEF Progress
        <5> QED BY <3>3, <4>3, <5>1, <5>2, AcknowledgeStep
      <4>5. CASE call[c].op \in {"delete", "disable"}
        <5>1. revoked' = revoked \cup {call[c].key} /\ UNCHANGED settled
          BY <3>1, <3>5, <4>5 DEF Rename
        <5>2. live[call[c].key] = NotPeer
          BY <3>2, <3>5, <4>1, <4>2, <4>5 DEF Progress
        <5> QED BY <3>3, <4>3, <5>1, <5>2, AcknowledgeStep
      <4> QED BY <4>1, <4>4, <4>5
    <3> QED BY <3>4, <3>5
  <2>2. CASE ~ \E step \in Renames : Rename(c, step)
    <3>1. UNCHANGED <<settled, revoked, stale>>
      BY <1>2, <2>2
         DEF Handle, AddPeerUpsert, AddPeerSet, AddPeerSave, AddPeerRename, RemovePeerRow,
             RemovePeerLive, RemovePeerSave, RemovePeerRename, DisablePeerGet, DisablePeerRow,
             DisablePeerLive, DisablePeerSave, DisablePeerRename, EnablePeerGet,
             EnablePeerReget, EnablePeerRow, EnablePeerSet, EnablePeerSave, EnablePeerRename,
             CommandFails, ReadRow, WriteRow, WgSet, Save, Renames
    <3> QED BY <1>2, <3>1, HandlerMoves, MoveStep
  <2> QED BY <2>1, <2>2
<1>3. CASE Startup
  <2>1. /\ UNCHANGED <<settled, revoked, stale>> /\ agent # "up"
        /\ agent' = "up" => Serve
    BY <1>3 DEF Startup, ListEnabled, Reapply, ReapplyFails, Serve
  <2>2. CASE Serve
    <3>1. \A k \in settled : live[k] # NotPeer
      BY <2>2, AckStores DEF Serve, IInv, BootInv
    <3>2. UNCHANGED <<AccessOf, ReachableOf>> /\ agent' = "up"
      BY <2>1, <2>2 DEF Serve, AccessOf, ReachableOf
    <3>3. \A k \in Keys : AccessOf[k] = "on" => k \in ReachableOf
      BY <3>1 DEF AccessOf, ReachableOf
    <3>4. Access!Serve
      BY <2>1, <3>2, <3>3 DEF Access!Serve, AccessOf, ReachableOf
    <3> QED BY <3>4 DEF Access!Next
  <2>3. CASE \E k \in Keys : Reapply(k)
    <3>1. PICK k \in Keys : Reapply(k)
      BY <2>3
    <3>2. k \in Enabled /\ ip[k] # NoIp /\ UNCHANGED <<ip, agent>> /\ live' = AddOrUpdatePeer(k, ip[k])
      BY <3>1 DEF Reapply, IInv, BootInv, AddrInv, Enabled
    <3>3. \A p \in Keys : /\ p # k => ((live'[p] = NotPeer) <=> (live[p] = NotPeer))
                          /\ p = k => live'[p] # NotPeer
      BY <3>2, SetPeer DEF IInv, AddrInv
    <3> QED BY <2>1, <3>2, <3>3, AckStores, OneAnswer, MoveStep
  <2>4. CASE ListEnabled \/ ReapplyFails
    <3>1. UNCHANGED live /\ agent' # "up"
      BY <2>4 DEF ListEnabled, ReapplyFails
    <3> QED BY <2>1, <3>1, MoveStep
  <2> QED BY <1>3, <2>2, <2>3, <2>4 DEF Startup
<1>4. CASE AgentCrash \/ Reboot(saved) \/ Reboot(live)
  <2>1. /\ UNCHANGED <<settled, revoked, stale>> /\ agent' = "down" /\ live' \in {live, saved}
    BY <1>4 DEF AgentCrash, Reboot
  <2>2. AccessOf' = AccessOf /\ ReachableOf' \in SUBSET Keys
    BY <2>1 DEF AccessOf, ReachableOf
  <2>3. ASSUME NEW k \in Keys \ stale, AccessOf[k] # "open"
        PROVE  (k \in ReachableOf') = (k \in ReachableOf)
    <3>1. k \in revoked \/ k \in settled
      BY <2>3 DEF AccessOf
    <3> QED BY <2>1, <3>1, AckStores DEF ReachableOf
  <2>4. Access!Stop
    BY <2>1, <2>2, <2>3 DEF Access!Stop, AccessOf, ReachableOf
  <2> QED BY <2>4 DEF Access!Next
<1>5. CASE AgentStart
  <2>1. /\ UNCHANGED <<settled, revoked, stale, live>> /\ agent' # "up" /\ agent # "up"
    BY <1>5 DEF AgentStart
  <2> QED BY <2>1, MoveStep
<1> QED BY <1>1, <1>2, <1>3, <1>4, <1>5 DEF Next

(* The node implements PeerAccess: the table, the interface, the saved     *)
(* file, the handlers between them and the startup pass amount to one set  *)
(* of peers, which handlers and passes move only to where it was asked,    *)
(* and a reboot only for answers given beside an older save.               *)
THEOREM Refinement == Spec => ImplementsPeerAccess
PROOF
<1>1. Init => Access!Init
  BY DEF Init, Access!Init
<1> QED BY <1>1, AccessStep, Invariant, PTL DEF Spec, ImplementsPeerAccess, Access!Spec
=============================================================================

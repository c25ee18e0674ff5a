--------------------------- MODULE ProviderEntries ---------------------------
(***************************************************************************)
(* The harnesses that are taken over entry by entry: qwen-code             *)
(* (qwen_providers.py) and zcode (zcode_providers.py), with their part of  *)
(* backup_and_rewrite, the restores (wiring_orchestrate.py), reconcile and *)
(* the unchecking of a harness (settings_set).                             *)
(*                                                                         *)
(* Every entry has an address and an image gate.  Taking it over points    *)
(* the address to the proxy and opens the gate; what was there goes to the *)
(* snapshot under a key.  qwen-code has a global address besides, which    *)
(* decides whether its file is restored at all.  The user edits entries at *)
(* any time.                                                               *)
(*                                                                         *)
(* Entries the program leaves alone (unknown protocol, no key) are left    *)
(* out; a zcode entry has one model; ids differ.  Commands follow one      *)
(* another (Takeover has them race), but a start may die half way.         *)
(***************************************************************************)
EXTENDS Naturals, Sequences, Functions

CONSTANTS
  Ids,       \* of entries
  Tags,      \* envKeys of qwen-code and kinds of zcode
  Urls,      \* of providers
  Ports,     \* of routing tools
  Harnesses, \* those to explore, of {"qwen-code", "zcode"}
  Files,     \* Files[h]: what the file of h may hold at first [file, base]
  Globals,   \* what the user may set model.baseUrl of qwen-code to
  News,      \* News[h]: entries the user may add
  MaxEdits   \* bound: edits of the user in a behaviour

Proxy  == "proxy"
NoUrl  == "no url"
NoEnv  == "no env"   \* an entry of qwen-code without an envKey
NoId   == "no id"

Gates == {"open", "shut", "none"}  \* none: no such field
Entry == [id : Ids, tag : Tags \cup {NoEnv}, url : Urls \cup Ports \cup {Proxy},
          gate : Gates]

ASSUME EntriesAssumption ==
  /\ Harnesses \subseteq {"qwen-code", "zcode"}
  /\ {Proxy, NoUrl} \cap (Urls \cup Ports) = {}
  /\ Urls \cap Ports = {}
  /\ NoEnv \notin Tags /\ NoId \notin Ids
  /\ Globals \subseteq Urls \cup Ports \cup {NoUrl}
  /\ \A h \in Harnesses :
       /\ Files[h] \subseteq [file : Seq(Entry), base : Globals \cup {NoUrl}]
       /\ News[h] \subseteq Entry
  /\ MaxEdits \in Nat

\* The entries of a file have different ids, and none leads to the proxy
\* before its harness was taken over for the first time.  Those of zcode
\* have a kind.
ASSUME FilesAssumption ==
  \A h \in Harnesses :
    /\ \A f \in Files[h] : \A i \in DOMAIN f.file :
         /\ f.file[i].url # Proxy
         /\ \A j \in DOMAIN f.file : f.file[i].id = f.file[j].id => i = j
         /\ h = "zcode" => f.file[i].tag # NoEnv
    /\ \A e \in News[h] :
         e.url # Proxy /\ (h = "zcode" => e.tag # NoEnv)

VARIABLES
  harness,   \* the one this behaviour is about
  disk,      \* its file, snapshot, whole-file backup and relays
  service,   \* "down", "starting" or "up"
  fresh,     \* what the start under way has read and changed
  on,        \* routing_on: the intent
  checked,   \* the harness is in routing.harnesses
  own,       \* history, own[id]: address and gate the user wants
  lostUrl,   \* history: ids whose address,
  lostGate,  \*   or gate, the snapshot need not know (see below)
  edits

ghosts == <<own, lostUrl, lostGate>>
vars   == <<harness, disk, service, fresh, on, checked, ghosts, edits>>

Qwen    == harness = "qwen-code"
Nothing == <<>>
NoSnap  == [held |-> FALSE, base |-> NoUrl, urls |-> Nothing,
            gates |-> Nothing]
NoBak   == [held |-> FALSE, file |-> <<>>, base |-> NoUrl]
NoFresh == [urls |-> Nothing, gates |-> Nothing, base |-> NoUrl]

-----------------------------------------------------------------------------
(* Keys of the snapshot *)

Own(e)     == [tag |-> e.tag, id |-> e.id, at |-> 0]
Shared(e)  == [tag |-> e.tag, id |-> NoId, at |-> 0]
Spot(e, i) == [tag |-> NoEnv, id |-> e.id, at |-> i]
Unknown    == [tag |-> NoEnv, id |-> NoId, at |-> 0]

\* _qwen_entry_keys and _zcode_key: entries with the envKey and the address
\* of the first one with that envKey share its key.
WriteKey(file, i) ==
  LET e     == file[i]
      first == CHOOSE j \in DOMAIN file :
                 /\ file[j].tag = e.tag
                 /\ \A k \in 1..j - 1 : file[k].tag # e.tag
  IN  IF ~ Qwen THEN Own(e)
      ELSE IF e.tag = NoEnv THEN Spot(e, i)
      ELSE IF e.url = file[first].url THEN Shared(e)
      ELSE Own(e)

\* _qwen_resolve_key: the more particular key of those there are.
ReadKey(urls, file, i) ==
  LET e    == file[i]
      mine == IF e.tag = NoEnv THEN Spot(e, i) ELSE Own(e)
  IN  IF ~ Qwen THEN Own(e)
      ELSE IF mine \in DOMAIN urls THEN mine
      ELSE IF Shared(e) \in DOMAIN urls THEN Shared(e)
      ELSE Unknown

-----------------------------------------------------------------------------
(* Faulty variants of definitions below, here and where they can stand.    *)
(* Nothing uses them.                                                      *)

\* The key is computed again instead of resolved.
OriginByWriteKey(d, i) ==
  LET key == WriteKey(d.file, i)
  IN  IF ~ Qwen /\ d.file[i].url # Proxy THEN d.file[i].url
      ELSE IF key \in DOMAIN d.snap.urls THEN d.snap.urls[key]
      ELSE Proxy

\* The proxy is an upstream like others.
DirectAll(url) == TRUE

-----------------------------------------------------------------------------
(* What the program does to the disk *)

\* _modalities_open, _mod_input: the gate is one the program opens.
Closed(e) == e.gate = "shut" \/ (Qwen /\ e.gate = "none")

\* What of(i) is for the entries of I, under their keys.  Of those that
\* share one the last is kept.
Originals(file, I, of(_)) ==
  [key \in {WriteKey(file, i) : i \in I} |->
     of(CHOOSE i \in I : /\ WriteKey(file, i) = key
                         /\ \A j \in I : WriteKey(file, j) = key => j <= i)]

NewUrls(file) ==
  Originals(file, {i \in DOMAIN file : file[i].url # Proxy},
            LAMBDA i : file[i].url)

\* Faulty: gates that are open already are recorded as well.
AllGates(file) ==
  Originals(file, {i \in DOMAIN file : Qwen \/ file[i].gate # "none"},
            LAMBDA i : file[i].gate)

NewGates(file) ==
  Originals(file, {i \in DOMAIN file : Closed(file[i])},
            LAMBDA i : file[i].gate)

\* _rewrite_qwen_providers, _rewrite_zcode_providers.
Rewritten(file) ==
  [i \in DOMAIN file |->
     [file[i] EXCEPT !.url = Proxy,
                     !.gate = IF Closed(file[i]) THEN "open" ELSE @]]

\* The new originals go over the recorded ones.
Over(new, old) ==
  [key \in DOMAIN new \cup DOMAIN old |->
     IF key \in DOMAIN new THEN new[key] ELSE old[key]]

Merged(snap, urls, gates) ==
  [snap EXCEPT !.held = TRUE, !.urls = Over(urls, @), !.gates = Over(gates, @)]

\* Faulty: only addresses count.
RewiredByUrls(d) ==
  LET urls  == NewUrls(d.file)
      gates == NewGates(d.file)
      old   == IF d.snap.held THEN d.snap ELSE [NoSnap EXCEPT !.base = Proxy]
  IN  IF urls = Nothing THEN d
      ELSE [d EXCEPT !.file = Rewritten(d.file),
                     !.snap = Merged(old, urls, gates)]

\* reconcile_qwen_providers, reconcile_zcode_providers.
Rewired(d) ==
  LET urls  == NewUrls(d.file)
      gates == NewGates(d.file)
      old   == IF d.snap.held THEN d.snap ELSE [NoSnap EXCEPT !.base = Proxy]
  IN  IF urls = Nothing /\ gates = Nothing THEN d
      ELSE [d EXCEPT !.file = Rewritten(d.file),
                     !.snap = Merged(old, urls, gates)]

\* Where entry i leads without the proxy, as far as is known.
Origin(d, i) ==
  LET key == ReadKey(d.snap.urls, d.file, i)
  IN  IF ~ Qwen /\ d.file[i].url # Proxy THEN d.file[i].url
      ELSE IF key \in DOMAIN d.snap.urls THEN d.snap.urls[key]
      ELSE Proxy

\* Neither the proxy itself nor a tool gets a relay.
IsDirect(url) == url \in Urls

Protocol(e) == IF Qwen THEN "chat" ELSE e.tag

\* _qwen_relay_groups, _zcode_relay_desired: entries of qwen-code with one
\* address share a relay, one of zcode has its own.
Desired(d) ==
  {[url |-> Origin(d, i), protocol |-> Protocol(d.file[i]),
    ids |-> {d.file[j].id : j \in {k \in DOMAIN d.file :
               k = i \/ (Qwen /\ Origin(d, k) = Origin(d, i))}}] :
   i \in {k \in DOMAIN d.file : IsDirect(Origin(d, k))}}

\* ensure_qwen_relays leaves a relay as it is while its address is wanted,
\* ensure_zcode_relays builds all of them again.
Ensured(d) ==
  LET kept == {r \in d.relays : Qwen /\ \E w \in Desired(d) : w.url = r.url}
  IN  [d EXCEPT !.relays =
         kept \cup {w \in Desired(d) : \A r \in kept : w.url # r.url}]

\* classify_base_url: a tool's port or no address at all.
Reclaimed(base) == base \in Ports \cup {NoUrl}

\* reconcile, of a harness that is checked while the service runs.
Reconciled(d) ==
  Ensured(
    IF ~ Qwen \/ d.base = Proxy THEN Rewired(d)
    ELSE IF Reclaimed(d.base) THEN [d EXCEPT !.base = Proxy]
    ELSE [d EXCEPT !.base = Proxy,
                   !.snap = [NoSnap EXCEPT !.held = TRUE, !.base = d.base]])

\* Faulty: entries that point elsewhere by now are restored as well.
RestoredAll(file, snap) ==
  [i \in DOMAIN file |->
     LET key == ReadKey(snap.urls, file, i)
     IN  [file[i] EXCEPT
            !.url = IF key \in DOMAIN snap.urls THEN snap.urls[key] ELSE @,
            !.gate = IF key \in DOMAIN snap.gates THEN snap.gates[key]
                     ELSE @]]

\* _restore_qwen_providers, _restore_zcode_providers: only entries that
\* point to the proxy still, each as far as its key is known.
RestoredEntries(file, snap) ==
  [i \in DOMAIN file |->
     LET key == ReadKey(snap.urls, file, i)
     IN  IF file[i].url # Proxy THEN file[i]
         ELSE [file[i] EXCEPT
                 !.url = IF key \in DOMAIN snap.urls THEN snap.urls[key] ELSE @,
                 !.gate = IF /\ key \in DOMAIN snap.gates
                             /\ Qwen \/ file[i].gate # "none"
                          THEN snap.gates[key] ELSE @]]

FromSnapshot(d) ==
  [d EXCEPT !.file = RestoredEntries(d.file, d.snap),
            !.base = IF Qwen THEN d.snap.base ELSE @,
            !.bak = NoBak]

FromBackup(d) ==
  [d EXCEPT !.file = d.bak.file, !.base = d.bak.base, !.bak = NoBak]

\* _restore_harness_on_stop.
Restored(d) ==
  LET wired == \E i \in DOMAIN d.file : d.file[i].url = Proxy
  IN  IF Qwen /\ d.base # Proxy THEN d
      ELSE IF d.snap.held THEN FromSnapshot(d)
      ELSE IF d.bak.held /\ (Qwen \/ wired) THEN FromBackup(d)
      ELSE d

-----------------------------------------------------------------------------
(* What the snapshot need not know.  Of an envKey that entries share: any  *)
(* gate, and any address once one of them was edited.  Of another entry    *)
(* that is taken over: what went with its key (a new kind, a new           *)
(* position), with the whole snapshot when the global address is absorbed, *)
(* or with a start that died before it saved; and a gate that was set      *)
(* after it was recorded.  Each until the entry is recorded again.         *)

At(d, P(_)) == {d.file[i].id : i \in {j \in DOMAIN d.file : P(d.file[j])}}

IsTaken(e)  == e.url = Proxy
IsForced(e) == e.gate # own[e.id].gate

\* The envKeys that entries share, in the file or with one that may come.
Mixed ==
  {t \in Tags : Qwen /\ \E f \in Files[harness] :
     \E d, e \in News[harness] \cup Range(f.file) :
       d.tag = t /\ e.tag = t /\ d.id # e.id}

Group(e) == At(disk, LAMBDA f : f.tag = e.tag /\ e.tag \in Mixed)

Recording == service = "starting" \/ disk.snap.held

\* The entries that are recorded, as the user wants them, when the file is
\* rewritten.
Learn ==
  /\ lostUrl' = lostUrl \ At(disk, LAMBDA e :
                   e.url = own[e.id].url /\ e.tag \notin Mixed)
  /\ lostGate' = lostGate \ At(disk, LAMBDA e :
                   Closed(e) /\ ~ IsForced(e))

Lose ==
  /\ lostUrl' = lostUrl \cup At(disk, IsTaken)
  /\ lostGate' = lostGate \cup At(disk, IsForced)

\* A whole-file backup takes back what was edited since it was made.
Overwrite ==
  IF disk.snap.held THEN UNCHANGED <<lostUrl, lostGate>>
  ELSE /\ lostUrl' = lostUrl \cup At(disk', LAMBDA e : e.url # own[e.id].url)
       /\ lostGate' = lostGate \cup At(disk', IsForced)

-----------------------------------------------------------------------------
(* Commands *)

Init ==
  /\ harness \in Harnesses
  /\ \E f \in Files[harness] :
       /\ disk = [file |-> f.file, base |-> f.base, snap |-> NoSnap,
                  bak |-> NoBak, relays |-> {}]
       /\ own = [id \in Ids |->
                   IF \E e \in Range(f.file) : e.id = id
                   THEN CHOOSE e \in Range(f.file) : e.id = id
                   ELSE [id |-> id, tag |-> NoEnv, url |-> Proxy,
                         gate |-> "none"]]
  /\ service = "down"
  /\ fresh = NoFresh
  /\ on = FALSE
  /\ checked = TRUE
  /\ lostUrl = {} /\ lostGate = {}
  /\ edits = 0

\* backup_and_rewrite: a backup where there is none, and the file.  What was
\* in it is not in the snapshot yet.
BeginStart ==
  /\ service = "down" /\ checked
  /\ service' = "starting"
  /\ fresh' = [urls |-> NewUrls(disk.file), gates |-> NewGates(disk.file),
               base |-> disk.base]
  /\ disk' = [disk EXCEPT
       !.file = Rewritten(disk.file),
       !.bak = IF disk.bak.held THEN @
               ELSE [held |-> TRUE, file |-> disk.file, base |-> disk.base]]
  /\ Learn
  /\ UNCHANGED <<harness, on, checked, own, edits>>

\* The snapshot, unless nothing was changed, the global address and the
\* relays; then the service is up and reconciles.
FinishStart ==
  LET moved == fresh.base \notin {NoUrl, Proxy}
      news  == moved \/ fresh.urls # Nothing \/ fresh.gates # Nothing
      old   == [disk.snap EXCEPT !.base = IF moved THEN fresh.base
                                          ELSE IF disk.snap.held THEN @
                                          ELSE fresh.base]
      next  == [disk EXCEPT
        !.base = IF Qwen THEN Proxy ELSE @,
        !.snap = IF news THEN Merged(old, fresh.urls, fresh.gates) ELSE @]
  IN
  /\ service = "starting"
  /\ service' = "up"
  /\ on' = TRUE
  /\ fresh' = NoFresh
  /\ disk' = Reconciled(Ensured(next))
  /\ Learn
  /\ UNCHANGED <<harness, checked, own, edits>>

\* The harness is none of those to take over.
StartOthers ==
  /\ service = "down" /\ ~ checked
  /\ service' = "up"
  /\ on' = TRUE
  /\ UNCHANGED <<harness, disk, fresh, checked, ghosts, edits>>

Crash ==
  /\ service # "down"
  /\ service' = "down"
  /\ fresh' = NoFresh
  /\ IF service = "starting" THEN Lose ELSE UNCHANGED <<lostUrl, lostGate>>
  /\ UNCHANGED <<harness, disk, on, checked, own, edits>>

\* cmd_stop, with relays_restore.  Without a service it does nothing.
Stop ==
  /\ service = "up"
  /\ service' = "down"
  /\ on' = FALSE
  /\ disk' = [(IF checked THEN Restored(disk) ELSE disk) EXCEPT !.relays = {}]
  /\ Overwrite
  /\ UNCHANGED <<harness, fresh, checked, own, edits>>

\* refresh or diagnose while the service runs.
Reconcile ==
  /\ service = "up" /\ checked
  /\ disk' = Reconciled(disk)
  /\ IF Qwen /\ disk.base \in Urls THEN Lose
     ELSE IF Qwen /\ disk.base # Proxy THEN UNCHANGED <<lostUrl, lostGate>>
     ELSE Learn
  /\ UNCHANGED <<harness, service, fresh, on, checked, own, edits>>

\* diagnose while it does not, and was not meant to: restore_by_snapshot.
\* (Meant to run, it is started again.)
RestoreBySnapshot ==
  /\ service = "down" /\ checked /\ ~ on
  /\ disk.snap.held
  /\ Qwen => disk.base = Proxy
  /\ disk' = FromSnapshot(disk)
  /\ UNCHANGED <<harness, service, fresh, on, checked, ghosts, edits>>

\* settings_set takes the harness out of routing.harnesses: it is restored
\* as by a stop, and zcode's relays go (remove_zcode_relays);
Uncheck ==
  /\ checked /\ service # "starting"
  /\ checked' = FALSE
  /\ disk' = [Restored(disk) EXCEPT !.relays = IF Qwen THEN @ ELSE {}]
  /\ Overwrite
  /\ UNCHANGED <<harness, service, fresh, on, own, edits>>

\* or puts it back: the next start or reconcile takes it over.
Check ==
  /\ ~ checked /\ service # "starting"
  /\ checked' = TRUE
  /\ UNCHANGED <<harness, disk, service, fresh, on, ghosts, edits>>

-----------------------------------------------------------------------------
(* The user edits the file of the harness *)

Edit(file) ==
  /\ edits < MaxEdits
  /\ edits' = edits + 1
  /\ disk' = [disk EXCEPT !.file = file]
  /\ UNCHANGED <<harness, service, fresh, on, checked>>

SetUrl(i, url) ==
  LET e == disk.file[i] IN
  /\ e.url # url
  /\ Edit([disk.file EXCEPT ![i].url = url])
  /\ own' = [own EXCEPT ![e.id].url = url]
  /\ lostUrl' = lostUrl \cup Group(e)
  /\ UNCHANGED lostGate

SetGate(i, gate) ==
  LET e == disk.file[i] IN
  /\ e.gate # gate
  /\ Edit([disk.file EXCEPT ![i].gate = gate])
  /\ own' = [own EXCEPT ![e.id].gate = gate]
  /\ lostGate' = IF Recording THEN lostGate \cup {e.id} ELSE lostGate
  /\ UNCHANGED lostUrl

\* The interface format of a zcode provider, which is part of its key.
SetKind(i, kind) ==
  LET e == disk.file[i] IN
  /\ ~ Qwen /\ e.tag # kind
  /\ Edit([disk.file EXCEPT ![i].tag = kind])
  /\ lostUrl' = IF IsTaken(e) THEN lostUrl \cup {e.id} ELSE lostUrl
  /\ lostGate' = IF Recording THEN lostGate \cup {e.id} ELSE lostGate
  /\ UNCHANGED own

Add(e) ==
  /\ \A i \in DOMAIN disk.file : disk.file[i].id # e.id
  /\ Edit(Append(disk.file, e))
  /\ own' = [own EXCEPT ![e.id] = e]
  /\ lostUrl' = (lostUrl \ {e.id}) \cup Group(e)
                \cup (IF e.tag \in Mixed THEN {e.id} ELSE {})
  /\ lostGate' = IF Recording THEN lostGate \cup {e.id} ELSE lostGate

\* Entries without an envKey that come after it have a new position.
Remove(i) ==
  LET e     == disk.file[i]
      after == {disk.file[j].id : j \in {j \in DOMAIN disk.file :
                  Qwen /\ j > i /\ disk.file[j].tag = NoEnv}}
  IN
  /\ Edit([j \in 1..Len(disk.file) - 1 |->
             disk.file[IF j < i THEN j ELSE j + 1]])
  /\ lostUrl' = lostUrl \cup Group(e) \cup (after \cap At(disk, IsTaken))
  /\ lostGate' = IF Recording THEN lostGate \cup after ELSE lostGate
  /\ UNCHANGED own

\* The global address of qwen-code.
SetGlobal(url) ==
  /\ Qwen /\ disk.base # url
  /\ edits < MaxEdits
  /\ edits' = edits + 1
  /\ disk' = [disk EXCEPT !.base = url]
  /\ UNCHANGED <<harness, service, fresh, on, checked, ghosts>>

User ==
  \/ \E i \in DOMAIN disk.file :
       \/ \E url \in Urls \cup Ports : SetUrl(i, url)
       \/ \E gate \in Gates : SetGate(i, gate)
       \/ \E kind \in Tags : SetKind(i, kind)
       \/ Remove(i)
  \/ \E e \in News[harness] : Add(e)
  \/ \E url \in Globals : SetGlobal(url)

Next ==
  \/ BeginStart \/ FinishStart \/ StartOthers \/ Crash \/ Stop
  \/ Reconcile \/ RestoreBySnapshot \/ Uncheck \/ Check
  \/ User

Spec == Init /\ [][Next]_vars

-----------------------------------------------------------------------------
(* Properties *)

TypeOK ==
  /\ harness \in Harnesses
  /\ disk.file \in Seq(Entry)
  /\ disk.base \in Urls \cup Ports \cup {Proxy, NoUrl}
  /\ \A key \in DOMAIN disk.snap.urls : disk.snap.urls[key] \in Urls \cup Ports
  /\ \A key \in DOMAIN disk.snap.gates : disk.snap.gates[key] \in Gates
  /\ disk.bak.held \in BOOLEAN /\ disk.bak.file \in Seq(Entry)
  /\ disk.relays \subseteq [url : Urls, protocol : Tags \cup {"chat"},
                            ids : SUBSET Ids]
  /\ service \in {"down", "starting", "up"}
  /\ on \in BOOLEAN /\ checked \in BOOLEAN
  /\ own \in [Ids -> Entry]
  /\ lostUrl \subseteq Ids /\ lostGate \subseteq Ids
  /\ edits \in 0..MaxEdits

\* A step that gives the entries back, from the snapshot.
GivesBack ==
  /\ Stop \/ Uncheck \/ RestoreBySnapshot
  /\ checked /\ disk.snap.held
  /\ Qwen => disk.base = Proxy

\* After it every entry has the address its user chose last, be it before
\* the takeover or since, through any number of starts, crashes, edits and
\* reconciliations (snapshot.py:3-5).
AddressesComeBack ==
  [][GivesBack => \A i \in DOMAIN disk.file :
       disk.file[i].id \notin lostUrl =>
         disk'.file[i].url = own[disk.file[i].id].url]_vars

\* And every entry that was taken over has its gate (modalities.py:26).
GatesComeBack ==
  [][GivesBack => \A i \in DOMAIN disk.file :
       LET e == disk.file[i] IN
       IsTaken(e) /\ e.id \notin lostUrl \cup lostGate /\ e.tag \notin Mixed =>
         disk'.file[i].gate = own[e.id].gate]_vars

\* A taken-over entry has a relay to the address of its own.
Served ==
  \A e \in Range(disk.file) :
    IsTaken(e) /\ e.id \notin lostUrl /\ own[e.id].url \in Urls =>
      \E r \in disk.relays :
        /\ r.url = own[e.id].url /\ r.protocol = Protocol(e)
        /\ Qwen \/ r.ids = {e.id}

\* So it is after every start and every reconciliation, whatever was edited
\* before (qwen_providers.py:203-206).
EntriesAreServed == [][FinishStart \/ Reconcile => Served']_vars

\* Whatever was edited, two reconciliations take everything over, and from
\* then on they change nothing (reconcile.py:3-4).
Settles ==
  service = "up" /\ checked =>
    LET d == Reconciled(Reconciled(disk))
    IN  /\ Reconciled(d) = d
        /\ Qwen => d.base = Proxy
        /\ \A e \in Range(d.file) : IsTaken(e) /\ ~ Closed(e)

=============================================================================

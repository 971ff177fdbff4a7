----------------------------- MODULE AppProofs ------------------------------
(***************************************************************************)
(* Proofs about App, for any connections, passwords, folders, clicks and   *)
(* faults: what the pages, the two channels, the sessions, the vault, the  *)
(* known hosts and the keychain keep true together.                        *)
(***************************************************************************)
EXTENDS App, TLAPS

Connecting == Dial \/ Authenticate \/ OpenVault \/ PutVault
Listing == \/ \E d \in Dirs : Activated(d)
           \/ \E i \in 1 .. Len(ui.path) : CrumbClicked(i)
           \/ RefreshClicked
FormConnect == \E n \in Names, pw \in Passwords, p \in Profiles : connect_from_form(n, p, pw)
SavedConnect == \E n \in Names, pw \in Passwords : connect_saved(n, pw)
Deletion == \E n \in Names : confirm_delete(n)
Editing == \E n \in Names : EditClicked(n)
Order == \E op \in {"edit", "transfer"} : Ordered(op)
Working == \E t \in tasks : Work(t) \/ FlushTask(t)
ListWork == \E t \in tasks : ListTask(t)
Timers == \E i \in 1 .. Len(sess) : TimerFlush(i) \/ FinalFlush(i)

-----------------------------------------------------------------------------
(* Who changes what.                                                         *)

LEMMA Actions ==
  [Next]_vars <=> \/ AddClicked \/ BackClicked \/ Editing \/ Deletion \/ SavedConnect \/ FormConnect
                  \/ Listing \/ DisconnectClicked \/ SettingsSaved \/ Order \/ EventLoop
                  \/ SetSettings \/ Disconnect \/ Spawned \/ Connect \/ Connecting \/ ServerSilent
                  \/ ListWork \/ Working \/ Timers \/ UNCHANGED vars
  BY DEF Next, ConnectionPage, BrowserPage, dispatch, Background, Editing, Deletion, SavedConnect, FormConnect,
         Listing, Order, Connecting, ListWork, Working, Timers

LEMMA Frames ==
  /\ AddClicked \/ BackClicked \/ Editing \/ Deletion => UNCHANGED <<cmds, evs, worker, sess, tasks, vault, host>>
  /\ AddClicked \/ Editing => UNCHANGED <<conf, stray>>
  /\ SavedConnect \/ FormConnect \/ Listing \/ DisconnectClicked \/ SettingsSaved \/ Order =>
        UNCHANGED <<evs, worker, sess, tasks, vault, host>>
  /\ SavedConnect \/ Listing \/ SettingsSaved \/ Order => UNCHANGED <<conf, stray>>
  /\ Order => UNCHANGED ui
  /\ EventLoop => UNCHANGED <<conf, worker, sess, tasks, vault, host, stray>>
  /\ SetSettings \/ Disconnect \/ Spawned \/ Connect => UNCHANGED <<conf, ui, evs, vault, host, stray>>
  /\ SetSettings \/ Disconnect \/ Connect => UNCHANGED tasks
  /\ Spawned => UNCHANGED <<worker, sess>>
  /\ Connect => UNCHANGED sess
  /\ Connecting \/ ServerSilent => UNCHANGED <<conf, ui, cmds, tasks, stray>>
  /\ ServerSilent => UNCHANGED <<evs, sess, host>>
  /\ ListWork \/ Working \/ Timers => UNCHANGED <<conf, ui, cmds, worker, vault, host, stray>>
  /\ ListWork => UNCHANGED sess
  /\ Timers => UNCHANGED <<evs, tasks>>
  <1>1. AddClicked \/ BackClicked \/ Editing \/ Deletion => UNCHANGED <<cmds, evs, worker, sess, tasks, vault, host>>
    BY DEF AddClicked, BackClicked, Editing, EditClicked, Deletion, confirm_delete
  <1>2. AddClicked \/ Editing => UNCHANGED <<conf, stray>>
    BY DEF AddClicked, Editing, EditClicked
  <1>3. SavedConnect \/ FormConnect \/ Listing \/ DisconnectClicked \/ SettingsSaved \/ Order =>
        UNCHANGED <<evs, worker, sess, tasks, vault, host>>
    BY DEF SavedConnect, connect_saved, FormConnect, connect_from_form, Listing, Activated, CrumbClicked,
           RefreshClicked, DisconnectClicked, SettingsSaved, Order, Ordered
  <1>4. (SavedConnect \/ Listing \/ SettingsSaved \/ Order => UNCHANGED <<conf, stray>>) /\ (Order => UNCHANGED ui)
    BY DEF SavedConnect, connect_saved, Listing, Activated, CrumbClicked, RefreshClicked, SettingsSaved, Order, Ordered
  <1>5. EventLoop => UNCHANGED <<conf, worker, sess, tasks, vault, host, stray>>
    BY DEF EventLoop
  <1>6. /\ SetSettings \/ Disconnect \/ Spawned \/ Connect => UNCHANGED <<conf, ui, evs, vault, host, stray>>
        /\ SetSettings \/ Disconnect \/ Connect => UNCHANGED tasks
        /\ Spawned => UNCHANGED <<worker, sess>>
        /\ Connect => UNCHANGED sess
    BY DEF SetSettings, Disconnect, Spawned, Connect
  <1>7. /\ Connecting \/ ServerSilent => UNCHANGED <<conf, ui, cmds, tasks, stray>>
        /\ ServerSilent => UNCHANGED <<evs, sess, host>>
    BY DEF Connecting, Dial, Authenticate, OpenVault, PutVault, get_vault, Failed, Goes, sftp_host_key, remember_host,
           Anchored, session_made, NewSession, Create, ServerSilent
  <1>8. /\ ListWork \/ Working \/ Timers => UNCHANGED <<conf, ui, cmds, worker, vault, host, stray>>
        /\ ListWork => UNCHANGED sess
        /\ Timers => UNCHANGED <<evs, tasks>>
    BY DEF ListWork, ListTask, Working, Work, FlushTask, Timers, TimerFlush, FinalFlush
  <1> QED
    BY <1>1, <1>2, <1>3, <1>4, <1>5, <1>6, <1>7, <1>8

\* What a step of connect comes to, and what it does to the vault.
LEMMA ConnectSteps ==
  ASSUME Connecting
  PROVE  /\ worker.pc \in {"dial", "auth", "vault", "put"}
         /\ \/ Failed /\ (vault' = vault \/ worker.pc = "put")
            \/ worker.pc = "dial" /\ Goes("auth") /\ UNCHANGED vault
            \/ worker.pc = "auth" /\ worker.req.profile.e2ee /\ (\E p \in {kind, "global"} : Anchored(p)) /\ UNCHANGED vault
            \/ worker.pc = "vault" /\ vault[worker.place] = {} /\ Create /\ UNCHANGED vault
            \/ worker.pc = "auth" /\ ~worker.req.profile.e2ee /\ session_made(Torn) /\ UNCHANGED vault
            \/ \E v \in vault[worker.place] : worker.pc = "vault" /\ session_made(v) /\ UNCHANGED vault
            \/ worker.pc = "put" /\ session_made(worker.key) /\ vault' = [vault EXCEPT ![worker.place] = {worker.key}]
  <1>1. CASE Dial
    BY <1>1 DEF Dial, sftp_host_key, remember_host
  <1>2. CASE Authenticate
    BY <1>2 DEF Authenticate
  <1>3. CASE OpenVault
    BY <1>3 DEF OpenVault, get_vault
  <1>4. CASE PutVault
    BY <1>4 DEF PutVault
  <1> QED
    BY <1>1, <1>2, <1>3, <1>4 DEF Connecting

-----------------------------------------------------------------------------
(* The known hosts.                                                          *)

\* The key of this connection, once it was looked at, is the remembered one or one that
\* could not be saved.
HostInv == /\ DOMAIN host = {"known", "observed", "told", "unsaved"}
           /\ host.observed \in {0, host.known} \cup host.unsaved
           /\ host.told \subseteq {host.known} \cup host.unsaved /\ (host.known = 0 => host.told \subseteq host.unsaved)

\* The secret of an SFTP login is only ever sent to the host key that was remembered
\* when the server was first seen (SftpBackend::connect, check_server_key), or to one that
\* remember_host failed to save, however often the server's key changes.
THEOREM HostAlwaysTrusted == Spec => []HostTrusted
  <1>1. Init => HostInv
    <2>1. Init => host = [known |-> 0, observed |-> 0, told |-> {}, unsaved |-> {}]
      BY DEF Init
    <2> QED
      BY <2>1 DEF HostInv
  <1>2. HostInv /\ [Next]_vars => HostInv'
    <2> SUFFICES ASSUME HostInv, [Next]_vars PROVE HostInv'
      OBVIOUS
    <2>1. CASE UNCHANGED host
      BY <2>1 DEF HostInv
    <2>2. CASE Dial
      <3>1. \/ UNCHANGED host
            \/ \E k \in {1, 2} : host.known \in {0, k} /\ host' = [host EXCEPT !.known = k, !.observed = k]
            \/ host.known = 0 /\ host' = [host EXCEPT !.observed = 1, !.unsaved = @ \cup {1}]
        BY <2>2 DEF Dial, sftp_host_key, remember_host
      <3> QED
        BY <3>1 DEF HostInv
    <2>3. CASE Authenticate
      BY <2>3 DEF Authenticate, HostInv
    <2>4. CASE OpenVault \/ PutVault
      BY <2>4, <2>1 DEF OpenVault, PutVault
    <2> QED
      BY <2>1, <2>2, <2>3, <2>4, Actions, Frames DEF Connecting, vars
  <1>3. HostInv => HostTrusted
    BY DEF HostInv, HostTrusted
  <1> QED
    BY <1>1, <1>2, <1>3, PTL DEF Spec

-----------------------------------------------------------------------------
(* Types: of the configuration, the pages, the channels, the worker, the     *)
(* sessions and the tasks.                                                   *)

IsMap(f) == DOMAIN f \subseteq Names /\ f \in [DOMAIN f -> SavedProfiles]
IsConf(c) == /\ DOMAIN c = {"profiles", "legacy", "secrets"}
             /\ c.legacy = NoProfiles /\ c.secrets \subseteq Names /\ IsMap(c.profiles)
IsUi(u) == /\ DOMAIN u = {"page", "view", "busy", "rows", "editing", "path", "pending", "missed", "crossed", "gen", "shown", "settings"}
           /\ u.page \in {"connect", "browser"} /\ u.view \in {"list", "form"} /\ u.busy \in BOOLEAN
           /\ IsMap(u.rows) /\ u.editing \in Names \cup {NoName}
           /\ u.path \in Seq(Dirs \cup {Root}) /\ Len(u.path) > 0 /\ u.path[1] = Root
           /\ u.gen \in Nat /\ u.settings \in Nat /\ u.crossed \in BOOLEAN
LeftOK == left \in [connects : Nat, pages : Nat, clicks : Nat, faults : Nat]
WorkerOK == /\ DOMAIN worker = {"pc", "req", "session", "settings", "key", "place", "salts"}
            /\ worker.pc \in {"idle", "dial", "auth", "vault", "put", "hung"}
            /\ worker.session \in 0 .. Len(sess) /\ worker.settings \in Nat /\ worker.salts \in Nat
            /\ worker.key \in Keys /\ worker.place \in Places /\ worker.req.pw \in Passwords \cup {NoName}
            /\ worker.req.profile.kind \in BackendKind /\ worker.req.profile.e2ee \in BOOLEAN
Sessions == [key : Keys, place : Places, e2ee : BOOLEAN, rates : Nat, interval : Nat, timer : {"live", "stopping", "gone"},
             dirty : BOOLEAN, lost : BOOLEAN]
SessOK == sess \in Seq(Sessions) /\ \A i \in 1 .. Len(sess) : sess[i].dirty => sess[i].e2ee
TasksOK == \A t \in tasks : /\ t \in [cmd : Commands, sid : 1 .. Len(sess), pc : {"run", "flush"}, tried : BOOLEAN]
                            /\ t.cmd.op \in {"list", "edit", "transfer"} /\ (t.cmd.op = "list" => t.pc = "run")
VaultOK == vault \in [Places -> SUBSET Keys]
Types == /\ IsConf(conf) /\ IsUi(ui) /\ LeftOK /\ cmds \in Seq(Commands) /\ evs \in Seq(Events)
         /\ WorkerOK /\ SessOK /\ TasksOK /\ VaultOK

LEMMA SavedKinds == \A p \in SavedProfiles : p.kind \in BackendKind /\ p.e2ee \in BOOLEAN
  <1>1. Kinds \subseteq BackendKind /\ Modes \subseteq BOOLEAN
    BY AppAssumption
  <1> QED
    BY <1>1 DEF SavedProfiles, Profiles, BackendKind

LEMMA LoadAll ==
  ASSUME NEW c, IsConf(c)
  PROVE  load_all(c) = c
  BY DEF IsConf, load_all

LEMMA Maps ==
  ASSUME NEW f, IsMap(f), NEW n \in Names, NEW p \in SavedProfiles
  PROVE  /\ IsMap(Without(f, n)) /\ DOMAIN Without(f, n) = DOMAIN f \ {n}
         /\ IsMap(With(f, n, p)) /\ DOMAIN With(f, n, p) = DOMAIN f \cup {n}
  BY DEF IsMap, Without, With

LEMMA RemoveEffect ==
  ASSUME NEW c, IsConf(c), NEW n \in Names
  PROVE  LET d == remove(c, n)
         IN  IsConf(d) /\ d.profiles = Without(c.profiles, n) /\ d.secrets = c.secrets \ {n}
  <1>1. remove(c, n) = [[c EXCEPT !.profiles = Without(@, n)] EXCEPT !.secrets = @ \ {n}]
    BY LoadAll DEF remove, delete_secret
  <1>2. IsMap(Without(c.profiles, n))
    BY DEF IsConf, IsMap, Without
  <1> QED
    BY <1>1, <1>2 DEF IsConf

LEMMA UpsertEffect ==
  ASSUME NEW c, IsConf(c), NEW n \in Names, NEW p \in SavedProfiles
  PROVE  LET d == upsert(c, n, p)
         IN  IsConf(d) /\ d.profiles = With(c.profiles, n, p) /\ d.secrets = c.secrets
  <1>1. upsert(c, n, p) = [c EXCEPT !.profiles = With(@, n, p)]
    BY LoadAll DEF upsert
  <1>2. IsMap(With(c.profiles, n, p))
    BY Maps DEF IsConf
  <1> QED
    BY <1>1, <1>2 DEF IsConf

\* The two ways the connection page shows itself again.
LEMMA StartView ==
  ASSUME NEW u, IsUi(u), NEW c, IsConf(c)
  PROVE  LET v == show_start_view(u, c)
         IN  /\ IsUi(v) /\ v.rows = c.profiles
             /\ v.page = u.page /\ v.busy = u.busy /\ v.path = u.path /\ v.pending = u.pending
             /\ v.missed = u.missed /\ v.shown = u.shown /\ v.settings = u.settings /\ v.gen = u.gen
             /\ v.crossed = u.crossed
  <1>1. rebuild_profile_rows(u, c) = [u EXCEPT !.rows = c.profiles]
    BY LoadAll DEF rebuild_profile_rows
  <1> QED
    BY <1>1 DEF show_start_view, fill_form, IsUi, IsConf

LEMMA Reset ==
  ASSUME NEW u, IsUi(u), NEW c, IsConf(c)
  PROVE  LET v == reset(u, c)
         IN  /\ IsUi(v) /\ v.rows = c.profiles
             /\ v.page = u.page /\ v.busy = u.busy /\ v.path = u.path /\ v.pending = u.pending
             /\ v.missed = u.missed /\ v.shown = u.shown /\ v.settings = u.settings /\ v.gen = u.gen
             /\ v.crossed = u.crossed
  <1>1. rebuild_profile_rows(u, c) = [u EXCEPT !.rows = c.profiles]
    BY LoadAll DEF rebuild_profile_rows
  <1>2. IsUi(rebuild_profile_rows(u, c))
    BY <1>1 DEF IsUi, IsConf
  <1> QED
    BY <1>1, <1>2, StartView DEF reset, IsUi

LEMMA FillEffect ==
  ASSUME NEW u, IsUi(u), NEW n \in Names \cup {NoName}
  PROVE  LET v == fill_form([u EXCEPT !.view = "form"], n)
         IN  /\ IsUi(v) /\ v.view = "form"
             /\ v.page = u.page /\ v.busy = u.busy /\ v.path = u.path /\ v.pending = u.pending
             /\ v.missed = u.missed /\ v.shown = u.shown /\ v.settings = u.settings
             /\ v.gen = u.gen /\ v.crossed = u.crossed
  BY DEF fill_form, IsUi

LEMMA RequestedEffect ==
  ASSUME NEW u, IsUi(u)
  PROVE  /\ IsUi(Requested(u)) /\ Requested(u).path = u.path /\ Requested(u).page = u.page
         /\ Requested(u).busy = u.busy /\ Requested(u).rows = u.rows /\ Requested(u).view = u.view
         /\ Requested(u).settings = u.settings /\ Requested(u).gen = u.gen + 1 /\ Requested(u).pending
         /\ (Requested(u).crossed <=> ListingUnderWay) /\ List(u).n = u.gen + 1
         /\ current_prefix(u) \in Dirs \cup {Root} /\ List(u) \in Commands
  <1> DEFINE b == ListingUnderWay
  <1>1. b \in BOOLEAN
    BY DEF ListingUnderWay
  <1>2. Requested(u) = [u EXCEPT !.gen = @ + 1, !.pending = TRUE, !.crossed = b]
    BY DEF Requested
  <1> HIDE DEF b
  <1>3. /\ IsUi(Requested(u)) /\ Requested(u).path = u.path /\ Requested(u).page = u.page
        /\ Requested(u).busy = u.busy /\ Requested(u).rows = u.rows /\ Requested(u).view = u.view
        /\ Requested(u).settings = u.settings /\ Requested(u).gen = u.gen + 1 /\ Requested(u).pending
        /\ Requested(u).crossed = b
    BY <1>1, <1>2 DEF IsUi
  <1>4. current_prefix(u) \in Dirs \cup {Root} /\ List(u) \in Commands /\ List(u).n = u.gen + 1
    BY DEF IsUi, current_prefix, List, Commands
  <1>5. Requested(u).crossed <=> ListingUnderWay
    BY <1>3 DEF b
  <1> QED
    BY <1>3, <1>4, <1>5

-----------------------------------------------------------------------------
(* Each variable keeps its type.                                             *)

LEMMA ConfStep == ASSUME Types, [Next]_vars PROVE IsConf(conf)'
  <1>1. IsConf(conf) /\ IsUi(ui)
    BY DEF Types
  <1>2. CASE BackClicked \/ DisconnectClicked
    BY <1>1, <1>2, LoadAll DEF BackClicked, DisconnectClicked
  <1>3. CASE Deletion
    <2>1. PICK n \in Names : confirm_delete(n)
      BY <1>3 DEF Deletion
    <2> DEFINE d == remove(conf, n)
    <2>2. IsConf(d) /\ IsConf([d EXCEPT !.secrets = conf.secrets])
      BY <1>1, RemoveEffect DEF IsConf
    <2>3. conf' \in {load_all(d), load_all([d EXCEPT !.secrets = conf.secrets])}
      BY <2>1 DEF confirm_delete
    <2> QED
      BY <2>2, <2>3, LoadAll
  <1>4. CASE FormConnect
    <2>1. PICK n \in Names, pw \in Passwords, p \in Profiles : connect_from_form(n, p, pw)
      BY <1>4 DEF FormConnect
    <2> DEFINE renamed == ui.editing \notin {NoName, n}
               old == IF renamed THEN remove(conf, ui.editing) ELSE conf
               new == upsert(old, n, p)
    <2>2. conf' = conf \/ conf' = store_secret(new, n) \/ conf' = [new EXCEPT !.secrets = conf.secrets]
      BY <2>1 DEF connect_from_form
    <2>3. IsConf(old)
      BY <1>1, RemoveEffect DEF IsUi
    <2>4. p \in SavedProfiles
      BY DEF SavedProfiles
    <2>5. IsConf(new)
      BY <2>3, <2>4, UpsertEffect
    <2> HIDE DEF new
    <2>6. IsConf(store_secret(new, n)) /\ IsConf([new EXCEPT !.secrets = conf.secrets])
      BY <1>1, <2>5 DEF store_secret, IsConf
    <2> QED
      BY <1>1, <2>2, <2>6
  <1>5. CASE UNCHANGED conf
    BY <1>1, <1>5
  <1> QED
    BY <1>2, <1>3, <1>4, <1>5, Actions, Frames DEF vars

LEMMA LeftStep == ASSUME Types, [Next]_vars PROVE LeftOK'
  <1> DEFINE Spent == \E b \in {"connects", "pages", "clicks", "faults"} : Spend(b)
             Both == /\ left.connects > 0 /\ left.pages > 0
                     /\ left' = [left EXCEPT !.connects = @ - 1, !.pages = @ - 1]
  <1>1. UNCHANGED left \/ Spent \/ Both
    <2>1. AddClicked \/ BackClicked \/ Editing \/ Deletion => Spent
      BY DEF AddClicked, BackClicked, Editing, EditClicked, Deletion, confirm_delete, Fault
    <2>2. SavedConnect \/ FormConnect => Spent \/ Both
      BY DEF SavedConnect, connect_saved, FormConnect, connect_from_form
    <2>3. Listing \/ DisconnectClicked \/ SettingsSaved \/ Order => Spent
      BY DEF Listing, Activated, CrumbClicked, RefreshClicked, DisconnectClicked, SettingsSaved, Order, Ordered, InBrowser
    <2>4. EventLoop \/ SetSettings \/ Disconnect \/ Spawned \/ Connect => UNCHANGED left
      BY ZenonT(30) DEF EventLoop, SetSettings, Disconnect, Spawned, Connect
    <2>5. Connecting \/ ServerSilent => UNCHANGED left \/ Spent
      BY DEF Connecting, Dial, Authenticate, OpenVault, PutVault, get_vault, ServerSilent, Fault
    <2>6. ListWork \/ Working \/ Timers => UNCHANGED left \/ Spent
      BY ZenonT(30) DEF ListWork, ListTask, Working, Work, FlushTask, Timers, TimerFlush, FinalFlush, Fault
    <2> QED
      BY <2>1, <2>2, <2>3, <2>4, <2>5, <2>6, Actions DEF vars
  <1>2. LeftOK
    BY DEF Types
  <1>3. CASE Spent
    BY <1>2, <1>3 DEF Spend, LeftOK
  <1>4. CASE Both
    <2>1. left.connects - 1 \in Nat /\ left.pages - 1 \in Nat
      BY <1>2, <1>4 DEF LeftOK
    <2>2. left' = [left EXCEPT !.connects = left.connects - 1, !.pages = left.pages - 1]
      BY <1>2, <1>4 DEF LeftOK
    <2> QED
      BY <1>2, <2>1, <2>2 DEF LeftOK
  <1>5. CASE UNCHANGED left
    BY <1>2, <1>5 DEF LeftOK
  <1> QED
    BY <1>1, <1>3, <1>4, <1>5

LEMMA UiStep == ASSUME Types, [Next]_vars PROVE IsUi(ui)'
  <1>1. IsConf(conf) /\ IsUi(ui)
    BY DEF Types
  <1>2. CASE AddClicked \/ Editing
    <2>1. \E n \in Names \cup {NoName} : ui' = fill_form([ui EXCEPT !.view = "form"], n)
      BY <1>2 DEF AddClicked, Editing, EditClicked
    <2> QED
      BY <1>1, <2>1, FillEffect
  <1>3. CASE BackClicked
    BY <1>1, <1>3, StartView DEF BackClicked
  <1>4. CASE DisconnectClicked
    <2>1. IsUi([ui EXCEPT !.page = "connect"])
      BY <1>1 DEF IsUi
    <2> QED
      BY <1>1, <1>4, <2>1, Reset DEF DisconnectClicked
  <1>5. CASE Deletion
    <2>1. PICK n \in Names : confirm_delete(n)
      BY <1>5 DEF Deletion
    <2>2. ui' = [ui EXCEPT !.rows = remove(conf, n).profiles] /\ IsMap(remove(conf, n).profiles)
      BY <1>1, <2>1, RemoveEffect, LoadAll DEF confirm_delete, rebuild_profile_rows, IsConf
    <2> QED
      BY <1>1, <2>2 DEF IsUi
  <1>6. CASE SavedConnect
    <2>1. ui' = set_busy(ui, TRUE) \/ \E n \in Names : ui' = fill_form([ui EXCEPT !.view = "form"], n)
      BY <1>6 DEF SavedConnect, connect_saved, send_connect
    <2>2. IsUi(set_busy(ui, TRUE))
      BY <1>1 DEF set_busy, IsUi
    <2> QED
      BY <1>1, <2>1, <2>2, FillEffect
  <1>7. CASE FormConnect
    BY <1>1, <1>7 DEF FormConnect, connect_from_form, send_connect, set_busy, IsUi
  <1>8. CASE Listing
    <2>1. CASE \E d \in Dirs : Activated(d)
      <3>1. PICK d \in Dirs : ui' = Requested([ui EXCEPT !.path = Append(@, d)])
        BY <2>1 DEF Activated, request_list
      <3>2. IsUi([ui EXCEPT !.path = Append(@, d)])
        BY <1>1 DEF IsUi
      <3> QED
        BY <3>1, <3>2, RequestedEffect
    <2>2. CASE \E i \in 1 .. Len(ui.path) : CrumbClicked(i)
      <3>1. PICK i \in 1 .. Len(ui.path) : ui' = Requested([ui EXCEPT !.path = SubSeq(@, 1, i)])
        BY <2>2 DEF CrumbClicked, request_list
      <3>2. IsUi([ui EXCEPT !.path = SubSeq(@, 1, i)])
        BY <1>1 DEF IsUi
      <3> QED
        BY <3>1, <3>2, RequestedEffect
    <2>3. CASE RefreshClicked
      BY <1>1, <2>3, RequestedEffect DEF RefreshClicked, request_list
    <2> QED
      BY <1>8, <2>1, <2>2, <2>3 DEF Listing
  <1>9. CASE SettingsSaved
    BY <1>1, <1>9 DEF SettingsSaved, IsUi
  <1>10. CASE EventLoop
    <2> DEFINE u == reset_to_root([set_busy(ui, FALSE) EXCEPT !.page = "browser"])
               e == Head(evs)
    <2>1. \/ ui' = Requested(u) \/ ui' = connect_failed(ui) \/ ui' = set_listing(ui, e)
          \/ ui' = listing_failed(ui) \/ ui' = Requested(ui) \/ ui' = ui
      <3>1. e \in Events
        BY <1>10 DEF Types, EventLoop
      <3>2. e.ev \in {"connected", "connect_failed", "list_failed", "done", "toast", "listed"}
        BY <3>1 DEF Events
      <3> QED
        BY <1>10, <3>2 DEF EventLoop, request_list
    <2>2. IsUi(u)
      BY <1>1 DEF IsUi, reset_to_root, set_busy
    <2>3. IsUi(connect_failed(ui)) /\ IsUi(listing_failed(ui)) /\ IsUi(set_listing(ui, e))
      BY <1>1 DEF connect_failed, set_busy, listing_failed, finish_loading, set_listing, IsUi
    <2> QED
      BY <1>1, <2>1, <2>2, <2>3, RequestedEffect
  <1>11. CASE UNCHANGED ui
    BY <1>1, <1>11
  <1> QED
    BY <1>2, <1>3, <1>4, <1>5, <1>6, <1>7, <1>8, <1>9, <1>10, <1>11, Actions, Frames DEF vars

LEMMA CmdsStep == ASSUME Types, [Next]_vars PROVE cmds' \in Seq(Commands)
  <1>1. IsUi(ui) /\ LeftOK /\ cmds \in Seq(Commands) /\ evs \in Seq(Events)
    BY DEF Types
  <1>2. CASE SavedConnect
    <2>1. PICK n \in Names, pw \in Passwords : connect_saved(n, pw)
      BY <1>2 DEF SavedConnect
    <2> DEFINE c == [op |-> "connect", profile |-> ui.rows[n], pw |-> IF ui.rows[n].e2ee THEN pw ELSE NoName]
    <2>2. cmds' = cmds \/ cmds' = Append(cmds, c)
      BY <2>1 DEF connect_saved, send_connect
    <2>3. ui.rows[n] \in SavedProfiles
      BY <1>1, <2>1 DEF connect_saved, IsUi, IsMap
    <2>4. c \in Commands
      BY <2>3 DEF Commands
    <2> HIDE DEF c
    <2> QED
      BY <1>1, <2>2, <2>4
  <1>3. CASE FormConnect
    <2>1. PICK n \in Names, pw \in Passwords, p \in Profiles : connect_from_form(n, p, pw)
      BY <1>3 DEF FormConnect
    <2> DEFINE c == [op |-> "connect", profile |-> p, pw |-> IF p.e2ee THEN pw ELSE NoName]
    <2>2. cmds' = Append(cmds, c)
      BY <2>1 DEF connect_from_form, send_connect
    <2>3. c \in Commands
      BY DEF Commands, SavedProfiles
    <2> QED
      BY <1>1, <2>2, <2>3
  <1>4. CASE Listing
    <2>1. \E u : IsUi(u) /\ cmds' = Append(cmds, List(u))
      <3>1. CASE \E d \in Dirs : Activated(d)
        <4>1. \A d \in Dirs : IsUi([ui EXCEPT !.path = Append(@, d)])
          BY <1>1 DEF IsUi
        <4> QED
          BY <3>1, <4>1 DEF Activated, request_list
      <3>2. CASE \E i \in 1 .. Len(ui.path) : CrumbClicked(i)
        <4>1. \A i \in 1 .. Len(ui.path) : IsUi([ui EXCEPT !.path = SubSeq(@, 1, i)])
          BY <1>1 DEF IsUi
        <4> QED
          BY <3>2, <4>1 DEF CrumbClicked, request_list
      <3>3. CASE RefreshClicked
        BY <1>1, <3>3 DEF RefreshClicked, request_list
      <3> QED
        BY <1>4, <3>1, <3>2, <3>3 DEF Listing
    <2> QED
      BY <1>1, <2>1, RequestedEffect
  <1>5. CASE Order
    <2>1. PICK op \in {"edit", "transfer"} : cmds' = Append(cmds, [op |-> op, n |-> left.clicks])
      BY <1>5 DEF Order, Ordered
    <2>2. left.clicks \in Nat
      BY <1>1 DEF LeftOK
    <2>3. [op |-> op, n |-> left.clicks] \in Commands
      BY <2>2 DEF Commands
    <2> QED
      BY <1>1, <2>1, <2>3
  <1>6. CASE SettingsSaved
    <2>1. [op |-> "settings", value |-> ui.settings + 1] \in Commands
      BY <1>1 DEF Commands, IsUi
    <2> QED
      BY <1>1, <1>6, <2>1 DEF SettingsSaved
  <1>7. CASE DisconnectClicked
    <2>1. [op |-> "disconnect"] \in Commands
      BY DEF Commands
    <2> QED
      BY <1>1, <1>7, <2>1 DEF DisconnectClicked
  <1>8. CASE EventLoop
    <2> DEFINE u == reset_to_root([set_busy(ui, FALSE) EXCEPT !.page = "browser"])
               e == Head(evs)
    <2>1. e.ev \in {"connected", "connect_failed", "list_failed", "done", "toast", "listed"}
      BY <1>1, <1>8 DEF EventLoop, Events
    <2>2. cmds' = cmds \/ cmds' = Append(cmds, List(u)) \/ cmds' = Append(cmds, List(ui))
      BY <1>8, <2>1 DEF EventLoop, request_list
    <2>3. IsUi(u)
      BY <1>1 DEF IsUi, reset_to_root, set_busy
    <2> HIDE DEF u, e
    <2>4. List(u) \in Commands /\ List(ui) \in Commands
      BY <1>1, <2>3, RequestedEffect
    <2> QED
      <3>1. CASE cmds' = cmds BY <1>1, <3>1
      <3>2. CASE cmds' = Append(cmds, List(u)) BY <1>1, <2>4, <3>2
      <3>3. CASE cmds' = Append(cmds, List(ui)) BY <1>1, <2>4, <3>3
      <3> QED BY <2>2, <3>1, <3>2, <3>3
  <1>9. CASE SetSettings \/ Disconnect \/ Spawned \/ Connect
    <2>1. cmds # <<>> /\ cmds' = Tail(cmds)
      BY <1>9 DEF SetSettings, Disconnect, Spawned, Connect, Taken
    <2> QED
      BY <1>1, <2>1
  <1>10. CASE UNCHANGED cmds
    BY <1>1, <1>10
  <1> QED
    BY <1>2, <1>3, <1>4, <1>5, <1>6, <1>7, <1>8, <1>9, <1>10, Actions, Frames DEF vars

\* The session in use is told to stop; nothing else of any session changes.
LEMMA CancelledEffect ==
  ASSUME NEW s \in Seq(Sessions), NEW i \in 0 .. Len(s)
  PROVE  LET r == Cancelled(s, i)
         IN  /\ r \in Seq(Sessions) /\ Len(r) = Len(s)
             /\ \A j \in 1 .. Len(s) : /\ r[j].key = s[j].key /\ r[j].place = s[j].place /\ r[j].e2ee = s[j].e2ee
                                       /\ r[j].dirty = s[j].dirty /\ r[j].lost = s[j].lost /\ r[j].rates = s[j].rates
                                       /\ r[j].interval = s[j].interval
                                       /\ r[j].timer = IF j = i /\ s[j].timer # "gone" THEN "stopping" ELSE s[j].timer
  <1>1. CASE i = 0 \/ s[i].timer = "gone"
    BY <1>1 DEF Cancelled
  <1>2. CASE i # 0 /\ s[i].timer # "gone"
    <2> DEFINE r == [s EXCEPT ![i].timer = "stopping"]
    <2>1. Cancelled(s, i) = r
      BY <1>2 DEF Cancelled
    <2>2. s[i] \in Sessions /\ i \in 1 .. Len(s)
      BY <1>2
    <2>3. r = [s EXCEPT ![i] = [s[i] EXCEPT !.timer = "stopping"]] /\ [s[i] EXCEPT !.timer = "stopping"] \in Sessions
      BY <2>2 DEF Sessions
    <2>4. r \in Seq(Sessions) /\ Len(r) = Len(s)
      BY <2>2, <2>3
    <2>5. \A j \in 1 .. Len(s) : r[j] = IF j = i THEN [s[i] EXCEPT !.timer = "stopping"] ELSE s[j]
      BY <2>2, <2>3
    <2> QED
      BY <1>2, <2>1, <2>2, <2>4, <2>5 DEF Sessions
  <1> QED
    BY <1>1, <1>2

\* One field of one session changes.
LEMMA Touched ==
  ASSUME NEW s \in Seq(Sessions), NEW i \in 1 .. Len(s), NEW x \in Sessions
  PROVE  /\ [s EXCEPT ![i] = x] \in Seq(Sessions) /\ Len([s EXCEPT ![i] = x]) = Len(s)
         /\ \A j \in 1 .. Len(s) : [s EXCEPT ![i] = x][j] = IF j = i THEN x ELSE s[j]
  OBVIOUS

\* What the steps of tasks and timers do to a session: its dirty and lost flags and its
\* timer change, and it is made dirty only when it is encrypted.
Same(r, s) == r.key = s.key /\ r.place = s.place /\ r.e2ee = s.e2ee
Pace(r, s) == r.rates = s.rates /\ r.interval = s.interval

LEMMA WorkEffect ==
  ASSUME Types, NEW t \in tasks, Work(t)
  PROVE  \E x \in Sessions :
           /\ sess' = [sess EXCEPT ![t.sid] = x] /\ Same(x, sess[t.sid])
           /\ x.timer = sess[t.sid].timer /\ Pace(x, sess[t.sid]) /\ (x.dirty => x.e2ee)
           /\ \/ /\ tasks' = (tasks \ {t}) \cup {[t EXCEPT !.pc = "flush"]} /\ UNCHANGED evs
                 /\ x.dirty = (sess[t.sid].dirty \/ x.e2ee) /\ x.lost = sess[t.sid].lost
              \/ /\ ~x.e2ee /\ Reported(t, Done) /\ x.lost = sess[t.sid].lost
              \/ /\ GaveUp(t, Toast) /\ x.lost = (sess[t.sid].lost \/ (x.timer = "gone" /\ x.dirty))
  <1> DEFINE i == t.sid
             e2ee == sess[i].e2ee
             dirtied == [sess EXCEPT ![i].dirty = @ \/ e2ee]
             d == [sess[i] EXCEPT !.dirty = @ \/ e2ee]
  <1>1. sess \in Seq(Sessions) /\ i \in 1 .. Len(sess) /\ sess[i] \in Sessions /\ (sess[i].dirty => sess[i].e2ee)
    BY DEF Types, SessOK, TasksOK
  <1>2. /\ dirtied = [sess EXCEPT ![i] = d] /\ d \in Sessions /\ Same(d, sess[i]) /\ d.timer = sess[i].timer
        /\ Pace(d, sess[i]) /\ d.dirty = (sess[i].dirty \/ e2ee) /\ d.lost = sess[i].lost
    BY <1>1 DEF Sessions, Same, Pace
  <1>3. CASE sess' = dirtied /\ IF e2ee THEN tasks' = (tasks \ {t}) \cup {[t EXCEPT !.pc = "flush"]} /\ UNCHANGED evs
                                       ELSE Reported(t, Done)
    <2> HIDE DEF d, dirtied
    <2>1. d \in Sessions /\ sess' = [sess EXCEPT ![i] = d] /\ (d.dirty => d.e2ee)
      BY <1>1, <1>2, <1>3 DEF Same
    <2>2. \/ /\ tasks' = (tasks \ {t}) \cup {[t EXCEPT !.pc = "flush"]} /\ UNCHANGED evs
             /\ d.dirty = (sess[i].dirty \/ d.e2ee)
          \/ ~d.e2ee /\ Reported(t, Done)
      BY <1>2, <1>3 DEF Same
    <2> QED
      BY <1>2, <2>1, <2>2
  <1>4. ASSUME GaveUp(t, Toast), NEW s \in {sess, dirtied},
               sess' = [s EXCEPT ![i].lost = @ \/ (s[i].timer = "gone" /\ s[i].dirty)]
        PROVE  \E x \in Sessions :
                 /\ sess' = [sess EXCEPT ![i] = x] /\ Same(x, sess[i]) /\ x.timer = sess[i].timer
                 /\ Pace(x, sess[i])
                 /\ (x.dirty => x.e2ee) /\ x.lost = (sess[i].lost \/ (x.timer = "gone" /\ x.dirty))
    <2> DEFINE x == [s[i] EXCEPT !.lost = @ \/ (s[i].timer = "gone" /\ s[i].dirty)]
    <2>1. /\ s[i] \in {sess[i], d} /\ s[i] \in Sessions /\ DOMAIN s = DOMAIN sess
          /\ \A j \in DOMAIN sess \ {i} : s[j] = sess[j]
      BY <1>1, <1>2, Touched
    <2>2. x \in Sessions /\ Same(x, s[i]) /\ x.timer = s[i].timer /\ x.dirty = s[i].dirty /\ Pace(x, s[i])
          /\ x.lost = (s[i].lost \/ (x.timer = "gone" /\ x.dirty))
      BY <2>1 DEF Sessions, Same, Pace
    <2>3. sess' = [sess EXCEPT ![i] = x]
      BY <1>1, <1>2, <1>4, <2>1
    <2> HIDE DEF x, d, dirtied
    <2>4. Same(x, sess[i]) /\ x.timer = sess[i].timer /\ Pace(x, sess[i]) /\ (x.dirty => x.e2ee)
          /\ x.lost = (sess[i].lost \/ (x.timer = "gone" /\ x.dirty))
      <3>1. Same(s[i], sess[i]) /\ s[i].timer = sess[i].timer /\ Pace(s[i], sess[i]) /\ s[i].lost = sess[i].lost
        BY <1>2, <2>1 DEF Same, Pace
      <3>2. s[i].dirty => s[i].e2ee
        BY <1>1, <1>2, <2>1 DEF Same
      <3> QED
        BY <2>2, <3>1, <3>2 DEF Same, Pace
    <2> QED
      BY <2>2, <2>3, <2>4
  <1> QED
    BY <1>3, <1>4 DEF Work

LEMMA FlushEffect ==
  ASSUME Types, NEW t \in tasks, FlushTask(t)
  PROVE  \E x \in Sessions :
           /\ sess' = [sess EXCEPT ![t.sid] = x] /\ Same(x, sess[t.sid])
           /\ x.timer = sess[t.sid].timer /\ Pace(x, sess[t.sid]) /\ (x.dirty => sess[t.sid].dirty)
           /\ \/ ~x.dirty /\ Reported(t, Done)
              \/ /\ GaveUp(t, Toast) \/ Reported(t, Done)
                 /\ x.lost = (sess[t.sid].lost \/ (x.timer = "gone" /\ x.dirty))
  <1> DEFINE i == t.sid
  <1>1. sess \in Seq(Sessions) /\ i \in 1 .. Len(sess) /\ sess[i] \in Sessions
    BY DEF Types, SessOK, TasksOK
  <1>2. CASE /\ sess' = [sess EXCEPT ![i].dirty = FALSE, ![i].lost = FALSE] /\ Reported(t, Done)
    <2> DEFINE x == [sess[i] EXCEPT !.dirty = FALSE, !.lost = FALSE]
    <2>1. /\ x \in Sessions /\ sess' = [sess EXCEPT ![i] = x] /\ Same(x, sess[i]) /\ x.timer = sess[i].timer
          /\ Pace(x, sess[i]) /\ ~x.dirty
      BY <1>1, <1>2 DEF Sessions, Same, Pace
    <2> QED
      BY <1>2, <2>1
  <1>3. CASE /\ GaveUp(t, Toast) \/ Reported(t, Done)
             /\ sess' = [sess EXCEPT ![i].lost = @ \/ Orphaned(t)]
    <2> DEFINE x == [sess[i] EXCEPT !.lost = @ \/ Orphaned(t)]
    <2>1. /\ x \in Sessions /\ sess' = [sess EXCEPT ![i] = x] /\ Same(x, sess[i]) /\ x.timer = sess[i].timer
          /\ Pace(x, sess[i]) /\ x.dirty = sess[i].dirty /\ x.lost = (sess[i].lost \/ (x.timer = "gone" /\ x.dirty))
      BY <1>1, <1>3 DEF Sessions, Same, Pace, Orphaned
    <2> QED
      BY <1>3, <2>1
  <1> QED
    BY <1>2, <1>3 DEF FlushTask

LEMMA TimerEffect ==
  ASSUME Types, Timers
  PROVE  \E i \in 1 .. Len(sess) : \E x \in Sessions :
           /\ sess' = [sess EXCEPT ![i] = x] /\ Same(x, sess[i]) /\ Pace(x, sess[i])
           /\ x.timer \in {sess[i].timer, "gone"} /\ (x.dirty => sess[i].dirty) /\ (~x.dirty \/ x.lost)
  <1>1. PICK i \in 1 .. Len(sess) : TimerFlush(i) \/ FinalFlush(i)
    BY DEF Timers
  <1>2. sess \in Seq(Sessions) /\ sess[i] \in Sessions
    BY DEF Types, SessOK
  <1>3. CASE sess' = [sess EXCEPT ![i].dirty = FALSE]
    <2> DEFINE x == [sess[i] EXCEPT !.dirty = FALSE]
    <2>1. /\ x \in Sessions /\ sess' = [sess EXCEPT ![i] = x] /\ Same(x, sess[i]) /\ x.timer = sess[i].timer
          /\ Pace(x, sess[i]) /\ ~x.dirty
      BY <1>2, <1>3 DEF Sessions, Same, Pace
    <2> QED
      BY <2>1
  <1>4. CASE sess' = [sess EXCEPT ![i].timer = "gone", ![i].dirty = FALSE]
    <2> DEFINE x == [sess[i] EXCEPT !.timer = "gone", !.dirty = FALSE]
    <2>1. /\ x \in Sessions /\ sess' = [sess EXCEPT ![i] = x] /\ Same(x, sess[i]) /\ x.timer = "gone"
          /\ Pace(x, sess[i]) /\ ~x.dirty
      BY <1>2, <1>4 DEF Sessions, Same, Pace
    <2> QED
      BY <2>1
  <1>5. CASE sess' = [sess EXCEPT ![i].timer = "gone", ![i].lost = sess[i].dirty]
    <2> DEFINE x == [sess[i] EXCEPT !.timer = "gone", !.lost = sess[i].dirty]
    <2>1. /\ x \in Sessions /\ sess' = [sess EXCEPT ![i] = x] /\ Same(x, sess[i]) /\ x.timer = "gone"
          /\ Pace(x, sess[i]) /\ x.dirty = sess[i].dirty /\ x.lost = x.dirty
      BY <1>2, <1>5 DEF Sessions, Same, Pace
    <2> QED
      BY <2>1
  <1> QED
    BY <1>1, <1>3, <1>4, <1>5 DEF TimerFlush, FinalFlush

LEMMA MadeEffect ==
  ASSUME Types, NEW k \in Keys, session_made(k)
  PROVE  LET old == Cancelled(sess, worker.session)
             new == sess'[Len(sess) + 1]
         IN  /\ sess' \in Seq(Sessions) /\ Len(sess') = Len(sess) + 1
             /\ old \in Seq(Sessions) /\ \A i \in 1 .. Len(sess) : sess'[i] = old[i]
             /\ new.key = k /\ new.place = worker.place /\ new.e2ee = worker.req.profile.e2ee
             /\ new.rates = worker.settings /\ new.interval = 0 /\ ~new.dirty
  <1> DEFINE old == Cancelled(sess, worker.session)
             new == [key |-> k, place |-> worker.place, e2ee |-> worker.req.profile.e2ee, rates |-> worker.settings, interval |-> 0,
                     timer |-> IF worker.req.profile.e2ee THEN "live" ELSE "gone", dirty |-> FALSE, lost |-> FALSE]
  <1>1. old \in Seq(Sessions) /\ Len(old) = Len(sess)
    BY CancelledEffect DEF Types, SessOK, WorkerOK
  <1>2. new \in Sessions
    BY DEF Types, WorkerOK, Sessions, kind
  <1>3. sess' = Append(old, new)
    BY DEF session_made, NewSession
  <1> HIDE DEF old
  <1>4. sess' \in Seq(Sessions) /\ Len(sess') = Len(sess) + 1 /\ sess'[Len(sess) + 1] = new
        /\ \A i \in 1 .. Len(sess) : sess'[i] = old[i]
    BY <1>1, <1>2, <1>3
  <1> QED
    BY <1>1, <1>4 DEF old

LEMMA RatesEffect ==
  ASSUME Types, SetSettings, worker.session # 0
  PROVE  \E x \in Sessions :
           /\ sess' = [sess EXCEPT ![worker.session] = x] /\ Same(x, sess[worker.session])
           /\ x.timer = sess[worker.session].timer /\ x.dirty = sess[worker.session].dirty
           /\ x.lost = sess[worker.session].lost /\ x.rates = worker'.settings /\ x.interval = x.rates
  <1> DEFINE i == worker.session
             x == [sess[i] EXCEPT !.rates = Cmd.value, !.interval = Cmd.value]
  <1>1. sess \in Seq(Sessions) /\ i \in 1 .. Len(sess) /\ sess[i] \in Sessions
    BY DEF Types, SessOK, WorkerOK
  <1>2. Cmd \in Commands /\ Cmd.op = "settings"
    BY DEF Types, SetSettings, Taken, Cmd
  <1>3. Cmd.value \in Nat
    BY <1>2 DEF Commands
  <1>4. worker'.settings = Cmd.value
    BY DEF SetSettings, Types, WorkerOK
  <1>5. sess' = [sess EXCEPT ![i].rates = Cmd.value, ![i].interval = Cmd.value]
    BY DEF SetSettings
  <1> HIDE DEF Cmd
  <1>6. /\ x \in Sessions /\ sess' = [sess EXCEPT ![i] = x] /\ Same(x, sess[i]) /\ x.timer = sess[i].timer
        /\ x.dirty = sess[i].dirty /\ x.lost = sess[i].lost /\ x.rates = Cmd.value /\ x.interval = x.rates
    BY <1>1, <1>3, <1>5 DEF Sessions, Same
  <1> QED
    BY <1>4, <1>6

\* The key of a session that is made is a key.
LEMMA MadeKeys ==
  ASSUME Types
  PROVE  /\ Torn \in Keys /\ worker.key \in Keys /\ kind \in BackendKind /\ kind \in Places
         /\ worker.place \in Places /\ "s3" \in Places /\ "global" \in Places /\ \A v \in vault[worker.place] : v \in Keys
         /\ Connecting => \/ \E k \in Keys : session_made(k)
                          \/ UNCHANGED sess
  <1>1. Torn \in Keys
    BY DEF Torn, Keys
  <1>2. /\ worker.key \in Keys /\ kind \in BackendKind /\ kind \in Places
        /\ worker.place \in Places /\ "s3" \in Places /\ "global" \in Places
    BY DEF Types, WorkerOK, kind, Places, BackendKind
  <1>3. \A v \in vault[worker.place] : v \in Keys
    BY <1>2 DEF Types, VaultOK
  <1>4. ASSUME Connecting PROVE (\E k \in Keys : session_made(k)) \/ UNCHANGED sess
    <2>1. Failed \/ Goes("auth") \/ (\E p \in {kind, "global"} : Anchored(p)) \/ Create => UNCHANGED sess
      BY DEF Failed, Goes, Anchored, Create
    <2> QED
      BY <1>1, <1>2, <1>3, <1>4, <2>1, ConnectSteps
  <1> QED
    BY <1>1, <1>2, <1>3, <1>4

LEMMA SessStep ==
  ASSUME Types, [Next]_vars
  PROVE  SessOK' /\ Len(sess) <= Len(sess') /\ \A i \in 1 .. Len(sess) : Same(sess'[i], sess[i])
  <1>1. sess \in Seq(Sessions) /\ SessOK /\ worker.session \in 0 .. Len(sess) /\ Len(sess) \in Nat
    BY DEF Types, SessOK, WorkerOK
  <1>2. ASSUME NEW i \in 1 .. Len(sess), NEW x \in Sessions, sess' = [sess EXCEPT ![i] = x],
               Same(x, sess[i]), x.dirty => x.e2ee
        PROVE  SessOK' /\ Len(sess) <= Len(sess') /\ \A j \in 1 .. Len(sess) : Same(sess'[j], sess[j])
    BY <1>1, <1>2, Touched DEF SessOK, Same
  <1>3. CASE SetSettings /\ worker.session # 0
    <2>1. worker.session \in 1 .. Len(sess)
      BY <1>1, <1>3
    <2>2. sess[worker.session].dirty => sess[worker.session].e2ee
      BY <1>1, <2>1 DEF SessOK
    <2> QED
      BY <1>2, <1>3, <2>1, <2>2, RatesEffect DEF Same
  <1>4. CASE Disconnect
    <2> DEFINE old == Cancelled(sess, worker.session)
    <2>1. /\ old \in Seq(Sessions) /\ Len(old) = Len(sess)
          /\ \A i \in 1 .. Len(sess) : Same(old[i], sess[i]) /\ old[i].dirty = sess[i].dirty
      BY <1>1, CancelledEffect DEF Same
    <2>2. sess' = old
      BY <1>4 DEF Disconnect
    <2> HIDE DEF old
    <2> QED
      BY <1>1, <2>1, <2>2 DEF SessOK, Same
  <1>5. CASE \E k \in Keys : session_made(k)
    <2>1. PICK k \in Keys : session_made(k)
      BY <1>5
    <2> DEFINE old == Cancelled(sess, worker.session)
    <2>2. \A i \in 1 .. Len(sess) : Same(old[i], sess[i]) /\ old[i].dirty = sess[i].dirty
      BY <1>1, CancelledEffect DEF Same
    <2> HIDE DEF old
    <2>3. /\ sess' \in Seq(Sessions) /\ Len(sess') = Len(sess) + 1
          /\ \A i \in 1 .. Len(sess) : sess'[i] = old[i]
          /\ ~sess'[Len(sess) + 1].dirty
      BY <2>1, MadeEffect DEF old
    <2>4. ASSUME NEW i \in 1 .. Len(sess'), sess'[i].dirty PROVE sess'[i].e2ee
      <3>1. CASE i = Len(sess) + 1
        BY <2>3, <2>4, <3>1
      <3>2. CASE i \in 1 .. Len(sess)
        BY <1>1, <2>2, <2>3, <2>4, <3>2 DEF SessOK, Same
      <3> QED
        BY <1>1, <2>3, <3>1, <3>2
    <2> QED
      BY <1>1, <2>2, <2>3, <2>4 DEF SessOK
  <1>6. CASE Working
    <2>1. PICK t \in tasks : Work(t) \/ FlushTask(t)
      BY <1>6 DEF Working
    <2>2. t.sid \in 1 .. Len(sess) /\ (sess[t.sid].dirty => sess[t.sid].e2ee)
      BY <1>1 DEF Types, TasksOK, SessOK
    <2>3. \E x \in Sessions : sess' = [sess EXCEPT ![t.sid] = x] /\ Same(x, sess[t.sid]) /\ (x.dirty => x.e2ee)
      <3>1. CASE Work(t)
        BY <3>1, WorkEffect
      <3>2. CASE FlushTask(t)
        BY <2>2, <3>2, FlushEffect DEF Same
      <3> QED
        BY <2>1, <3>1, <3>2
    <2> QED
      BY <1>2, <2>2, <2>3
  <1>7. CASE Timers
    <2>1. PICK i \in 1 .. Len(sess) : \E x \in Sessions :
             sess' = [sess EXCEPT ![i] = x] /\ Same(x, sess[i]) /\ (x.dirty => sess[i].dirty)
      BY <1>7, TimerEffect
    <2>2. sess[i].dirty => sess[i].e2ee
      BY <1>1 DEF SessOK
    <2> QED
      BY <1>2, <2>1, <2>2 DEF Same
  <1>8. CASE UNCHANGED sess
    BY <1>1, <1>8 DEF SessOK, Same
  <1>9. SetSettings /\ worker.session = 0 => UNCHANGED sess
    BY DEF SetSettings
  <1> QED
    BY <1>3, <1>4, <1>5, <1>6, <1>7, <1>8, <1>9, MadeKeys, Actions, Frames DEF vars

LEMMA WorkerStep == ASSUME Types, [Next]_vars PROVE WorkerOK'
  <1>1. WorkerOK /\ Len(sess) \in Nat /\ Len(sess') \in Nat /\ Len(sess) <= Len(sess')
    BY SessStep DEF Types, SessOK
  <1>2. CASE SetSettings
    <2>1. Cmd \in Commands /\ Cmd.op = "settings"
      BY <1>2 DEF Types, SetSettings, Taken, Cmd
    <2>2. Cmd.value \in Nat
      BY <2>1 DEF Commands
    <2>3. worker' = [worker EXCEPT !.settings = Cmd.value]
      BY <1>2 DEF SetSettings
    <2> QED
      BY <1>1, <2>2, <2>3 DEF WorkerOK
  <1>3. CASE Disconnect
    BY <1>1, <1>3 DEF Disconnect, WorkerOK
  <1>4. CASE Connect
    <2>1. Cmd \in Commands /\ Cmd.op = "connect"
      BY <1>4 DEF Types, Connect, Taken, Cmd
    <2>2. Cmd.profile \in SavedProfiles /\ Cmd.pw \in Passwords \cup {NoName}
      BY <2>1 DEF Commands
    <2>3. Cmd.profile.kind \in BackendKind /\ Cmd.profile.e2ee \in BOOLEAN
      BY <2>2, SavedKinds
    <2>4. worker' = [worker EXCEPT !.pc = "dial", !.req = Cmd]
      BY <1>4 DEF Connect
    <2> QED
      BY <1>1, <2>2, <2>3, <2>4 DEF WorkerOK
  <1>5. CASE ServerSilent
    BY <1>1, <1>5 DEF ServerSilent, Goes, WorkerOK
  <1>6. CASE Connecting
    <2>1. NoReq.profile.kind \in BackendKind /\ NoReq.profile.e2ee \in BOOLEAN /\ NoReq.pw = NoName
      BY DEF NoReq, BackendKind
    <2>2. Failed => WorkerOK'
      BY <1>1, <2>1, MadeKeys DEF Failed, Over, WorkerOK
    <2>3. Goes("auth") \/ (\E p \in {kind, "global"} : Anchored(p)) => WorkerOK'
      <3>1. Goes("auth") => WorkerOK'
        BY <1>1 DEF Goes, WorkerOK
      <3>2. ASSUME NEW p \in Places, Anchored(p) PROVE WorkerOK'
        BY <1>1, <3>2 DEF Anchored, WorkerOK
      <3>3. {kind, "global"} \subseteq Places
        BY MadeKeys
      <3> HIDE DEF kind
      <3> QED
        BY <3>1, <3>2, <3>3
    <2>4. ASSUME Create PROVE WorkerOK'
      <3>1. create_vault(worker.req.pw) \in Keys
        BY <1>1 DEF create_vault, Keys, WorkerOK
      <3> QED
        BY <1>1, <2>4, <3>1 DEF Create, WorkerOK
    <2>5. ASSUME NEW k \in Keys, session_made(k) PROVE WorkerOK'
      <3>1. Len(sess') = Len(sess) + 1
        BY <2>5, MadeEffect
      <3> QED
        BY <1>1, <2>1, <2>5, <3>1, MadeKeys DEF session_made, NewSession, Over, WorkerOK
    <2> QED
      BY <1>6, <2>2, <2>3, <2>4, <2>5, ConnectSteps, MadeKeys
  <1>7. CASE UNCHANGED worker
    BY <1>1, <1>7 DEF WorkerOK
  <1> QED
    BY <1>2, <1>3, <1>4, <1>5, <1>6, <1>7, Actions, Frames DEF vars

LEMMA VaultStep == ASSUME Types, [Next]_vars PROVE VaultOK'
  <1>1. VaultOK
    BY DEF Types
  <1>2. CASE vault' # vault /\ (PutVault \/ ServerSilent)
    <2>1. {Torn} \subseteq Keys /\ {worker.key} \subseteq Keys /\ worker.place \in Places
      BY MadeKeys
    <2>2. \E v \in SUBSET Keys : vault' = [vault EXCEPT ![worker.place] = v]
      BY <1>2, <2>1 DEF PutVault, ServerSilent, Stored
    <2> QED
      BY <1>1, <2>1, <2>2 DEF VaultOK
  <1>3. CASE UNCHANGED vault
    BY <1>1, <1>3 DEF VaultOK
  <1>4. Dial \/ Authenticate \/ OpenVault => UNCHANGED vault
    BY DEF Dial, Authenticate, OpenVault
  <1> QED
    BY <1>2, <1>3, <1>4, Actions, Frames DEF vars, Connecting

\* The one event of a step.
LEMMA EvsEffect ==
  ASSUME Types, [Next]_vars
  PROVE  \/ UNCHANGED evs
         \/ EventLoop /\ evs # <<>> /\ evs' = Tail(evs)
         \/ Connecting /\ evs' = Append(evs, [ev |-> "connect_failed"]) /\ Failed
         \/ Connecting /\ evs' = Append(evs, [ev |-> "connected"]) /\ \E k \in Keys : session_made(k)
         \/ \E t \in tasks : ListTask(t) /\ evs' = Append(evs, [ev |-> "listed", n |-> t.cmd.n, sid |-> t.sid,
                                                                prefix |-> t.cmd.prefix])
         \/ ListWork /\ evs' = Append(evs, [ev |-> "list_failed"])
         \/ Working /\ (evs' = Append(evs, Done) \/ evs' = Append(evs, Toast))
  <1>1. CASE EventLoop
    BY <1>1 DEF EventLoop
  <1>2. CASE Connecting
    <2>1. Goes("auth") \/ (\E p \in {kind, "global"} : Anchored(p)) \/ Create => UNCHANGED evs
      BY DEF Goes, Anchored, Create
    <2>2. Failed => evs' = Append(evs, [ev |-> "connect_failed"])
      BY DEF Failed
    <2>3. \A k : session_made(k) => evs' = Append(evs, [ev |-> "connected"])
      BY DEF session_made, NewSession
    <2> QED
      BY <1>2, <2>1, <2>2, <2>3, ConnectSteps, MadeKeys
  <1>3. CASE ListWork
    <2>1. PICK t \in tasks : ListTask(t)
      BY <1>3 DEF ListWork
    <2>2. \/ Reported(t, [ev |-> "listed", n |-> t.cmd.n, sid |-> t.sid, prefix |-> t.cmd.prefix])
          \/ GaveUp(t, [ev |-> "list_failed"])
      BY <2>1 DEF ListTask
    <2>3. GaveUp(t, [ev |-> "list_failed"]) => UNCHANGED evs \/ evs' = Append(evs, [ev |-> "list_failed"])
      BY <2>1 DEF GaveUp, Again, Reported, ListTask
    <2> QED
      BY <1>3, <2>1, <2>2, <2>3 DEF Reported
  <1>4. CASE Working
    <2>1. PICK t \in tasks : Work(t) \/ FlushTask(t)
      BY <1>4 DEF Working
    <2>2. UNCHANGED evs \/ Reported(t, Done) \/ GaveUp(t, Toast)
      BY <2>1, WorkEffect, FlushEffect
    <2>3. GaveUp(t, Toast) => UNCHANGED evs \/ Reported(t, Done) \/ Reported(t, Toast)
      BY DEF GaveUp, Again
    <2> QED
      BY <1>4, <2>2, <2>3 DEF Reported
  <1> QED
    BY <1>1, <1>2, <1>3, <1>4, Actions, Frames DEF vars

LEMMA EvsStep == ASSUME Types, [Next]_vars PROVE (evs \in Seq(Events))'
  <1>1. Len(sess) \in Nat /\ Len(sess') \in Nat /\ Len(sess) <= Len(sess')
    BY SessStep DEF Types, SessOK
  <1>2. Events \subseteq Events'
    BY <1>1 DEF Events
  <1>3. evs \in Seq(Events')
    BY <1>2 DEF Types
  <1>4. \A ev \in {"connected", "connect_failed", "list_failed", "done", "toast"} : [ev |-> ev] \in Events'
    BY DEF Events
  <1>5. ASSUME NEW t \in tasks, ListTask(t)
        PROVE  [ev |-> "listed", n |-> t.cmd.n, sid |-> t.sid, prefix |-> t.cmd.prefix] \in Events
    <2>1. t.cmd \in Commands /\ t.cmd.op = "list" /\ t.sid \in 1 .. Len(sess)
      BY <1>5 DEF Types, TasksOK, ListTask
    <2>2. t.cmd.n \in Nat /\ t.cmd.prefix \in Dirs \cup {Root}
      BY <2>1 DEF Commands
    <2> QED
      BY <2>1, <2>2 DEF Events
  <1>6. ASSUME NEW e \in Events', evs' = Append(evs, e) PROVE evs' \in Seq(Events')
    BY <1>3, <1>6
  <1>7. evs # <<>> /\ evs' = Tail(evs) => evs' \in Seq(Events')
    BY <1>3
  <1>8. Done \in Events' /\ Toast \in Events'
    BY <1>4 DEF Done, Toast
  <1> QED
    BY <1>2, <1>3, <1>4, <1>5, <1>6, <1>7, <1>8, EvsEffect

\* A task that gave up is run once more, or is over.
LEMMA GaveUpEffect ==
  ASSUME Types, NEW t \in tasks, NEW ev, GaveUp(t, ev)
  PROVE  \/ tasks' = tasks \ {t}
         \/ /\ tasks' = (tasks \ {t}) \cup {[t EXCEPT !.pc = "run", !.tried = TRUE]} /\ UNCHANGED evs
            /\ t.cmd.op # "transfer"
  BY DEF GaveUp, Again, Reported

LEMMA TasksStep == ASSUME Types, [Next]_vars PROVE TasksOK'
  <1> DEFINE Task == [cmd : Commands, sid : 1 .. Len(sess), pc : {"run", "flush"}, tried : BOOLEAN]
             IsTask(t) == t \in Task /\ t.cmd.op \in {"list", "edit", "transfer"} /\ (t.cmd.op = "list" => t.pc = "run")
  <1>1. Len(sess) \in Nat /\ Len(sess') \in Nat /\ Len(sess) <= Len(sess')
    BY SessStep DEF Types, SessOK
  <1>2. \A t \in tasks : IsTask(t)
    BY DEF Types, TasksOK
  <1>3. SUFFICES ASSUME NEW t \in tasks' PROVE IsTask(t)
    BY <1>1 DEF TasksOK
  <1>4. CASE Spawned
    <2>1. Cmd \in Commands /\ Cmd.op \in {"list", "edit", "transfer"}
      BY <1>4 DEF Types, Spawned, Taken, Cmd
    <2>2. t \in tasks \/ (worker.session # 0 /\ t = [cmd |-> Cmd, sid |-> worker.session, pc |-> "run", tried |-> FALSE])
      BY <1>4 DEF Spawned
    <2>3. worker.session # 0 => worker.session \in 1 .. Len(sess)
      BY <1>1 DEF Types, WorkerOK
    <2>4. CASE t \in tasks
      BY <1>2, <2>4
    <2>5. CASE worker.session # 0 /\ t = [cmd |-> Cmd, sid |-> worker.session, pc |-> "run", tried |-> FALSE]
      BY <2>1, <2>3, <2>5
    <2> QED
      BY <2>2, <2>4, <2>5
  <1>5. ASSUME NEW u \in tasks, tasks' = (tasks \ {u}) \cup {[u EXCEPT !.pc = "run", !.tried = TRUE]}
        PROVE  IsTask(t)
    BY <1>2, <1>5
  <1>6. ASSUME NEW u \in tasks, u.cmd.op # "list", tasks' = (tasks \ {u}) \cup {[u EXCEPT !.pc = "flush"]}
        PROVE  IsTask(t)
    BY <1>2, <1>6
  <1>7. CASE ListWork
    <2>1. PICK u \in tasks : ListTask(u)
      BY <1>7 DEF ListWork
    <2>2. tasks' = tasks \ {u} \/ \E ev : GaveUp(u, ev)
      BY <2>1 DEF ListTask, Reported
    <2> HIDE DEF IsTask
    <2>3. ASSUME NEW ev, GaveUp(u, ev) PROVE IsTask(t)
      <3>1. tasks' = tasks \ {u} \/ tasks' = (tasks \ {u}) \cup {[u EXCEPT !.pc = "run", !.tried = TRUE]}
        BY <2>3, GaveUpEffect
      <3>2. CASE tasks' = tasks \ {u}
        BY <1>2, <3>2
      <3>3. CASE tasks' = (tasks \ {u}) \cup {[u EXCEPT !.pc = "run", !.tried = TRUE]}
        BY <1>5, <3>3
      <3> QED
        BY <3>1, <3>2, <3>3
    <2> QED
      BY <1>2, <2>2, <2>3
  <1>8. CASE Working
    <2>1. PICK u \in tasks : Work(u) \/ FlushTask(u)
      BY <1>8 DEF Working
    <2>2. \/ tasks' = tasks \ {u} \/ GaveUp(u, Toast)
          \/ u.cmd.op # "list" /\ tasks' = (tasks \ {u}) \cup {[u EXCEPT !.pc = "flush"]}
      <3>1. Work(u) => u.cmd.op # "list"
        BY DEF Work
      <3> QED
        BY <2>1, <3>1, WorkEffect, FlushEffect DEF Reported
    <2> HIDE DEF IsTask
    <2>3. ASSUME GaveUp(u, Toast) PROVE IsTask(t)
      <3>1. tasks' = tasks \ {u} \/ tasks' = (tasks \ {u}) \cup {[u EXCEPT !.pc = "run", !.tried = TRUE]}
        BY <2>3, GaveUpEffect
      <3>2. CASE tasks' = tasks \ {u}
        BY <1>2, <3>2
      <3>3. CASE tasks' = (tasks \ {u}) \cup {[u EXCEPT !.pc = "run", !.tried = TRUE]}
        BY <1>5, <3>3
      <3> QED
        BY <3>1, <3>2, <3>3
    <2> QED
      BY <1>2, <1>6, <2>2, <2>3
  <1>9. CASE UNCHANGED tasks
    BY <1>2, <1>9
  <1> QED
    BY <1>4, <1>7, <1>8, <1>9, Actions, Frames DEF vars

LEMMA LegacyMap ==
  ASSUME NEW n \in Names, NEW e \in Modes
  PROVE  IsMap([m \in {n} |-> [kind |-> "s3", e2ee |-> e]])
  BY DEF IsMap, SavedProfiles

LEMMA NoMap == IsMap(NoProfiles) /\ DOMAIN NoProfiles = {}
  BY DEF IsMap, NoProfiles

\* The first profiles are those of the older version, if it left one.
LEMMA FirstConf ==
  ASSUME NEW l, IsMap(l), NEW ring \in SUBSET DOMAIN l
  PROVE  LET d == load_all([profiles |-> NoProfiles, legacy |-> l, secrets |-> ring])
         IN  IsConf(d) /\ d.profiles = l /\ d.secrets = ring
  <1> DEFINE c == [profiles |-> NoProfiles, legacy |-> l, secrets |-> ring]
             d == [profiles |-> l, legacy |-> NoProfiles, secrets |-> ring]
  <1>1. load_all(c) = d
    <2>1. CASE l = NoProfiles
      BY <2>1 DEF load_all
    <2>2. CASE l # NoProfiles
      BY <2>2 DEF load_all
    <2> QED
      BY <2>1, <2>2
  <1>2. IsConf(d)
    BY DEF IsConf, IsMap
  <1> QED
    BY <1>1, <1>2

LEMMA FirstUi ==
  ASSUME NEW l, IsMap(l), NEW ring \in SUBSET DOMAIN l
  PROVE  LET c == [profiles |-> NoProfiles, legacy |-> l, secrets |-> ring]
         IN  /\ IsUi(NewUi(c)) /\ NewUi(c).rows = load_all(c).profiles
             /\ NewUi(c).page = "connect" /\ NewUi(c).settings = 0 /\ NewUi(c).busy = FALSE
  <1> DEFINE c == [profiles |-> NoProfiles, legacy |-> l, secrets |-> ring]
             u == [page |-> "connect", view |-> "form", busy |-> FALSE, rows |-> NoProfiles, editing |-> NoName,
                   path |-> <<Root>>, pending |-> FALSE, missed |-> FALSE, crossed |-> FALSE, gen |-> 0, shown |-> Cleared,
                   settings |-> 0]
  <1>1. IsUi(u)
    BY NoMap DEF IsUi
  <1>2. NewUi(c) = reset(u, c)
    BY DEF NewUi
  <1>3. IsConf(load_all(c))
    BY FirstConf
  <1>4. load_all(load_all(c)) = load_all(c)
    BY <1>3, LoadAll
  <1>5. reset(u, c) = reset(u, load_all(c))
    BY <1>4 DEF reset, show_start_view, rebuild_profile_rows
  <1> HIDE DEF c
  <1> QED
    BY <1>1, <1>2, <1>3, <1>5, Reset DEF c

LEMMA InitChoice ==
  ASSUME Init
  PROVE  \E l : IsMap(l) /\ \E ring \in SUBSET DOMAIN l :
            LET c == [profiles |-> NoProfiles, legacy |-> l, secrets |-> ring]
            IN  conf = load_all(c) /\ ui = NewUi(c)
  <1> DEFINE n0 == CHOOSE n \in Names : TRUE
             Legacy(e) == [m \in {n0} |-> [kind |-> "s3", e2ee |-> e]]
             Start(l) == \E ring \in SUBSET DOMAIN l :
                            LET c == [profiles |-> NoProfiles, legacy |-> l, secrets |-> ring]
                            IN  conf = load_all(c) /\ ui = NewUi(c)
  <1>1. \E l \in {NoProfiles} \cup {Legacy(e) : e \in Modes} : Start(l)
    BY Zenon DEF Init
  <1>2. n0 \in Names
    BY AppAssumption
  <1> HIDE DEF n0
  <1>3. \A e \in Modes : IsMap(Legacy(e))
    BY <1>2, LegacyMap
  <1> HIDE DEF Legacy, Start
  <1>4. \E l : IsMap(l) /\ Start(l)
    BY <1>1, <1>3, NoMap
  <1> QED
    BY <1>4, Zenon DEF Start

LEMMA InitRest ==
  ASSUME Init
  PROVE  /\ cmds = <<>> /\ evs = <<>> /\ sess = <<>> /\ tasks = {} /\ stray = {} /\ left \in Budgets
         /\ worker = [pc |-> "idle", req |-> NoReq, session |-> 0, settings |-> 0, key |-> Torn, place |-> "s3", salts |-> 0]
         /\ vault = [p \in Places |-> {}]
  BY Zenon DEF Init

LEMMA InitWorker ==
  ASSUME worker = [pc |-> "idle", req |-> NoReq, session |-> 0, settings |-> 0, key |-> Torn, place |-> "s3", salts |-> 0], sess = <<>>
  PROVE  WorkerOK
  <1>1. Torn \in Keys
    BY DEF Torn, Keys
  <1>2. NoReq.pw \in Passwords \cup {NoName} /\ NoReq.profile.kind \in BackendKind /\ NoReq.profile.e2ee \in BOOLEAN
    BY DEF NoReq, BackendKind
  <1>3. "s3" \in Places
    BY DEF Places, BackendKind
  <1> HIDE DEF Torn, NoReq
  <1> QED
    BY <1>1, <1>2, <1>3 DEF WorkerOK

LEMMA TypesInit == Init => Types
  <1> HAVE Init
  <1>1. PICK l : IsMap(l) /\ \E ring \in SUBSET DOMAIN l :
            LET c == [profiles |-> NoProfiles, legacy |-> l, secrets |-> ring]
            IN  conf = load_all(c) /\ ui = NewUi(c)
    BY InitChoice
  <1>2. IsConf(conf) /\ IsUi(ui)
    <2>1. PICK ring \in SUBSET DOMAIN l :
              /\ conf = load_all([profiles |-> NoProfiles, legacy |-> l, secrets |-> ring])
              /\ ui = NewUi([profiles |-> NoProfiles, legacy |-> l, secrets |-> ring])
      BY <1>1
    <2> QED
      BY <1>1, <2>1, FirstConf, FirstUi
  <1>3. WorkerOK
    BY InitRest, InitWorker
  <1>4. LeftOK
    BY InitRest, AppAssumption DEF LeftOK
  <1>5. cmds \in Seq(Commands) /\ evs \in Seq(Events) /\ SessOK /\ TasksOK /\ VaultOK
    BY InitRest DEF SessOK, TasksOK, VaultOK
  <1> QED
    BY <1>2, <1>3, <1>4, <1>5 DEF Types

LEMMA TypesStep == Types /\ [Next]_vars => Types'
  BY ConfStep, UiStep, LeftStep, CmdsStep, EvsStep, WorkerStep, SessStep, TasksStep, VaultStep DEF Types

\* The types of App's variables, for every value of the constants, part by part: they
\* are what every other proof of this module starts from.
THEOREM TypesHold == Spec => []Types
  BY TypesInit, TypesStep, PTL DEF Spec

-----------------------------------------------------------------------------
(* The saved profiles and the keychain.                                      *)

LEMMA ProfilesInit == Init => ProfilesAgree
  <1> HAVE Init
  <1>1. PICK l : IsMap(l) /\ \E ring \in SUBSET DOMAIN l :
            LET c == [profiles |-> NoProfiles, legacy |-> l, secrets |-> ring]
            IN  conf = load_all(c) /\ ui = NewUi(c)
    BY InitChoice
  <1>2. PICK ring \in SUBSET DOMAIN l :
            /\ conf = load_all([profiles |-> NoProfiles, legacy |-> l, secrets |-> ring])
            /\ ui = NewUi([profiles |-> NoProfiles, legacy |-> l, secrets |-> ring])
    BY <1>1
  <1>3. conf.profiles = l /\ conf.secrets = ring
    BY <1>1, <1>2, FirstConf
  <1>4. ui.rows = conf.profiles
    BY <1>1, <1>2, FirstUi
  <1> QED
    BY <1>3, <1>4 DEF ProfilesAgree

\* The rows follow the profiles: on the list they were rebuilt after the last change.
LEMMA RowsStep ==
  ASSUME Types, OnList => ui.rows = conf.profiles, [Next]_vars
  PROVE  (OnList => ui.rows = conf.profiles)'
  <1>1. IsConf(conf) /\ IsUi(ui)
    BY DEF Types
  <1>2. CASE AddClicked \/ Editing
    <2>1. \E n \in Names \cup {NoName} : ui' = fill_form([ui EXCEPT !.view = "form"], n)
      BY <1>2 DEF AddClicked, Editing, EditClicked
    <2> QED
      BY <1>1, <2>1, FillEffect DEF OnList
  <1>3. CASE BackClicked
    BY <1>1, <1>3, StartView, LoadAll DEF BackClicked
  <1>4. CASE DisconnectClicked
    <2>1. IsUi([ui EXCEPT !.page = "connect"])
      BY <1>1 DEF IsUi
    <2> QED
      BY <1>1, <1>4, <2>1, Reset, LoadAll DEF DisconnectClicked
  <1>5. CASE Deletion
    <2>1. PICK n \in Names : confirm_delete(n)
      BY <1>5 DEF Deletion
    <2> DEFINE d == remove(conf, n)
    <2>2. IsConf(d) /\ IsConf([d EXCEPT !.secrets = conf.secrets])
      BY <1>1, RemoveEffect DEF IsConf
    <2>3. conf' \in {load_all(d), load_all([d EXCEPT !.secrets = conf.secrets])} /\ ui' = rebuild_profile_rows(ui, d)
      BY <2>1 DEF confirm_delete
    <2> HIDE DEF d
    <2>4. conf' \in {d, [d EXCEPT !.secrets = conf.secrets]} /\ ui' = [ui EXCEPT !.rows = d.profiles]
      BY <2>2, <2>3, LoadAll DEF rebuild_profile_rows
    <2> QED
      BY <1>1, <2>2, <2>4 DEF IsUi, IsConf
  <1>6. CASE SavedConnect
    <2>1. ui' = set_busy(ui, TRUE) \/ \E n \in Names : ui' = fill_form([ui EXCEPT !.view = "form"], n)
      BY <1>6 DEF SavedConnect, connect_saved, send_connect
    <2>2. ui' = set_busy(ui, TRUE) => ui'.rows = ui.rows /\ ui'.page = ui.page /\ ui'.view = ui.view
      BY <1>1 DEF set_busy, IsUi
    <2>3. UNCHANGED conf
      BY <1>6, Frames
    <2>4. (\E n \in Names : ui' = fill_form([ui EXCEPT !.view = "form"], n)) => ui'.view = "form"
      BY <1>1, FillEffect
    <2> QED
      BY <2>1, <2>2, <2>3, <2>4 DEF OnList
  <1>7. CASE FormConnect
    <2>1. ui.view = "form" /\ ui' = set_busy(ui, TRUE)
      BY <1>7 DEF FormConnect, connect_from_form, send_connect, OnForm
    <2> QED
      BY <1>1, <2>1 DEF set_busy, IsUi, OnList
  <1>8. CASE Listing
    <2>1. ui.page = "browser" /\ \E u : ui' = Requested(u) /\ IsUi(u) /\ u.page = ui.page
      <3>1. CASE \E d \in Dirs : Activated(d)
        <4>1. \A d \in Dirs : LET u == [ui EXCEPT !.path = Append(@, d)] IN IsUi(u) /\ u.page = ui.page
          BY <1>1 DEF IsUi
        <4> QED
          BY <3>1, <4>1 DEF Activated, request_list, InBrowser
      <3>2. CASE \E i \in 1 .. Len(ui.path) : CrumbClicked(i)
        <4>1. \A i \in 1 .. Len(ui.path) : LET u == [ui EXCEPT !.path = SubSeq(@, 1, i)] IN IsUi(u) /\ u.page = ui.page
          BY <1>1 DEF IsUi
        <4> QED
          BY <3>2, <4>1 DEF CrumbClicked, request_list, InBrowser
      <3>3. CASE RefreshClicked
        BY <1>1, <3>3 DEF RefreshClicked, request_list, InBrowser
      <3> QED
        BY <1>8, <3>1, <3>2, <3>3 DEF Listing
    <2> QED
      BY <2>1, RequestedEffect DEF OnList
  <1>9. CASE SettingsSaved
    BY <1>1, <1>9 DEF SettingsSaved, IsUi, OnList
  <1>10. CASE EventLoop
    <2> DEFINE u == reset_to_root([set_busy(ui, FALSE) EXCEPT !.page = "browser"])
               e == Head(evs)
    <2>1. \/ ui' = Requested(u) \/ ui' = connect_failed(ui) \/ ui' = set_listing(ui, e)
          \/ ui' = listing_failed(ui) \/ ui' = Requested(ui) \/ ui' = ui
      <3>1. e \in Events
        BY <1>10 DEF Types, EventLoop
      <3>2. e.ev \in {"connected", "connect_failed", "list_failed", "done", "toast", "listed"}
        BY <3>1 DEF Events
      <3> QED
        BY <1>10, <3>2 DEF EventLoop, request_list
    <2>2. IsUi(u) /\ u.page = "browser"
      BY <1>1 DEF IsUi, reset_to_root, set_busy
    <2> HIDE DEF u, e
    <2>3. CASE ui' = Requested(u)
      BY <2>2, <2>3, RequestedEffect DEF OnList
    <2>4. CASE ui' # Requested(u)
      <3>1. ui'.rows = ui.rows /\ ui'.page = ui.page /\ ui'.view = ui.view
        <4>1. /\ connect_failed(ui).rows = ui.rows /\ connect_failed(ui).page = ui.page
              /\ connect_failed(ui).view = ui.view
          BY <1>1 DEF connect_failed, set_busy, IsUi
        <4>2. /\ listing_failed(ui).rows = ui.rows /\ listing_failed(ui).page = ui.page
              /\ listing_failed(ui).view = ui.view
          BY <1>1 DEF listing_failed, finish_loading, IsUi
        <4>3. /\ set_listing(ui, e).rows = ui.rows /\ set_listing(ui, e).page = ui.page
              /\ set_listing(ui, e).view = ui.view
          BY <1>1 DEF set_listing, finish_loading, IsUi
        <4> QED
          BY <1>1, <2>1, <2>4, <4>1, <4>2, <4>3, RequestedEffect
      <3>2. UNCHANGED conf
        BY <1>10, Frames
      <3> QED
        BY <3>1, <3>2 DEF OnList
    <2> QED
      BY <2>3, <2>4
  <1>11. CASE UNCHANGED <<ui, conf>>
    BY <1>11 DEF OnList
  <1> QED
    BY <1>2, <1>3, <1>4, <1>5, <1>6, <1>7, <1>8, <1>9, <1>10, <1>11, Actions, Frames DEF vars

LEMMA SecretsStep ==
  ASSUME Types, conf.secrets \subseteq DOMAIN conf.profiles \cup stray, [Next]_vars
  PROVE  (conf.secrets \subseteq DOMAIN conf.profiles \cup stray)'
  <1>1. IsConf(conf) /\ IsUi(ui) /\ IsMap(conf.profiles)
    BY DEF Types, IsConf
  <1>2. CASE BackClicked \/ DisconnectClicked
    BY <1>1, <1>2, LoadAll DEF BackClicked, DisconnectClicked
  <1>3. CASE Deletion
    <2>1. PICK n \in Names : confirm_delete(n)
      BY <1>3 DEF Deletion
    <2> DEFINE d == remove(conf, n)
    <2>2. /\ IsConf(d) /\ d.profiles = Without(conf.profiles, n) /\ d.secrets = conf.secrets \ {n}
      BY <1>1, RemoveEffect
    <2>3. DOMAIN d.profiles = DOMAIN conf.profiles \ {n}
      BY <2>2 DEF Without
    <2>4. \/ conf' = load_all(d) /\ UNCHANGED stray
          \/ conf' = load_all([d EXCEPT !.secrets = conf.secrets]) /\ stray' = stray \cup ({n} \cap conf.secrets)
      BY <2>1 DEF confirm_delete
    <2> HIDE DEF d
    <2>5. IsConf([d EXCEPT !.secrets = conf.secrets])
      BY <1>1, <2>2 DEF IsConf
    <2>6. \/ conf' = d /\ UNCHANGED stray
          \/ conf' = [d EXCEPT !.secrets = conf.secrets] /\ stray' = stray \cup ({n} \cap conf.secrets)
      BY <2>2, <2>4, <2>5, LoadAll
    <2> QED
      BY <2>2, <2>3, <2>6 DEF IsConf
  <1>4. CASE FormConnect
    <2>1. PICK n \in Names, pw \in Passwords, p \in Profiles : connect_from_form(n, p, pw)
      BY <1>4 DEF FormConnect
    <2> DEFINE renamed == ui.editing \notin {NoName, n}
               old == IF renamed THEN remove(conf, ui.editing) ELSE conf
               new == upsert(old, n, p)
    <2>2. \/ UNCHANGED <<conf, stray>>
          \/ conf' = store_secret(new, n) /\ stray' = stray \ {n}
          \/ /\ conf' = [new EXCEPT !.secrets = conf.secrets]
             /\ stray' = (stray \cup IF renamed THEN {ui.editing} \cap conf.secrets ELSE {}) \ {n}
      BY <2>1 DEF connect_from_form
    <2>3. /\ IsConf(old)
          /\ DOMAIN old.profiles = (IF renamed THEN DOMAIN conf.profiles \ {ui.editing} ELSE DOMAIN conf.profiles)
          /\ old.secrets = (IF renamed THEN conf.secrets \ {ui.editing} ELSE conf.secrets)
      <3>1. CASE renamed
        <4>1. ui.editing \in Names
          BY <1>1, <3>1 DEF IsUi
        <4>2. LET d == remove(conf, ui.editing)
              IN  IsConf(d) /\ d.profiles = Without(conf.profiles, ui.editing) /\ d.secrets = conf.secrets \ {ui.editing}
          BY <1>1, <4>1, RemoveEffect
        <4>3. DOMAIN Without(conf.profiles, ui.editing) = DOMAIN conf.profiles \ {ui.editing}
          BY DEF Without
        <4> QED
          BY <3>1, <4>2, <4>3
      <3>2. CASE ~renamed
        BY <1>1, <3>2
      <3> QED
        BY <3>1, <3>2
    <2>4. p \in SavedProfiles
      BY DEF SavedProfiles
    <2> HIDE DEF old
    <2>5. IsConf(new) /\ new.profiles = With(old.profiles, n, p) /\ new.secrets = old.secrets
      BY <2>3, <2>4, UpsertEffect
    <2>6. DOMAIN new.profiles = DOMAIN old.profiles \cup {n}
      BY <2>5 DEF With
    <2> HIDE DEF new, renamed
    <2>7. CASE conf' = store_secret(new, n) /\ stray' = stray \ {n}
      <3>1. conf'.profiles = new.profiles /\ conf'.secrets = new.secrets \cup {n}
        BY <2>5, <2>7 DEF store_secret, IsConf
      <3> QED
        BY <2>3, <2>5, <2>6, <2>7, <3>1
    <2>8. CASE /\ conf' = [new EXCEPT !.secrets = conf.secrets]
               /\ stray' = (stray \cup IF renamed THEN {ui.editing} \cap conf.secrets ELSE {}) \ {n}
      <3>1. conf'.profiles = new.profiles /\ conf'.secrets = conf.secrets
        BY <2>5, <2>8 DEF IsConf
      <3> QED
        BY <2>3, <2>5, <2>6, <2>8, <3>1
    <2> QED
      BY <2>2, <2>7, <2>8
  <1>5. CASE UNCHANGED <<conf, stray>>
    BY <1>5
  <1>6. BackClicked \/ DisconnectClicked => UNCHANGED stray
    BY DEF BackClicked, DisconnectClicked
  <1> QED
    BY <1>2, <1>3, <1>4, <1>5, <1>6, Actions, Frames DEF vars

\* Whatever is added, renamed, edited and deleted in whatever order, and however often
\* the keychain refuses: the rows of the list are the saved profiles, and every secret
\* in the keychain is of a saved profile or is one whose deletion failed.
THEOREM ProfilesAlwaysAgree == Spec => []ProfilesAgree
  <1>1. Types /\ ProfilesAgree /\ [Next]_vars => ProfilesAgree'
    BY RowsStep, SecretsStep DEF ProfilesAgree
  <1> QED
    BY <1>1, ProfilesInit, TypesHold, PTL DEF Spec

-----------------------------------------------------------------------------
(* The vault.                                                                *)

\* A place has one vault; one is only created for an encrypted connection that found none
\* there, and no other connection is at work between the look and the put.
VaultInv == /\ worker.pc \in {"vault", "put"} => worker.req.profile.e2ee
            /\ worker.pc = "put" => vault[worker.place] = {}
            /\ \A k \in Places : \A v, w \in vault[k] : v = w
            /\ VaultKept

\* Outside connect nothing of this changes.
LEMMA VaultFrame ==
  ASSUME Types, [Next]_vars, ~Connecting, ~ServerSilent
  PROVE  /\ UNCHANGED vault /\ Len(sess') = Len(sess)
         /\ worker'.pc = "dial" \/ (worker'.pc = worker.pc /\ worker'.req = worker.req /\ worker'.place = worker.place)
  <1>1. sess \in Seq(Sessions) /\ worker.session \in 0 .. Len(sess) /\ WorkerOK
    BY DEF Types, SessOK, WorkerOK
  <1>2. Len(sess') = Len(sess)
    <2>1. CASE SetSettings /\ worker.session # 0
      BY <1>1, <2>1, RatesEffect, Touched
    <2>2. SetSettings /\ worker.session = 0 => UNCHANGED sess
      BY DEF SetSettings
    <2>3. CASE Disconnect
      BY <1>1, <2>3, CancelledEffect DEF Disconnect
    <2>4. CASE Working
      <3>1. PICK t \in tasks : Work(t) \/ FlushTask(t)
        BY <2>4 DEF Working
      <3>2. t.sid \in 1 .. Len(sess) /\ \E x \in Sessions : sess' = [sess EXCEPT ![t.sid] = x]
        BY <3>1, WorkEffect, FlushEffect DEF Types, TasksOK
      <3> QED
        BY <1>1, <3>2, Touched
    <2>5. CASE Timers
      BY <1>1, <2>5, TimerEffect, Touched
    <2> QED
      BY <2>1, <2>2, <2>3, <2>4, <2>5, Actions, Frames DEF vars
  <1>3. SetSettings \/ Disconnect => worker'.pc = worker.pc /\ worker'.req = worker.req /\ worker'.place = worker.place
    BY <1>1 DEF SetSettings, Disconnect, WorkerOK
  <1>4. Connect => worker'.pc = "dial"
    BY <1>1 DEF Connect, WorkerOK
  <1>5. UNCHANGED vault
    BY Actions, Frames DEF vars
  <1> QED
    BY <1>2, <1>3, <1>4, <1>5, Actions, Frames DEF vars

\* The put of a vault, whatever comes of it, leaves at most one.
LEMMA PutEffect ==
  ASSUME Types, VaultInv, PutVault \/ ServerSilent
  PROVE  \E x : vault' = [vault EXCEPT ![worker.place] = x] /\ \A v, w \in x : v = w
  <1>1. \A v, w \in vault[worker.place] : v = w
    BY MadeKeys DEF VaultInv
  <1>2. \E x \in {vault[worker.place], {worker.key}, {Torn}} : vault' = [vault EXCEPT ![worker.place] = x]
    <2>1. vault = [vault EXCEPT ![worker.place] = vault[worker.place]]
      BY MadeKeys DEF Types, VaultOK
    <2>2. vault' = vault \/ \E v \in {worker.key, Torn} : vault' = [vault EXCEPT ![worker.place] = {v}]
      BY DEF PutVault, ServerSilent, Stored
    <2> QED
      BY <2>1, <2>2
  <1>3. \A x \in {vault[worker.place], {worker.key}, {Torn}} : \A v, w \in x : v = w
    BY <1>1
  <1> QED
    BY <1>2, <1>3, Zenon

LEMMA VaultInvStep == Types /\ VaultInv /\ [Next]_vars => VaultInv'
  <1> SUFFICES ASSUME Types, VaultInv, [Next]_vars PROVE VaultInv'
    OBVIOUS
  <1>1. /\ sess \in Seq(Sessions) /\ Len(sess) \in Nat /\ WorkerOK /\ worker.place \in Places
        /\ vault \in [Places -> SUBSET Keys]
        /\ \A i \in 1 .. Len(sess) : Same(sess'[i], sess[i]) /\ sess[i].place \in Places
    <2>1. sess \in Seq(Sessions) /\ WorkerOK /\ vault \in [Places -> SUBSET Keys]
      BY DEF Types, SessOK, VaultOK
    <2>2. \A i \in 1 .. Len(sess) : sess[i].place \in Places
      <3>1. \A i \in 1 .. Len(sess) : sess[i] \in Sessions
        BY <2>1
      <3>2. \A x \in Sessions : x.place \in Places
        BY DEF Sessions
      <3> QED
        BY <3>1, <3>2
    <2> QED
      BY <2>1, <2>2, SessStep, MadeKeys
  <1>2. CASE ~Connecting /\ ~ServerSilent
    <2>1. /\ UNCHANGED vault /\ Len(sess') = Len(sess)
          /\ worker'.pc = "dial" \/ (worker'.pc = worker.pc /\ worker'.req = worker.req /\ worker'.place = worker.place)
      BY <1>2, VaultFrame
    <2>2. VaultKept'
      BY <1>1, <2>1 DEF VaultInv, VaultKept, Same
    <2> QED
      BY <2>1, <2>2 DEF VaultInv, kind
  <1>3. CASE Connecting /\ UNCHANGED <<vault, sess>>
    <2>1. CASE Failed
      <3>1. worker'.pc = "idle"
        BY <1>1, <2>1 DEF Failed, Over, WorkerOK
      <3> QED
        BY <1>3, <3>1 DEF VaultInv, VaultKept
    <2>2. CASE Goes("auth")
      <3>1. worker'.pc = "auth"
        BY <1>1, <2>2 DEF Goes, WorkerOK
      <3> QED
        BY <1>3, <3>1 DEF VaultInv, VaultKept
    <2>3. CASE worker.req.profile.e2ee /\ \E p \in {kind, "global"} : Anchored(p)
      <3>1. worker'.pc = "vault" /\ worker'.req = worker.req
        BY <1>1, <2>3 DEF Anchored, WorkerOK
      <3> QED
        BY <1>3, <2>3, <3>1 DEF VaultInv, VaultKept
    <2>4. CASE worker.pc = "vault" /\ vault[worker.place] = {} /\ Create
      <3>1. worker'.pc = "put" /\ worker'.req = worker.req /\ worker'.place = worker.place
        BY <1>1, <2>4 DEF Create, WorkerOK
      <3> QED
        BY <1>3, <2>4, <3>1 DEF VaultInv, VaultKept, kind
    <2>5. \A k \in Keys : session_made(k) => Len(sess') = Len(sess) + 1
      BY MadeEffect
    <2> QED
      BY <1>1, <1>3, <2>1, <2>2, <2>3, <2>4, <2>5, ConnectSteps, MadeKeys
  <1>4. ASSUME NEW k \in Keys, session_made(k), worker.req.profile.e2ee => vault'[worker.place] = {k},
               \A i \in 1 .. Len(sess) : sess[i].e2ee => vault'[sess[i].place] = {sess[i].key},
               \A j \in Places : \A v, w \in vault'[j] : v = w
        PROVE  VaultInv'
    <2>1. /\ Len(sess') = Len(sess) + 1
          /\ LET new == sess'[Len(sess) + 1] IN new.key = k /\ new.place = worker.place /\ new.e2ee = worker.req.profile.e2ee
      BY <1>4, MadeEffect
    <2>2. worker'.pc = "idle"
      BY <1>1, <1>4 DEF session_made, NewSession, Over, WorkerOK
    <2>3. ASSUME NEW i \in 1 .. Len(sess'), sess'[i].e2ee PROVE vault'[sess'[i].place] = {sess'[i].key}
      <3>1. CASE i = Len(sess) + 1
        BY <1>4, <2>1, <2>3, <3>1
      <3>2. CASE i \in 1 .. Len(sess)
        BY <1>1, <1>4, <2>3, <3>2 DEF Same
      <3> QED
        BY <1>1, <2>1, <3>1, <3>2
    <2> QED
      BY <1>4, <2>2, <2>3 DEF VaultInv, VaultKept
  <1>5. CASE Connecting /\ worker.pc # "put" /\ \E k \in Keys : session_made(k)
    <2>1. UNCHANGED vault
      BY <1>5 DEF Connecting, Dial, Authenticate, OpenVault, PutVault
    <2>2. \E k \in Keys : session_made(k) /\ (worker.req.profile.e2ee => k \in vault[worker.place])
      <3>1. \/ UNCHANGED sess
            \/ ~worker.req.profile.e2ee /\ session_made(Torn)
            \/ \E v \in vault[worker.place] : session_made(v)
        <4>1. Failed \/ Goes("auth") \/ (\E p \in {kind, "global"} : Anchored(p)) \/ Create => UNCHANGED sess
          BY DEF Failed, Goes, Anchored, Create
        <4> QED
          BY <1>5, <4>1, ConnectSteps
      <3>2. \A k \in Keys : session_made(k) => Len(sess') = Len(sess) + 1
        BY MadeEffect
      <3> QED
        BY <1>1, <1>5, <3>1, <3>2, MadeKeys
    <2>3. PICK k \in Keys : session_made(k) /\ (worker.req.profile.e2ee => k \in vault[worker.place])
      BY <2>2
    <2>4. worker.req.profile.e2ee => vault[worker.place] = {k}
      BY <1>1, <2>3 DEF VaultInv
    <2>5. /\ \A i \in 1 .. Len(sess) : sess[i].e2ee => vault[sess[i].place] = {sess[i].key}
          /\ \A j \in Places : \A v, w \in vault[j] : v = w
      BY DEF VaultInv, VaultKept
    <2> QED
      BY <1>4, <2>1, <2>3, <2>4, <2>5
  <1>6. CASE (Connecting \/ ServerSilent) /\ worker.pc = "put"
    <2>1. (PutVault \/ ServerSilent) /\ vault[worker.place] = {}
      BY <1>6 DEF Connecting, Dial, Authenticate, OpenVault, VaultInv
    <2>2. PICK x : vault' = [vault EXCEPT ![worker.place] = x] /\ \A v, w \in x : v = w
      BY <2>1, PutEffect
    <2>3. \A j \in Places : vault'[j] = IF j = worker.place THEN x ELSE vault[j]
      BY <1>1, <2>2
    <2>4. \A j \in Places : \A v, w \in vault'[j] : v = w
      BY <2>2, <2>3 DEF VaultInv
    <2>5. \A i \in 1 .. Len(sess) : sess[i].e2ee => vault'[sess[i].place] = {sess[i].key}
      BY <1>1, <2>1, <2>3 DEF VaultInv, VaultKept
    <2>6. CASE session_made(worker.key) /\ vault' = [vault EXCEPT ![worker.place] = {worker.key}]
      <3>1. vault'[worker.place] = {worker.key} /\ worker.key \in Keys
        BY <1>1, <2>6 DEF WorkerOK
      <3> QED
        BY <1>4, <2>4, <2>5, <2>6, <3>1
    <2>7. CASE Failed
      <3>1. worker'.pc = "idle" /\ UNCHANGED sess
        BY <1>1, <2>7 DEF Failed, Over, WorkerOK
      <3> QED
        BY <2>4, <2>5, <3>1 DEF VaultInv, VaultKept
    <2>8. CASE ServerSilent
      <3>1. worker'.pc = "hung" /\ UNCHANGED sess
        BY <1>1, <2>8 DEF ServerSilent, Goes, WorkerOK
      <3> QED
        BY <2>4, <2>5, <3>1 DEF VaultInv, VaultKept
    <2> QED
      BY <2>1, <2>6, <2>7, <2>8 DEF PutVault
  <1>7. Connecting /\ worker.pc # "put" => UNCHANGED vault
    BY DEF Connecting, Dial, Authenticate, OpenVault, PutVault
  <1>8. CASE ServerSilent /\ worker.pc # "put"
    <2>1. worker'.pc = "hung" /\ UNCHANGED <<vault, sess>>
      BY <1>1, <1>8 DEF ServerSilent, Goes, WorkerOK
    <2> QED
      BY <2>1 DEF VaultInv, VaultKept
  <1> QED
    BY <1>2, <1>3, <1>5, <1>6, <1>7, <1>8, MadeKeys

\* For every sequence of connections to every storage, with any passwords, wrong ones
\* too, and with any failures and silences of the vault's get and put: the key a session
\* was opened with stays the one in the vault of the place it found it in (get_vault,
\* vault_dir), so no later connection that looks there locks its files out.  An SSH server
\* has two places, the account's home directory and, when the home cannot be found out,
\* the global one; a connection that looks in the other one finds another vault.
THEOREM VaultAlwaysKept == Spec => []VaultKept
  <1>1. Init => VaultInv
    <2> HAVE Init
    <2>1. sess = <<>> /\ worker.pc = "idle" /\ \A k \in Places : vault[k] = {}
      BY InitRest
    <2> QED
      BY <2>1 DEF VaultInv, VaultKept
  <1>2. VaultInv => VaultKept
    BY DEF VaultInv
  <1> QED
    BY <1>1, <1>2, VaultInvStep, TypesHold, PTL DEF Spec

-----------------------------------------------------------------------------
(* The edits of the manifests.                                               *)

\* A session without a timer that is dirty has a command that will save it, or the last
\* to try has failed.
Tended(i) == /\ sess[i].timer = "live" => i = worker.session
             /\ sess[i].timer = "gone" /\ sess[i].dirty /\ ~sess[i].lost =>
                    \E t \in tasks : t.sid = i /\ t.cmd.op # "list"
TendedInv == \A i \in 1 .. Len(sess) : Tended(i)

\* A step of a command leaves the other commands alone.
LEMMA OthersStay ==
  ASSUME Types, NEW t \in tasks, Work(t) \/ FlushTask(t) \/ ListTask(t)
  PROVE  \A u \in tasks \ {t} : u \in tasks'
  <1>1. \A ev : GaveUp(t, ev) => \A u \in tasks \ {t} : u \in tasks'
    BY DEF GaveUp, Again, Reported
  <1>2. \A ev : Reported(t, ev) => \A u \in tasks \ {t} : u \in tasks'
    BY DEF Reported
  <1>3. CASE ListTask(t)
    BY <1>1, <1>2, <1>3 DEF ListTask
  <1>4. CASE Work(t)
    BY <1>1, <1>2, <1>4, WorkEffect
  <1>5. CASE FlushTask(t)
    BY <1>1, <1>2, <1>5, FlushEffect
  <1> QED
    BY <1>3, <1>4, <1>5

LEMMA TendedByTask ==
  ASSUME Types, TendedInv, NEW t \in tasks, Work(t) \/ FlushTask(t), UNCHANGED worker
  PROVE  TendedInv'
  <1>1. sess \in Seq(Sessions) /\ t.sid \in 1 .. Len(sess)
    BY DEF Types, SessOK, TasksOK
  <1>2. PICK x \in Sessions :
          /\ sess' = [sess EXCEPT ![t.sid] = x] /\ x.timer = sess[t.sid].timer
          /\ \/ ~x.dirty \/ ~(x.timer = "gone") \/ x.lost
             \/ Work(t) /\ tasks' = (tasks \ {t}) \cup {[t EXCEPT !.pc = "flush"]}
    <2>1. CASE Work(t)
      <3>1. PICK x \in Sessions :
              /\ sess' = [sess EXCEPT ![t.sid] = x] /\ x.timer = sess[t.sid].timer /\ (x.dirty => x.e2ee)
              /\ \/ tasks' = (tasks \ {t}) \cup {[t EXCEPT !.pc = "flush"]}
                 \/ ~x.e2ee
                 \/ x.lost = (sess[t.sid].lost \/ (x.timer = "gone" /\ x.dirty))
        BY <2>1, WorkEffect
      <3>2. x.lost = (sess[t.sid].lost \/ (x.timer = "gone" /\ x.dirty)) => ~x.dirty \/ ~(x.timer = "gone") \/ x.lost
        OBVIOUS
      <3> QED
        BY <2>1, <3>1, <3>2
    <2>2. CASE FlushTask(t)
      <3>1. PICK x \in Sessions :
              /\ sess' = [sess EXCEPT ![t.sid] = x] /\ x.timer = sess[t.sid].timer
              /\ ~x.dirty \/ x.lost = (sess[t.sid].lost \/ (x.timer = "gone" /\ x.dirty))
        BY <2>2, FlushEffect
      <3>2. x.lost = (sess[t.sid].lost \/ (x.timer = "gone" /\ x.dirty)) => ~x.dirty \/ ~(x.timer = "gone") \/ x.lost
        OBVIOUS
      <3> QED
        BY <3>1, <3>2
    <2> QED
      BY <2>1, <2>2
  <1>3. /\ Len(sess') = Len(sess)
        /\ \A j \in 1 .. Len(sess) : sess'[j] = IF j = t.sid THEN x ELSE sess[j]
    BY <1>1, <1>2, Touched
  <1>4. SUFFICES ASSUME NEW i \in 1 .. Len(sess) PROVE Tended(i)'
    BY <1>3 DEF TendedInv
  <1>5. Tended(i)
    BY DEF TendedInv
  <1>6. CASE i = t.sid
    <2>1. sess'[i] = x /\ (x.timer = "live" => i = worker'.session)
      BY <1>2, <1>3, <1>5, <1>6 DEF Tended
    <2>2. Work(t) /\ tasks' = (tasks \ {t}) \cup {[t EXCEPT !.pc = "flush"]} =>
             \E u \in tasks' : u.sid = i /\ u.cmd.op # "list"
      <3>1. Work(t) => [t EXCEPT !.pc = "flush"].sid = i /\ [t EXCEPT !.pc = "flush"].cmd.op # "list"
        BY <1>6 DEF Work, Types, TasksOK
      <3> QED
        BY <3>1
    <2> QED
      BY <1>2, <2>1, <2>2 DEF Tended
  <1>7. CASE i # t.sid
    <2>1. sess'[i] = sess[i]
      BY <1>3, <1>7
    <2>2. ASSUME NEW u \in tasks, u.sid = i PROVE u \in tasks'
      BY <1>7, <2>2, OthersStay
    <2> QED
      BY <1>5, <2>1, <2>2 DEF Tended
  <1> QED
    BY <1>6, <1>7

LEMMA TendedStep == Types /\ TendedInv /\ [Next]_vars => TendedInv'
  <1> SUFFICES ASSUME Types, TendedInv, [Next]_vars PROVE TendedInv'
    OBVIOUS
  <1>1. sess \in Seq(Sessions) /\ Len(sess) \in Nat /\ worker.session \in 0 .. Len(sess) /\ WorkerOK
    BY DEF Types, SessOK, WorkerOK
  <1>2. CASE SetSettings
    <2>1. UNCHANGED tasks /\ worker'.session = worker.session
      BY <1>1, <1>2, Frames DEF SetSettings, WorkerOK
    <2>2. CASE worker.session = 0
      <3>1. UNCHANGED sess
        BY <1>2, <2>2 DEF SetSettings
      <3> QED
        BY <2>1, <3>1 DEF TendedInv, Tended
    <2>3. CASE worker.session # 0
      <3>1. worker.session \in 1 .. Len(sess)
        BY <1>1, <2>3
      <3>2. PICK x \in Sessions :
              /\ sess' = [sess EXCEPT ![worker.session] = x]
              /\ x.timer = sess[worker.session].timer /\ x.dirty = sess[worker.session].dirty
              /\ x.lost = sess[worker.session].lost
        BY <1>2, <2>3, RatesEffect
      <3>3. Len(sess') = Len(sess) /\ \A i \in 1 .. Len(sess) : /\ sess'[i].timer = sess[i].timer
                                                                /\ sess'[i].dirty = sess[i].dirty
                                                                /\ sess'[i].lost = sess[i].lost
        BY <1>1, <3>1, <3>2, Touched
      <3> QED
        BY <2>1, <3>3 DEF TendedInv, Tended
    <2> QED
      BY <2>2, <2>3
  <1> DEFINE old == Cancelled(sess, worker.session)
  <1>3. /\ Len(old) = Len(sess)
        /\ \A i \in 1 .. Len(sess) : /\ old[i].dirty = sess[i].dirty /\ old[i].lost = sess[i].lost
                                     /\ old[i].timer # "live" /\ (old[i].timer = "gone" => sess[i].timer = "gone")
    <2>1. /\ Len(old) = Len(sess)
          /\ \A i \in 1 .. Len(sess) :
               /\ old[i].dirty = sess[i].dirty /\ old[i].lost = sess[i].lost
               /\ old[i].timer = IF i = worker.session /\ sess[i].timer # "gone" THEN "stopping" ELSE sess[i].timer
      BY <1>1, CancelledEffect
    <2>2. \A i \in 1 .. Len(sess) : sess[i].timer = "live" => i = worker.session
      BY DEF TendedInv, Tended
    <2> HIDE DEF old
    <2> QED
      BY <2>1, <2>2
  <1>4. CASE Disconnect
    <2>1. sess' = old /\ UNCHANGED tasks
      BY <1>4 DEF Disconnect
    <2> HIDE DEF old
    <2> QED
      BY <1>3, <2>1 DEF TendedInv, Tended
  <1>5. ASSUME NEW k \in Keys, session_made(k) PROVE TendedInv'
    <2>1. /\ Len(sess') = Len(sess) + 1 /\ \A i \in 1 .. Len(sess) : sess'[i] = old[i]
          /\ ~sess'[Len(sess) + 1].dirty
      BY <1>5, MadeEffect
    <2>2. worker'.session = Len(sess) + 1 /\ UNCHANGED tasks
      BY <1>1, <1>5 DEF session_made, NewSession, Over, WorkerOK
    <2> HIDE DEF old
    <2>3. ASSUME NEW i \in 1 .. Len(sess') PROVE Tended(i)'
      <3>1. CASE i = Len(sess) + 1
        BY <2>1, <2>2, <3>1 DEF Tended
      <3>2. CASE i \in 1 .. Len(sess)
        BY <1>3, <2>1, <2>2, <3>2 DEF TendedInv, Tended
      <3> QED
        BY <1>1, <2>1, <3>1, <3>2
    <2> QED
      BY <2>3 DEF TendedInv
  <1>6. CASE Connecting /\ UNCHANGED sess
    <2>1. \A k \in Keys : session_made(k) => Len(sess') = Len(sess) + 1
      BY MadeEffect
    <2>2. Failed \/ Goes("auth") \/ (\E p \in {kind, "global"} : Anchored(p)) \/ Create
      BY <1>1, <1>6, <2>1, ConnectSteps, MadeKeys
    <2>3. worker'.session = worker.session /\ UNCHANGED tasks
      BY <1>1, <1>6, <2>2, Frames DEF Failed, Over, Goes, Anchored, Create, WorkerOK
    <2> QED
      BY <1>6, <2>3 DEF TendedInv, Tended
  <1>7. CASE Connect \/ ServerSilent
    <2>1. worker'.session = worker.session /\ UNCHANGED <<sess, tasks>>
      BY <1>1, <1>7, Frames DEF Connect, ServerSilent, Goes, WorkerOK
    <2> QED
      BY <2>1 DEF TendedInv, Tended
  <1>8. CASE Spawned
    <2>1. tasks \subseteq tasks' /\ UNCHANGED <<worker, sess>>
      BY <1>8 DEF Spawned
    <2> QED
      BY <2>1 DEF TendedInv, Tended
  <1>9. CASE ListWork
    <2>1. PICK t \in tasks : ListTask(t)
      BY <1>9 DEF ListWork
    <2>2. t.cmd.op = "list" /\ UNCHANGED <<worker, sess>>
      BY <2>1 DEF ListTask
    <2>3. \A u \in tasks : u.cmd.op # "list" => u \in tasks'
      BY <2>1, <2>2, OthersStay
    <2> QED
      BY <2>2, <2>3 DEF TendedInv, Tended
  <1>10. CASE Working
    BY <1>10, TendedByTask, Frames DEF Working
  <1>11. CASE Timers
    <2>1. PICK j \in 1 .. Len(sess) : \E x \in Sessions :
            /\ sess' = [sess EXCEPT ![j] = x] /\ x.timer \in {sess[j].timer, "gone"} /\ (~x.dirty \/ x.lost)
      BY <1>11, TimerEffect
    <2>2. PICK x \in Sessions :
            /\ sess' = [sess EXCEPT ![j] = x] /\ x.timer \in {sess[j].timer, "gone"} /\ (~x.dirty \/ x.lost)
      BY <2>1
    <2>3. Len(sess') = Len(sess) /\ \A i \in 1 .. Len(sess) : sess'[i] = IF i = j THEN x ELSE sess[i]
      BY <1>1, <2>2, Touched
    <2>4. UNCHANGED <<worker, tasks>>
      BY <1>11, Frames
    <2>5. ASSUME NEW i \in 1 .. Len(sess) PROVE Tended(i)'
      <3>1. Tended(i)
        BY DEF TendedInv
      <3>2. CASE i = j
        BY <2>2, <2>3, <2>4, <3>1, <3>2 DEF Tended
      <3>3. CASE i # j
        BY <2>3, <2>4, <3>1, <3>3 DEF Tended
      <3> QED
        BY <3>2, <3>3
    <2> QED
      BY <2>3, <2>5 DEF TendedInv
  <1>12. CASE UNCHANGED <<worker, sess, tasks>>
    BY <1>12 DEF TendedInv, Tended
  <1> QED
    BY <1>2, <1>4, <1>5, <1>6, <1>7, <1>8, <1>9, <1>10, <1>11, <1>12, MadeKeys, Actions, Frames DEF vars

\* However commands, flush timers, disconnects and reconnects interleave, and whatever
\* fails: only the session in use has a running timer, and once the commands of a session
\* without one are through, its manifests are saved or the last attempt was refused.
THEOREM EditsAlwaysSaved == Spec => []EditsSaved
  <1>1. Init => TendedInv
    <2> HAVE Init
    <2>1. sess = <<>>
      BY InitRest
    <2> QED
      BY <2>1 DEF TendedInv
  <1>2. TendedInv => EditsSaved
    BY DEF TendedInv, Tended, EditsSaved
  <1> QED
    BY <1>1, <1>2, TendedStep, TypesHold, PTL DEF Spec

-----------------------------------------------------------------------------
(* The two channels.                                                         *)

Queued(op) == \E i \in 1 .. Len(cmds) : cmds[i].op = op
Told(ev) == \E i \in 1 .. Len(evs) : evs[i].ev = ev
Answer(e) == e.ev \in {"connected", "connect_failed"}
Sends(c) == c \in Commands /\ cmds' = Append(cmds, c)
SamePage == ui'.page = ui.page /\ ui'.busy = ui.busy /\ ui'.settings = ui.settings
SameList == /\ ui'.path = ui.path /\ ui'.pending = ui.pending /\ ui'.missed = ui.missed /\ ui'.shown = ui.shown
            /\ ui'.gen = ui.gen /\ ui'.crossed = ui.crossed
Asking(c) == c.n = ui'.gen /\ ui'.pending /\ (ui'.crossed <=> ListingUnderWay)

LEMMA Appended ==
  ASSUME NEW S, NEW s \in Seq(S), NEW e \in S
  PROVE  /\ Len(Append(s, e)) = Len(s) + 1 /\ Len(s) \in Nat /\ Append(s, e)[Len(s) + 1] = e
         /\ \A i \in 1 .. Len(s) : Append(s, e)[i] = s[i]
  OBVIOUS

LEMMA Removed ==
  ASSUME NEW S, NEW s \in Seq(S), s # <<>>
  PROVE  /\ Len(Tail(s)) = Len(s) - 1 /\ Len(s) \in Nat \ {0} /\ Head(s) = s[1] /\ Head(s) \in S
         /\ \A i \in 1 .. Len(s) - 1 : Tail(s)[i] = s[i + 1]
  OBVIOUS

\* What a click comes to for the page and the commands.
LEMMA Clicks ==
  ASSUME Types,
         AddClicked \/ BackClicked \/ Editing \/ Deletion \/ SavedConnect \/ FormConnect
            \/ Listing \/ DisconnectClicked \/ SettingsSaved \/ Order
  PROVE  /\ UNCHANGED <<evs, worker, sess, tasks>>
         /\ \/ SamePage /\ SameList /\ UNCHANGED cmds
            \/ /\ ui.page = "connect" /\ ~ui.busy /\ ui'.busy /\ ui'.page = "connect" /\ ui'.settings = ui.settings
               /\ \E c : Sends(c) /\ c.op = "connect"
            \/ /\ ui.page = "browser" /\ SamePage
               /\ \E c : Sends(c) /\ c.op = "list" /\ c.prefix = current_prefix(ui') /\ Asking(c)
            \/ /\ ui.page = "browser" /\ ui'.page = "connect" /\ ui'.busy = ui.busy /\ ui'.settings = ui.settings
               /\ Sends([op |-> "disconnect"])
            \/ /\ ui'.page = ui.page /\ ui'.busy = ui.busy /\ SameList
               /\ \E c : Sends(c) /\ c.op = "settings" /\ c.value = ui'.settings
            \/ /\ SamePage /\ SameList
               /\ \E c : Sends(c) /\ c.op \in {"edit", "transfer"}
  <1>1. IsConf(conf) /\ IsUi(ui) /\ cmds \in Seq(Commands) /\ LeftOK
    BY DEF Types
  <1>2. UNCHANGED <<evs, worker, sess, tasks>>
    BY Frames
  <1>3. CASE AddClicked \/ Editing
    <2>1. \E n \in Names \cup {NoName} : ui' = fill_form([ui EXCEPT !.view = "form"], n)
      BY <1>3 DEF AddClicked, Editing, EditClicked
    <2>2. SamePage /\ SameList
      BY <1>1, <2>1, FillEffect DEF SamePage, SameList
    <2>3. UNCHANGED cmds
      BY <1>3, Frames
    <2> QED
      BY <1>2, <2>2, <2>3
  <1>4. CASE BackClicked
    <2>1. SamePage /\ SameList
      BY <1>1, <1>4, StartView DEF BackClicked, SamePage, SameList
    <2>2. UNCHANGED cmds
      BY <1>4, Frames
    <2> QED
      BY <1>2, <2>1, <2>2
  <1>5. CASE Deletion
    <2>1. \E r : ui' = [ui EXCEPT !.rows = r]
      BY <1>5 DEF Deletion, confirm_delete, rebuild_profile_rows
    <2>2. SamePage /\ SameList
      BY <1>1, <2>1 DEF SamePage, SameList, IsUi
    <2>3. UNCHANGED cmds
      BY <1>5, Frames
    <2> QED
      BY <1>2, <2>2, <2>3
  <1>6. CASE ui.page = "connect" /\ ~ui.busy /\ ui' = set_busy(ui, TRUE) /\ \E c : Sends(c) /\ c.op = "connect"
    BY <1>1, <1>2, <1>6 DEF set_busy, IsUi
  <1>7. CASE SavedConnect
    <2>1. PICK n \in Names, pw \in Passwords : connect_saved(n, pw)
      BY <1>7 DEF SavedConnect
    <2> DEFINE c == [op |-> "connect", profile |-> ui.rows[n], pw |-> IF ui.rows[n].e2ee THEN pw ELSE NoName]
    <2>2. \/ ui' = set_busy(ui, TRUE) /\ cmds' = Append(cmds, c)
          \/ ui' = fill_form([ui EXCEPT !.view = "form"], n) /\ UNCHANGED cmds
      BY <2>1 DEF connect_saved, send_connect
    <2>3. ui.rows[n] \in SavedProfiles /\ ui.page = "connect" /\ ~ui.busy
      BY <1>1, <2>1 DEF connect_saved, IsUi, IsMap, OnList
    <2>4. c \in Commands /\ c.op = "connect"
      BY <2>3 DEF Commands
    <2> HIDE DEF c
    <2>5. CASE ui' = set_busy(ui, TRUE) /\ cmds' = Append(cmds, c)
      BY <1>6, <2>3, <2>4, <2>5 DEF Sends
    <2>6. CASE ui' = fill_form([ui EXCEPT !.view = "form"], n) /\ UNCHANGED cmds
      <3>1. SamePage /\ SameList
        BY <1>1, <2>6, FillEffect DEF SamePage, SameList
      <3> QED
        BY <1>2, <2>6, <3>1
    <2> QED
      BY <2>2, <2>5, <2>6
  <1>8. CASE FormConnect
    <2>1. PICK n \in Names, pw \in Passwords, p \in Profiles : connect_from_form(n, p, pw)
      BY <1>8 DEF FormConnect
    <2> DEFINE c == [op |-> "connect", profile |-> p, pw |-> IF p.e2ee THEN pw ELSE NoName]
    <2>2. ui' = set_busy(ui, TRUE) /\ cmds' = Append(cmds, c) /\ ui.page = "connect" /\ ~ui.busy
      BY <2>1 DEF connect_from_form, send_connect, OnForm
    <2>3. c \in Commands /\ c.op = "connect"
      BY DEF Commands, SavedProfiles
    <2> HIDE DEF c
    <2> QED
      BY <1>6, <2>2, <2>3 DEF Sends
  <1>9. CASE Listing
    <2>1. PICK u : /\ ui.page = "browser" /\ ui' = Requested(u) /\ cmds' = Append(cmds, List(u))
                   /\ IsUi(u) /\ u.page = ui.page /\ u.busy = ui.busy /\ u.settings = ui.settings
      <3>1. CASE \E d \in Dirs : Activated(d)
        <4>1. \A d \in Dirs : LET u == [ui EXCEPT !.path = Append(@, d)]
                              IN  IsUi(u) /\ u.page = ui.page /\ u.busy = ui.busy /\ u.settings = ui.settings
          BY <1>1 DEF IsUi
        <4> QED
          BY <3>1, <4>1 DEF Activated, request_list, InBrowser
      <3>2. CASE \E i \in 1 .. Len(ui.path) : CrumbClicked(i)
        <4>1. \A i \in 1 .. Len(ui.path) : LET u == [ui EXCEPT !.path = SubSeq(@, 1, i)]
                                           IN  IsUi(u) /\ u.page = ui.page /\ u.busy = ui.busy /\ u.settings = ui.settings
          BY <1>1 DEF IsUi
        <4> QED
          BY <3>2, <4>1 DEF CrumbClicked, request_list, InBrowser
      <3>3. CASE RefreshClicked
        BY <1>1, <3>3 DEF RefreshClicked, request_list, InBrowser
      <3> QED
        BY <1>9, <3>1, <3>2, <3>3 DEF Listing
    <2>2. SamePage /\ ui'.path = u.path /\ List(u) \in Commands /\ Asking(List(u))
      BY <2>1, RequestedEffect DEF SamePage, Asking
    <2>3. List(u).op = "list" /\ List(u).prefix = current_prefix(ui')
      BY <2>2 DEF List, current_prefix
    <2> QED
      BY <1>2, <2>1, <2>2, <2>3 DEF Sends
  <1>10. CASE DisconnectClicked
    <2>1. IsUi([ui EXCEPT !.page = "connect"])
      BY <1>1 DEF IsUi
    <2>2. ui.page = "browser" /\ ui' = reset([ui EXCEPT !.page = "connect"], conf) /\ cmds' = Append(cmds, [op |-> "disconnect"])
      BY <1>10 DEF DisconnectClicked, InBrowser
    <2>3. ui'.page = "connect" /\ ui'.busy = ui.busy /\ ui'.settings = ui.settings
      BY <1>1, <2>1, <2>2, Reset, SMTT(30) DEF IsUi
    <2>4. [op |-> "disconnect"] \in Commands
      BY DEF Commands
    <2> QED
      BY <1>2, <2>2, <2>3, <2>4 DEF Sends
  <1>11. CASE SettingsSaved
    <2> DEFINE c == [op |-> "settings", value |-> ui.settings + 1]
    <2>1. c \in Commands /\ c.op = "settings"
      BY <1>1 DEF Commands, IsUi
    <2>2. ui' = [ui EXCEPT !.settings = @ + 1] /\ cmds' = Append(cmds, c)
      BY <1>11 DEF SettingsSaved
    <2>3. ui'.page = ui.page /\ ui'.busy = ui.busy /\ SameList /\ c.value = ui'.settings
      BY <1>1, <2>2 DEF SameList, IsUi
    <2> HIDE DEF c
    <2> QED
      BY <1>2, <2>1, <2>2, <2>3 DEF Sends
  <1>12. CASE Order
    <2>1. PICK op \in {"edit", "transfer"} : cmds' = Append(cmds, [op |-> op, n |-> left.clicks])
      BY <1>12 DEF Order, Ordered
    <2>2. [op |-> op, n |-> left.clicks] \in Commands
      BY <1>1 DEF LeftOK, Commands
    <2>3. SamePage /\ SameList
      BY <1>12, Frames DEF SamePage, SameList
    <2> QED
      BY <1>2, <2>1, <2>2, <2>3 DEF Sends
  <1> QED
    BY <1>3, <1>4, <1>5, <1>7, <1>8, <1>9, <1>10, <1>11, <1>12

\* What an event comes to.
LEMMA EventsEffect ==
  ASSUME Types, EventLoop
  PROVE  LET e == Head(evs)
         IN  /\ UNCHANGED <<worker, sess, tasks>> /\ evs # <<>> /\ evs' = Tail(evs) /\ ui'.settings = ui.settings
             /\ \/ /\ e.ev = "connected" /\ ui'.page = "browser" /\ ~ui'.busy
                   /\ \E c : Sends(c) /\ c.op = "list" /\ c.prefix = current_prefix(ui') /\ Asking(c)
                \/ e.ev = "connect_failed" /\ ui'.page = ui.page /\ ~ui'.busy /\ SameList /\ UNCHANGED cmds
                \/ /\ e.ev = "listed" /\ SamePage /\ UNCHANGED cmds /\ e.sid # 0
                   /\ \/ e.prefix # current_prefix(ui) /\ UNCHANGED ui
                      \/ /\ ui'.path = ui.path /\ ~ui'.pending /\ ui'.shown.sid = e.sid /\ ui'.shown.gen = e.n
                         /\ ui'.shown.prefix = current_prefix(ui') /\ ui'.gen = ui.gen /\ ui'.crossed = ui.crossed
                \/ /\ e.ev = "list_failed" /\ SamePage /\ UNCHANGED cmds /\ ui'.path = ui.path /\ ~ui'.pending /\ ui'.missed
                   /\ ui'.gen = ui.gen /\ ui'.crossed = ui.crossed
                \/ /\ e.ev = "done" /\ SamePage
                   /\ \E c : Sends(c) /\ c.op = "list" /\ c.prefix = current_prefix(ui') /\ Asking(c)
                \/ e.ev = "toast" /\ UNCHANGED <<ui, cmds>>
  <1> DEFINE e == Head(evs)
             u == reset_to_root([set_busy(ui, FALSE) EXCEPT !.page = "browser"])
  <1>1. IsUi(ui) /\ cmds \in Seq(Commands) /\ evs # <<>> /\ evs' = Tail(evs) /\ e \in Events
    BY DEF Types, EventLoop
  <1>2. e.ev \in {"connected", "connect_failed", "list_failed", "done", "toast", "listed"}
    BY <1>1 DEF Events
  <1>3. UNCHANGED <<worker, sess, tasks>>
    BY Frames
  <1>4. IsUi(u) /\ u.page = "browser" /\ ~u.busy /\ u.settings = ui.settings
    BY <1>1 DEF IsUi, reset_to_root, set_busy
  <1>5. ASSUME NEW w, IsUi(w), request_list(w)
        PROVE  /\ ui'.page = w.page /\ ui'.busy = w.busy /\ ui'.settings = w.settings
               /\ \E c : Sends(c) /\ c.op = "list" /\ c.prefix = current_prefix(ui') /\ Asking(c)
    <2>1. ui' = Requested(w) /\ cmds' = Append(cmds, List(w))
      BY <1>5 DEF request_list
    <2>2. ui'.page = w.page /\ ui'.busy = w.busy /\ ui'.settings = w.settings /\ ui'.path = w.path /\ List(w) \in Commands
          /\ Asking(List(w))
      BY <1>5, <2>1, RequestedEffect DEF Asking
    <2>3. List(w).op = "list" /\ List(w).prefix = current_prefix(ui')
      BY <2>2 DEF List, current_prefix
    <2> QED
      BY <2>1, <2>2, <2>3 DEF Sends
  <1>6. CASE e.ev = "connected"
    <2>1. request_list(u)
      BY <1>6 DEF EventLoop
    <2> HIDE DEF u, e
    <2> QED
      BY <1>1, <1>3, <1>4, <1>5, <1>6, <2>1 DEF e
  <1>7. CASE e.ev = "connect_failed"
    <2>1. ui' = connect_failed(ui) /\ UNCHANGED cmds
      BY <1>7 DEF EventLoop
    <2>2. ui'.page = ui.page /\ ~ui'.busy /\ SameList /\ ui'.settings = ui.settings
      BY <1>1, <2>1 DEF connect_failed, set_busy, SameList, IsUi
    <2> HIDE DEF u, e
    <2> QED
      BY <1>1, <1>3, <1>7, <2>1, <2>2 DEF e
  <1>8. CASE e.ev = "listed"
    <2>1. ui' = set_listing(ui, e) /\ UNCHANGED cmds
      BY <1>8 DEF EventLoop
    <2>2. e.sid # 0
      BY <1>1, <1>8 DEF Events
    <2> HIDE DEF u, e
    <2>3. CASE e.prefix # current_prefix(ui)
      <3>1. UNCHANGED ui
        BY <2>1, <2>3 DEF set_listing
      <3> QED
        BY <1>1, <1>3, <1>8, <2>1, <2>2, <2>3, <3>1 DEF e, SamePage
    <2>4. CASE e.prefix = current_prefix(ui)
      <3>1. /\ SamePage /\ ui'.path = ui.path /\ ~ui'.pending /\ ui'.gen = ui.gen /\ ui'.crossed = ui.crossed
            /\ ui'.shown = [sid |-> e.sid, gen |-> e.n, prefix |-> e.prefix]
        BY <1>1, <2>1, <2>4 DEF set_listing, finish_loading, SamePage, IsUi
      <3>2. ui'.shown.sid = e.sid /\ ui'.shown.gen = e.n /\ ui'.shown.prefix = current_prefix(ui')
        BY <2>4, <3>1 DEF current_prefix
      <3>3. ui'.settings = ui.settings
        BY <3>1 DEF SamePage
      <3> QED
        BY <1>1, <1>3, <1>8, <2>1, <2>2, <3>1, <3>2, <3>3 DEF e
    <2> QED
      BY <2>3, <2>4
  <1>9. CASE e.ev = "list_failed"
    <2>1. ui' = listing_failed(ui) /\ UNCHANGED cmds
      BY <1>9 DEF EventLoop
    <2>2. /\ SamePage /\ ui'.path = ui.path /\ ~ui'.pending /\ ui'.missed /\ ui'.settings = ui.settings
          /\ ui'.gen = ui.gen /\ ui'.crossed = ui.crossed
      BY <1>1, <2>1 DEF listing_failed, finish_loading, SamePage, IsUi
    <2> HIDE DEF u, e
    <2> QED
      BY <1>1, <1>3, <1>9, <2>1, <2>2 DEF e
  <1>10. CASE e.ev = "done"
    <2>1. request_list(ui)
      BY <1>10 DEF EventLoop
    <2> HIDE DEF u, e
    <2> QED
      BY <1>1, <1>3, <1>5, <1>10, <2>1 DEF e, SamePage
  <1>11. CASE e.ev = "toast"
    <2>1. UNCHANGED <<ui, cmds>>
      BY <1>11 DEF EventLoop
    <2> QED
      BY <1>1, <1>3, <1>11, <2>1
  <1> QED
    BY <1>2, <1>6, <1>7, <1>8, <1>9, <1>10, <1>11

\* At most one Connect is on its way and at most one answer; a Disconnect is never behind
\* a Connect; the last settings on their way are those of the window.
OneAsk == \A i, j \in 1 .. Len(cmds) : cmds[i].op = "connect" /\ cmds[j].op = "connect" => i = j
OneAnswer == \A i, j \in 1 .. Len(evs) : Answer(evs[i]) /\ Answer(evs[j]) => i = j
LeaveFirst == \A i, j \in 1 .. Len(cmds) : cmds[i].op = "disconnect" /\ cmds[j].op = "connect" => i < j
LastRate == \A i \in 1 .. Len(cmds) : cmds[i].op = "settings" =>
               cmds[i].value = ui.settings \/ \E j \in 1 .. Len(cmds) : j > i /\ cmds[j].op = "settings"

LEMMA SendEffect ==
  ASSUME Types, NEW c, Sends(c)
  PROVE  /\ \A op : Queued(op)' <=> Queued(op) \/ c.op = op
         /\ OneAsk /\ (c.op = "connect" => ~Queued("connect")) => OneAsk'
         /\ LeaveFirst /\ (c.op = "disconnect" => ~Queued("connect")) => LeaveFirst'
         /\ LastRate /\ c.op # "settings" /\ ui'.settings = ui.settings => LastRate'
         /\ c.op = "settings" /\ c.value = ui'.settings => LastRate'
  <1>1. cmds \in Seq(Commands) /\ c \in Commands /\ cmds' = Append(cmds, c)
    BY DEF Types, Sends
  <1> DEFINE n == Len(cmds)
  <1>2. n \in Nat /\ Len(cmds') = n + 1 /\ cmds'[n + 1] = c /\ \A i \in 1 .. n : cmds'[i] = cmds[i]
    BY <1>1, Appended
  <1> HIDE DEF n
  <1>3. \A op : Queued(op)' <=> Queued(op) \/ c.op = op
    BY <1>2, SMTT(30) DEF Queued, n
  <1>4. OneAsk /\ (c.op = "connect" => ~Queued("connect")) => OneAsk'
    BY <1>2 DEF Queued, n, OneAsk
  <1>5. LeaveFirst /\ (c.op = "disconnect" => ~Queued("connect")) => LeaveFirst'
    BY <1>2 DEF Queued, n, LeaveFirst
  <1>6. LastRate /\ c.op # "settings" /\ ui'.settings = ui.settings => LastRate'
    BY <1>2 DEF n, LastRate
  <1>7. c.op = "settings" /\ c.value = ui'.settings => LastRate'
    BY <1>2 DEF n, LastRate
  <1> QED
    BY <1>3, <1>4, <1>5, <1>6, <1>7

LEMMA TakeEffect ==
  ASSUME Types, cmds # <<>>, cmds' = Tail(cmds)
  PROVE  /\ \A op : Queued(op) <=> Queued(op)' \/ Cmd.op = op
         /\ OneAsk => OneAsk' /\ (Cmd.op = "connect" => ~Queued("connect")')
         /\ LeaveFirst => LeaveFirst' /\ (Cmd.op = "connect" => ~Queued("disconnect")')
         /\ LastRate /\ ui'.settings = ui.settings => LastRate'
         /\ LastRate /\ Cmd.op = "settings" /\ ~Queued("settings")' => Cmd.value = ui.settings
  <1> DEFINE n == Len(cmds)
  <1>1. n \in Nat \ {0} /\ Len(cmds') = n - 1 /\ Cmd = cmds[1] /\ \A i \in 1 .. n - 1 : cmds'[i] = cmds[i + 1]
    BY Removed DEF Types, Cmd
  <1>2. \A i \in 1 .. n : i = 1 \/ (i - 1 \in 1 .. n - 1 /\ cmds[i] = cmds'[i - 1])
    BY <1>1
  <1> HIDE DEF n
  <1>3. \A op : Queued(op) <=> Queued(op)' \/ Cmd.op = op
    <2> TAKE op
    <2>1. ASSUME NEW i \in 1 .. n - 1, cmds'[i].op = op PROVE Queued(op)
      <3>1. i + 1 \in 1 .. n /\ cmds[i + 1].op = op
        BY <1>1, <2>1
      <3> QED
        BY <3>1 DEF Queued, n
    <2>2. Cmd.op = op => Queued(op)
      <3>1. 1 \in 1 .. n
        BY <1>1
      <3> QED
        BY <1>1, <3>1 DEF Queued, n
    <2>3. ASSUME NEW i \in 1 .. n, cmds[i].op = op PROVE Queued(op)' \/ Cmd.op = op
      BY <1>1, <1>2, <2>3 DEF Queued
    <2> QED
      BY <1>1, <2>1, <2>2, <2>3 DEF Queued, n
  <1>4. OneAsk => OneAsk' /\ (Cmd.op = "connect" => ~Queued("connect")')
    BY <1>1, <1>2 DEF Queued, n, OneAsk
  <1>5. LeaveFirst => LeaveFirst' /\ (Cmd.op = "connect" => ~Queued("disconnect")')
    BY <1>1, <1>2 DEF Queued, n, LeaveFirst
  <1>6. ASSUME LastRate, ui'.settings = ui.settings PROVE LastRate'
    <2> SUFFICES ASSUME NEW i \in 1 .. n - 1, cmds'[i].op = "settings", cmds'[i].value # ui'.settings
                 PROVE  \E j \in 1 .. n - 1 : j > i /\ cmds'[j].op = "settings"
      BY <1>1 DEF LastRate, n
    <2>1. i + 1 \in 1 .. n /\ cmds[i + 1] = cmds'[i]
      BY <1>1
    <2>2. PICK j \in 1 .. n : j > i + 1 /\ cmds[j].op = "settings"
      BY <1>6, <2>1 DEF LastRate, n
    <2>3. j - 1 \in 1 .. n - 1 /\ j - 1 > i /\ cmds'[j - 1].op = "settings"
      BY <1>1, <1>2, <2>1, <2>2
    <2> QED
      BY <2>3
  <1>7. LastRate /\ Cmd.op = "settings" /\ ~Queued("settings")' => Cmd.value = ui.settings
    <2>1. 1 \in 1 .. n
      BY <1>1
    <2>2. ASSUME NEW j \in 1 .. n, j > 1, cmds[j].op = "settings" PROVE Queued("settings")'
      BY <1>1, <1>2, <2>2 DEF Queued
    <2> QED
      BY <1>1, <2>1, <2>2 DEF n, LastRate
  <1> QED
    BY <1>3, <1>4, <1>5, <1>6, <1>7

LEMMA TellEffect ==
  ASSUME Types, NEW e, evs' = Append(evs, e)
  PROVE  /\ \A ev : Told(ev)' <=> Told(ev) \/ e.ev = ev
         /\ OneAnswer /\ (Answer(e) => ~Told("connected") /\ ~Told("connect_failed")) => OneAnswer'
  <1> DEFINE n == Len(evs)
  <1>1. evs \in Seq(Events)
    BY DEF Types
  <1>2. evs \in Seq(Events \cup {e})
    BY <1>1
  <1>3. n \in Nat /\ Len(evs') = n + 1 /\ evs'[n + 1] = e /\ \A i \in 1 .. n : evs'[i] = evs[i]
    BY <1>2, Appended
  <1> HIDE DEF n
  <1>4. \A ev : Told(ev)' <=> Told(ev) \/ e.ev = ev
    BY <1>3 DEF Told, n
  <1>5. OneAnswer /\ (Answer(e) => ~Told("connected") /\ ~Told("connect_failed")) => OneAnswer'
    BY <1>3 DEF Told, n, OneAnswer, Answer
  <1> QED
    BY <1>4, <1>5

LEMMA HearEffect ==
  ASSUME Types, evs # <<>>, evs' = Tail(evs)
  PROVE  /\ \A ev : Told(ev) <=> Told(ev)' \/ Head(evs).ev = ev
         /\ OneAnswer => OneAnswer' /\ (Answer(Head(evs)) => ~Told("connected")' /\ ~Told("connect_failed")')
  <1> DEFINE n == Len(evs)
             e == Head(evs)
  <1>1. n \in Nat \ {0} /\ Len(evs') = n - 1 /\ e = evs[1] /\ \A i \in 1 .. n - 1 : evs'[i] = evs[i + 1]
    BY Removed DEF Types
  <1>2. \A i \in 1 .. n : i = 1 \/ (i - 1 \in 1 .. n - 1 /\ evs[i] = evs'[i - 1])
    BY <1>1
  <1> HIDE DEF n, e
  <1>3. \A ev : Told(ev) <=> Told(ev)' \/ e.ev = ev
    <2> TAKE ev
    <2>1. ASSUME NEW i \in 1 .. n - 1, evs'[i].ev = ev PROVE Told(ev)
      <3>1. i + 1 \in 1 .. n /\ evs[i + 1].ev = ev
        BY <1>1, <2>1
      <3> QED
        BY <3>1 DEF Told, n
    <2>2. e.ev = ev => Told(ev)
      <3>1. 1 \in 1 .. n
        BY <1>1
      <3> QED
        BY <1>1, <3>1 DEF Told, n
    <2>3. ASSUME NEW i \in 1 .. n, evs[i].ev = ev PROVE Told(ev)' \/ e.ev = ev
      BY <1>1, <1>2, <2>3 DEF Told
    <2> QED
      BY <1>1, <2>1, <2>2, <2>3 DEF Told, n
  <1>4. OneAnswer => OneAnswer' /\ (Answer(e) => ~Told("connected")' /\ ~Told("connect_failed")')
    BY <1>1, <1>2 DEF Told, n, OneAnswer, Answer
  <1> QED
    BY <1>3, <1>4 DEF e

\* What dispatch does with a command.
LEMMA Dispatches ==
  ASSUME Types, SetSettings \/ Disconnect \/ Spawned \/ Connect
  PROVE  /\ UNCHANGED <<ui, evs>> /\ cmds # <<>> /\ cmds' = Tail(cmds) /\ worker.pc = "idle"
         /\ \/ /\ SetSettings /\ Cmd.op = "settings" /\ worker'.pc = "idle" /\ worker'.session = worker.session
               /\ worker'.settings = Cmd.value
            \/ /\ Disconnect /\ Cmd.op = "disconnect" /\ worker'.pc = "idle" /\ worker'.session = 0
               /\ worker'.settings = worker.settings
            \/ Spawned /\ Cmd.op \in {"list", "edit", "transfer"} /\ UNCHANGED <<worker, sess>>
            \/ /\ Connect /\ Cmd.op = "connect" /\ worker'.pc = "dial" /\ worker'.session = worker.session
               /\ worker'.settings = worker.settings /\ UNCHANGED sess
  <1>1. WorkerOK
    BY DEF Types
  <1>2. UNCHANGED <<ui, evs>> /\ cmds # <<>> /\ cmds' = Tail(cmds) /\ worker.pc = "idle"
    BY DEF SetSettings, Disconnect, Spawned, Connect, Taken
  <1>3. CASE SetSettings
    <2>1. worker' = [worker EXCEPT !.settings = Cmd.value] /\ Cmd.op = "settings"
      BY <1>3 DEF SetSettings
    <2> QED
      BY <1>1, <1>2, <1>3, <2>1 DEF WorkerOK
  <1>4. CASE Disconnect
    BY <1>1, <1>2, <1>4 DEF Disconnect, WorkerOK
  <1>5. CASE Spawned
    BY <1>1, <1>2, <1>5 DEF Spawned
  <1>6. CASE Connect
    <2>1. worker' = [worker EXCEPT !.pc = "dial", !.req = Cmd] /\ Cmd.op = "connect" /\ UNCHANGED sess
      BY <1>6 DEF Connect
    <2> QED
      BY <1>1, <1>2, <1>6, <2>1 DEF WorkerOK
  <1> QED
    BY <1>3, <1>4, <1>5, <1>6

\* What a step of connect does to the channels and the session in use.
LEMMA Connects ==
  ASSUME Types, Connecting \/ ServerSilent
  PROVE  /\ UNCHANGED <<ui, cmds, tasks>> /\ worker.pc # "idle" /\ worker'.settings = worker.settings
         /\ \/ worker'.pc # "idle" /\ worker'.session = worker.session /\ UNCHANGED <<evs, sess>>
            \/ /\ worker'.pc = "idle" /\ worker'.session = worker.session /\ UNCHANGED sess
               /\ evs' = Append(evs, [ev |-> "connect_failed"])
            \/ /\ worker'.pc = "idle" /\ worker'.session = Len(sess) + 1
               /\ sess'[Len(sess) + 1].rates = worker.settings /\ sess'[Len(sess) + 1].interval = 0
               /\ evs' = Append(evs, [ev |-> "connected"])
  <1>1. WorkerOK
    BY DEF Types
  <1>2. UNCHANGED <<ui, cmds, tasks>> /\ worker.pc # "idle"
    BY ConnectSteps, Frames DEF ServerSilent, Patient
  <1>3. ASSUME Goes("auth") \/ Goes("hung") \/ \E p \in {kind, "global"} : Anchored(p)
        PROVE  worker'.pc # "idle" /\ worker'.session = worker.session /\ worker'.settings = worker.settings
               /\ UNCHANGED <<evs, sess>>
    BY <1>1, <1>3 DEF Goes, Anchored, WorkerOK
  <1>4. Create => worker'.pc # "idle" /\ worker'.session = worker.session /\ worker'.settings = worker.settings
                  /\ UNCHANGED <<evs, sess>>
    BY <1>1 DEF Create, WorkerOK
  <1>5. Failed => /\ worker'.pc = "idle" /\ worker'.session = worker.session /\ worker'.settings = worker.settings
                  /\ UNCHANGED sess /\ evs' = Append(evs, [ev |-> "connect_failed"])
    BY <1>1 DEF Failed, Over, WorkerOK
  <1>6. ASSUME NEW k \in Keys, session_made(k)
        PROVE  /\ worker'.pc = "idle" /\ worker'.session = Len(sess) + 1 /\ worker'.settings = worker.settings
               /\ sess'[Len(sess) + 1].rates = worker.settings /\ sess'[Len(sess) + 1].interval = 0
               /\ evs' = Append(evs, [ev |-> "connected"])
    <2>1. sess'[Len(sess) + 1].rates = worker.settings /\ sess'[Len(sess) + 1].interval = 0
      BY <1>6, MadeEffect
    <2> QED
      BY <1>1, <1>6, <2>1 DEF session_made, NewSession, Over, WorkerOK
  <1>7. CASE ServerSilent
    BY <1>2, <1>3, <1>7 DEF ServerSilent
  <1>8. CASE Connecting
    <2>1. \/ Failed \/ Goes("auth") \/ (\E p \in {kind, "global"} : Anchored(p)) \/ Create
          \/ \E k \in Keys : session_made(k)
      BY <1>8, ConnectSteps, MadeKeys
    <2> QED
      BY <1>2, <1>3, <1>4, <1>5, <1>6, <2>1
  <1> QED
    BY <1>7, <1>8

\* The tasks and timers only ever add an event, and none that answers a Connect.
LEMMA Backgrounds ==
  ASSUME Types, [Next]_vars, ListWork \/ Working \/ Timers
  PROVE  /\ UNCHANGED <<ui, cmds, worker>>
         /\ UNCHANGED evs \/ \E e : evs' = Append(evs, e) /\ ~Answer(e)
  <1>1. UNCHANGED <<ui, cmds, worker>>
    BY Frames
  <1>2. CASE ListWork
    <2>1. PICK t \in tasks : ListTask(t)
      BY <1>2 DEF ListWork
    <2>2. \/ Reported(t, [ev |-> "listed", n |-> t.cmd.n, sid |-> t.sid, prefix |-> t.cmd.prefix])
          \/ UNCHANGED evs \/ evs' = Append(evs, [ev |-> "list_failed"])
      BY <2>1 DEF ListTask, GaveUp, Again, Reported
    <2> QED
      BY <1>1, <2>2 DEF Reported, Answer
  <1>3. CASE Working
    <2>1. PICK t \in tasks : Work(t) \/ FlushTask(t)
      BY <1>3 DEF Working
    <2>2. UNCHANGED evs \/ Reported(t, Done) \/ GaveUp(t, Toast)
      BY <2>1, WorkEffect, FlushEffect
    <2>3. GaveUp(t, Toast) => UNCHANGED evs \/ Reported(t, Done) \/ Reported(t, Toast)
      BY DEF GaveUp, Again
    <2> QED
      BY <1>1, <2>2, <2>3 DEF Reported, Answer, Done, Toast
  <1>4. CASE Timers
    BY <1>1, <1>4, Frames
  <1> QED
    BY <1>2, <1>3, <1>4

Answered == Told("connected") \/ Told("connect_failed")

\* A Connect is in the queue, at work or answered, and only one of these; the page is
\* insensitive exactly as long.
Handshake ==
  /\ OneAsk /\ OneAnswer
  /\ Queued("connect") => worker.pc = "idle" /\ ~Answered
  /\ worker.pc # "idle" => ~Answered
  /\ ui.busy <=> Queued("connect") \/ worker.pc # "idle" \/ Answered

\* The browser is in front of a session nobody is about to leave; a Connect at work finds
\* no session; a session without the browser is being left, or was announced.
PageInv ==
  /\ LeaveFirst
  /\ ui.page = "browser" => worker.session # 0 /\ ~Queued("disconnect") /\ ~ui.busy
  /\ worker.pc # "idle" => worker.session = 0 /\ ~Queued("disconnect")
  /\ Told("connected") => worker.session # 0 /\ ~Queued("disconnect")
  /\ ui.page = "connect" /\ worker.session # 0 => Queued("disconnect") \/ Told("connected")

LEMMA HandshakeStep == Types /\ Handshake /\ [Next]_vars => Handshake'
  <1> SUFFICES ASSUME Types, Handshake, [Next]_vars PROVE Handshake'
    OBVIOUS
  <1>1. CASE \/ AddClicked \/ BackClicked \/ Editing \/ Deletion \/ SavedConnect \/ FormConnect
             \/ Listing \/ DisconnectClicked \/ SettingsSaved \/ Order
    <2>1. UNCHANGED <<evs, worker, sess, tasks>>
      BY <1>1, Clicks
    <2>2. (Told("connected")' <=> Told("connected")) /\ (Told("connect_failed")' <=> Told("connect_failed"))
          /\ OneAnswer' /\ worker'.pc = worker.pc
      BY <2>1 DEF Told, OneAnswer, Handshake
    <2>3. CASE UNCHANGED cmds /\ ui'.busy = ui.busy
      <3>1. (Queued("connect")' <=> Queued("connect")) /\ OneAsk'
        BY <2>3 DEF Queued, OneAsk, Handshake
      <3> QED
        BY <2>2, <2>3, <3>1 DEF Handshake, Answered
    <2>4. CASE ~ui.busy /\ ui'.busy /\ \E c : Sends(c) /\ c.op = "connect"
      <3>1. ~Queued("connect") /\ worker.pc = "idle" /\ ~Answered
        BY <2>4 DEF Handshake
      <3>2. Queued("connect")' /\ OneAsk'
        BY <2>4, <3>1, SendEffect DEF Handshake
      <3> QED
        BY <2>2, <2>4, <3>1, <3>2 DEF Handshake, Answered
    <2>5. CASE ui'.busy = ui.busy /\ \E c : Sends(c) /\ c.op # "connect"
      <3>1. (Queued("connect")' <=> Queued("connect")) /\ OneAsk'
        BY <2>5, SendEffect DEF Handshake
      <3> QED
        BY <2>2, <2>5, <3>1 DEF Handshake, Answered
    <2> QED
      BY <1>1, <2>3, <2>4, <2>5, Clicks DEF SamePage
  <1>2. CASE EventLoop
    <2> DEFINE e == Head(evs)
    <2>1. /\ UNCHANGED worker /\ (Told("connected") <=> Told("connected")' \/ e.ev = "connected")
          /\ (Told("connect_failed") <=> Told("connect_failed")' \/ e.ev = "connect_failed")
          /\ OneAnswer' /\ (Answer(e) => ~Told("connected")' /\ ~Told("connect_failed")')
      BY <1>2, EventsEffect, HearEffect DEF Handshake
    <2>2. UNCHANGED cmds \/ \E c : Sends(c) /\ c.op # "connect"
      BY <1>2, EventsEffect
    <2>3. (Queued("connect")' <=> Queued("connect")) /\ OneAsk'
      <3>1. CASE UNCHANGED cmds
        BY <3>1 DEF Queued, OneAsk, Handshake
      <3>2. CASE \E c : Sends(c) /\ c.op # "connect"
        BY <3>2, SendEffect DEF Handshake
      <3> QED
        BY <2>2, <3>1, <3>2
    <2>4. IF e.ev \in {"connected", "connect_failed"} THEN ~ui'.busy ELSE ui'.busy = ui.busy
      BY <1>2, EventsEffect DEF SamePage
    <2> HIDE DEF e
    <2> QED
      BY <2>1, <2>3, <2>4 DEF Handshake, Answered, Answer
  <1>3. CASE SetSettings \/ Disconnect \/ Spawned \/ Connect
    <2>1. UNCHANGED <<ui, evs>> /\ cmds # <<>> /\ cmds' = Tail(cmds) /\ worker.pc = "idle"
      BY <1>3, Dispatches
    <2>2. /\ (Told("connected")' <=> Told("connected")) /\ (Told("connect_failed")' <=> Told("connect_failed"))
          /\ OneAnswer'
      BY <2>1 DEF Told, OneAnswer, Handshake
    <2>3. /\ (Queued("connect") <=> Queued("connect")' \/ Cmd.op = "connect")
          /\ OneAsk' /\ (Cmd.op = "connect" => ~Queued("connect")')
      BY <2>1, TakeEffect DEF Handshake
    <2>4. (Cmd.op = "connect" /\ worker'.pc = "dial") \/ (Cmd.op # "connect" /\ worker'.pc = "idle")
      BY <1>3, <2>1, Dispatches
    <2> QED
      BY <2>1, <2>2, <2>3, <2>4 DEF Handshake, Answered
  <1>4. CASE Connecting \/ ServerSilent
    <2>1. UNCHANGED <<ui, cmds>> /\ worker.pc # "idle"
      BY <1>4, Connects
    <2>2. (Queued("connect")' <=> Queued("connect")) /\ OneAsk'
      BY <2>1 DEF Queued, OneAsk, Handshake
    <2>3. CASE worker'.pc # "idle" /\ UNCHANGED evs
      <3>1. /\ (Told("connected")' <=> Told("connected")) /\ (Told("connect_failed")' <=> Told("connect_failed"))
            /\ OneAnswer'
        BY <2>3 DEF Told, OneAnswer, Handshake
      <3> QED
        BY <2>1, <2>2, <2>3, <3>1 DEF Handshake, Answered
    <2>4. CASE worker'.pc = "idle" /\ \E e : evs' = Append(evs, e) /\ Answer(e)
      <3>1. PICK e : evs' = Append(evs, e) /\ Answer(e)
        BY <2>4
      <3>2. ~Told("connected") /\ ~Told("connect_failed")
        BY <2>1 DEF Handshake, Answered
      <3>3. OneAnswer' /\ (Told("connected")' \/ Told("connect_failed")')
        BY <3>1, <3>2, TellEffect DEF Handshake, Answer
      <3> QED
        BY <2>1, <2>2, <2>4, <3>3 DEF Handshake, Answered
    <2>5. \/ worker'.pc # "idle" /\ UNCHANGED evs
          \/ worker'.pc = "idle" /\ \E e : evs' = Append(evs, e) /\ Answer(e)
      BY <1>4, Connects DEF Answer
    <2> QED
      BY <2>3, <2>4, <2>5
  <1>5. CASE ListWork \/ Working \/ Timers
    <2>1. UNCHANGED <<ui, cmds, worker>>
      BY <1>5, Backgrounds
    <2>2. (Queued("connect")' <=> Queued("connect")) /\ OneAsk'
      BY <2>1 DEF Queued, OneAsk, Handshake
    <2>3. /\ (Told("connected")' <=> Told("connected")) /\ (Told("connect_failed")' <=> Told("connect_failed"))
          /\ OneAnswer'
      <3>1. CASE UNCHANGED evs
        BY <3>1 DEF Told, OneAnswer, Handshake
      <3>2. CASE \E e : evs' = Append(evs, e) /\ ~Answer(e)
        BY <3>2, TellEffect DEF Handshake, Answer
      <3> QED
        BY <1>5, <3>1, <3>2, Backgrounds
    <2> QED
      BY <2>1, <2>2, <2>3 DEF Handshake, Answered
  <1>6. CASE UNCHANGED vars
    BY <1>6 DEF vars, Handshake, OneAsk, OneAnswer, Queued, Told, Answered
  <1> QED
    BY <1>1, <1>2, <1>3, <1>4, <1>5, <1>6, Actions

LEMMA PageStep == Types /\ Handshake /\ PageInv /\ [Next]_vars => PageInv'
  <1> SUFFICES ASSUME Types, Handshake, PageInv, [Next]_vars PROVE PageInv'
    OBVIOUS
  <1>0. IsUi(ui) /\ ui.page \in {"connect", "browser"}
    BY DEF Types, IsUi
  <1>1. CASE \/ AddClicked \/ BackClicked \/ Editing \/ Deletion \/ SavedConnect \/ FormConnect
             \/ Listing \/ DisconnectClicked \/ SettingsSaved \/ Order
    <2>1. UNCHANGED <<evs, worker>>
      BY <1>1, Clicks
    <2>2. (Told("connected")' <=> Told("connected")) /\ worker'.pc = worker.pc /\ worker'.session = worker.session
      BY <2>1 DEF Told
    <2>3. CASE UNCHANGED cmds /\ ui'.busy = ui.busy /\ ui'.page = ui.page
      <3>1. (Queued("disconnect")' <=> Queued("disconnect")) /\ LeaveFirst'
        BY <2>3 DEF Queued, LeaveFirst, PageInv
      <3> QED
        BY <2>2, <2>3, <3>1 DEF PageInv
    <2>4. CASE /\ ui'.page = ui.page /\ (ui'.busy = ui.busy \/ ui.page = "connect")
               /\ \E c : Sends(c) /\ c.op # "disconnect"
      <3>1. (Queued("disconnect")' <=> Queued("disconnect")) /\ LeaveFirst'
        BY <2>4, SendEffect DEF PageInv
      <3> QED
        BY <2>2, <2>4, <3>1 DEF PageInv
    <2>5. CASE ui.page = "browser" /\ ui'.page = "connect" /\ Sends([op |-> "disconnect"])
      <3>1. ~Queued("connect") /\ worker.pc = "idle" /\ ~Told("connected")
        BY <2>5 DEF Handshake, PageInv, Answered
      <3>2. Queued("disconnect")' /\ LeaveFirst'
        BY <2>5, <3>1, SendEffect DEF PageInv
      <3> QED
        BY <2>2, <2>5, <3>1, <3>2 DEF PageInv
    <2> QED
      BY <1>1, <2>3, <2>4, <2>5, Clicks DEF SamePage
  <1>2. CASE EventLoop
    <2> DEFINE e == Head(evs)
    <2>1. /\ UNCHANGED worker /\ (Told("connected") <=> Told("connected")' \/ e.ev = "connected")
          /\ (Told("connect_failed") <=> Told("connect_failed")' \/ e.ev = "connect_failed")
          /\ (Answer(e) => ~Told("connected")')
      BY <1>2, EventsEffect, HearEffect DEF Handshake
    <2>2. UNCHANGED cmds \/ \E c : Sends(c) /\ c.op # "disconnect"
      BY <1>2, EventsEffect
    <2>3. (Queued("disconnect")' <=> Queued("disconnect")) /\ LeaveFirst'
      <3>1. CASE UNCHANGED cmds
        BY <3>1 DEF Queued, LeaveFirst, PageInv
      <3>2. CASE \E c : Sends(c) /\ c.op # "disconnect"
        BY <3>2, SendEffect DEF PageInv
      <3> QED
        BY <2>2, <3>1, <3>2
    <2>4. CASE e.ev = "connected"
      <3>1. ui'.page = "browser" /\ ~ui'.busy
        BY <1>2, <2>4, EventsEffect DEF SamePage
      <3>2. Told("connected") /\ ~Told("connected")' /\ worker.pc = "idle"
        BY <2>1, <2>4 DEF Handshake, Answered, Answer
      <3> QED
        BY <2>1, <2>3, <3>1, <3>2 DEF PageInv
    <2>5. CASE e.ev # "connected"
      <3>1. ui'.page = ui.page /\ (~ui'.busy \/ ui'.busy = ui.busy)
        BY <1>2, <2>5, EventsEffect DEF SamePage
      <3>2. Told("connected")' <=> Told("connected")
        BY <2>1, <2>5
      <3> QED
        BY <2>1, <2>3, <3>1, <3>2 DEF PageInv
    <2> QED
      BY <2>4, <2>5
  <1>3. CASE SetSettings \/ Disconnect \/ Spawned \/ Connect
    <2>1. UNCHANGED <<ui, evs>> /\ cmds # <<>> /\ cmds' = Tail(cmds) /\ worker.pc = "idle"
      BY <1>3, Dispatches
    <2>2. Told("connected")' <=> Told("connected")
      BY <2>1 DEF Told
    <2>3. /\ (Queued("disconnect") <=> Queued("disconnect")' \/ Cmd.op = "disconnect")
          /\ (Queued("connect") <=> Queued("connect")' \/ Cmd.op = "connect")
          /\ LeaveFirst' /\ (Cmd.op = "connect" => ~Queued("disconnect")')
      BY <2>1, TakeEffect DEF PageInv
    <2>4. CASE Cmd.op = "disconnect" /\ worker'.pc = "idle" /\ worker'.session = 0
      BY <2>1, <2>2, <2>3, <2>4 DEF PageInv
    <2>5. CASE Cmd.op = "connect" /\ worker'.pc = "dial" /\ worker'.session = worker.session
      <3>1. ~Queued("disconnect") /\ ~Queued("disconnect")'
        BY <2>3, <2>5
      <3>2. ui.busy /\ ~Told("connected")
        BY <2>3, <2>5 DEF Handshake, Answered
      <3>3. worker.session = 0
        BY <1>0, <3>1, <3>2 DEF PageInv
      <3> QED
        BY <2>1, <2>2, <2>3, <2>5, <3>1, <3>2, <3>3 DEF PageInv
    <2>6. CASE Cmd.op \notin {"connect", "disconnect"} /\ worker'.pc = "idle" /\ worker'.session = worker.session
      BY <2>1, <2>2, <2>3, <2>6 DEF PageInv
    <2>7. \/ Cmd.op = "disconnect" /\ worker'.pc = "idle" /\ worker'.session = 0
          \/ Cmd.op = "connect" /\ worker'.pc = "dial" /\ worker'.session = worker.session
          \/ Cmd.op \notin {"connect", "disconnect"} /\ worker'.pc = "idle" /\ worker'.session = worker.session
      BY <1>3, <2>1, Dispatches
    <2> QED
      BY <2>4, <2>5, <2>6, <2>7
  <1>4. CASE Connecting \/ ServerSilent
    <2>1. UNCHANGED <<ui, cmds>> /\ worker.pc # "idle"
      BY <1>4, Connects
    <2>2. (Queued("disconnect")' <=> Queued("disconnect")) /\ LeaveFirst' /\ worker.session = 0
          /\ ~Queued("disconnect") /\ ui.busy /\ ~Told("connected")
      BY <2>1 DEF Queued, LeaveFirst, PageInv, Handshake, Answered
    <2>3. CASE worker'.session = worker.session /\ (UNCHANGED evs \/ evs' = Append(evs, [ev |-> "connect_failed"]))
      <3>1. Told("connected")' <=> Told("connected")
        <4>1. CASE UNCHANGED evs
          BY <4>1 DEF Told
        <4>2. CASE evs' = Append(evs, [ev |-> "connect_failed"])
          BY <4>2, TellEffect
        <4> QED
          BY <2>3, <4>1, <4>2
      <3> QED
        BY <2>1, <2>2, <2>3, <3>1 DEF PageInv
    <2>4. CASE worker'.pc = "idle" /\ worker'.session = Len(sess) + 1 /\ evs' = Append(evs, [ev |-> "connected"])
      <3>1. worker'.session # 0
        BY <2>4 DEF Types, SessOK
      <3>2. Told("connected")'
        BY <2>4, TellEffect
      <3> QED
        BY <2>1, <2>2, <2>4, <3>1, <3>2 DEF PageInv
    <2> QED
      BY <1>4, <2>3, <2>4, Connects
  <1>5. CASE ListWork \/ Working \/ Timers
    <2>1. UNCHANGED <<ui, cmds, worker>>
      BY <1>5, Backgrounds
    <2>2. (Queued("disconnect")' <=> Queued("disconnect")) /\ LeaveFirst'
      BY <2>1 DEF Queued, LeaveFirst, PageInv
    <2>3. Told("connected")' <=> Told("connected")
      <3>1. CASE UNCHANGED evs
        BY <3>1 DEF Told
      <3>2. CASE \E e : evs' = Append(evs, e) /\ ~Answer(e)
        BY <3>2, TellEffect DEF Answer
      <3> QED
        BY <1>5, <3>1, <3>2, Backgrounds
    <2> QED
      BY <2>1, <2>2, <2>3 DEF PageInv
  <1>6. CASE UNCHANGED vars
    BY <1>6 DEF vars, PageInv, LeaveFirst, Queued, Told
  <1> QED
    BY <1>1, <1>2, <1>3, <1>4, <1>5, <1>6, Actions

\* The worker's settings are the window's once the last of them arrived; the session in
\* use runs at the worker's, and its timer at the interval it began with or at the worker's.
AtPace == worker.session # 0 => /\ sess[worker.session].rates = worker.settings
                                /\ sess[worker.session].interval \in {0, worker.settings}
RateInv == /\ LastRate
           /\ ~Queued("settings") => worker.settings = ui.settings
           /\ AtPace

LEMMA QueueRateStep ==
  ASSUME Types, RateInv, [Next]_vars
  PROVE  LastRate' /\ (~Queued("settings") => worker.settings = ui.settings)'
  <1>1. CASE UNCHANGED cmds /\ ui'.settings = ui.settings /\ worker'.settings = worker.settings
    BY <1>1 DEF RateInv, LastRate, Queued
  <1>2. CASE \E c : Sends(c) /\ c.op # "settings" /\ ui'.settings = ui.settings /\ worker'.settings = worker.settings
    BY <1>2, SendEffect DEF RateInv
  <1>3. CASE \E c : Sends(c) /\ c.op = "settings" /\ c.value = ui'.settings
    BY <1>3, SendEffect DEF RateInv
  <1>4. CASE \/ AddClicked \/ BackClicked \/ Editing \/ Deletion \/ SavedConnect \/ FormConnect
             \/ Listing \/ DisconnectClicked \/ SettingsSaved \/ Order
    <2>1. UNCHANGED worker
      BY <1>4, Clicks
    <2>2. [op |-> "disconnect"].op # "settings"
      OBVIOUS
    <2> QED
      BY <1>1, <1>2, <1>3, <1>4, <2>1, <2>2, Clicks DEF SamePage
  <1>5. CASE EventLoop
    <2>1. UNCHANGED worker /\ ui'.settings = ui.settings
      BY <1>5, EventsEffect
    <2> QED
      BY <1>1, <1>2, <1>5, <2>1, EventsEffect
  <1>6. CASE SetSettings \/ Disconnect \/ Spawned \/ Connect
    <2>1. UNCHANGED ui /\ cmds # <<>> /\ cmds' = Tail(cmds)
          /\ worker'.settings = (IF Cmd.op = "settings" THEN Cmd.value ELSE worker.settings)
      BY <1>6, Dispatches
    <2>2. /\ LastRate' /\ (Queued("settings") <=> Queued("settings")' \/ Cmd.op = "settings")
          /\ (Cmd.op = "settings" /\ ~Queued("settings")' => Cmd.value = ui.settings)
      BY <2>1, TakeEffect DEF RateInv
    <2> QED
      BY <2>1, <2>2 DEF RateInv
  <1>7. CASE Connecting \/ ServerSilent
    BY <1>1, <1>7, Connects
  <1>8. CASE ListWork \/ Working \/ Timers
    BY <1>1, <1>8, Backgrounds
  <1> QED
    BY <1>1, <1>4, <1>5, <1>6, <1>7, <1>8, Actions DEF vars

LEMMA SessionRateStep ==
  ASSUME Types, RateInv, [Next]_vars
  PROVE  AtPace'
  <1>1. /\ sess \in Seq(Sessions) /\ Len(sess) \in Nat /\ worker.session \in 0 .. Len(sess)
        /\ worker.session # 0 => worker.session \in 1 .. Len(sess)
    BY DEF Types, SessOK, WorkerOK
  <1>2. CASE worker'.session = worker.session /\ worker'.settings = worker.settings /\ UNCHANGED sess
    BY <1>2 DEF RateInv, AtPace
  <1>3. CASE SetSettings
    <2>1. worker'.session = worker.session /\ worker'.settings = Cmd.value
      BY <1>3, Dispatches DEF SetSettings
    <2>2. CASE worker.session # 0
      <3>1. PICK x \in Sessions : sess' = [sess EXCEPT ![worker.session] = x] /\ x.rates = worker'.settings /\ x.interval = x.rates
        BY <1>3, <2>2, RatesEffect
      <3>2. sess'[worker.session] = x
        BY <1>1, <2>2, <3>1
      <3> QED
        BY <2>1, <3>1, <3>2 DEF AtPace
    <2> QED
      BY <2>1, <2>2 DEF AtPace
  <1>4. CASE Disconnect
    <2>1. worker'.session = 0
      BY <1>4 DEF Disconnect, Types, WorkerOK
    <2> QED
      BY <2>1 DEF AtPace
  <1>5. CASE Spawned \/ Connect
    <2>1. Cmd.op \notin {"settings", "disconnect"}
      BY <1>5 DEF Spawned, Connect
    <2> QED
      BY <1>2, <1>5, <2>1, Dispatches
  <1>6. CASE Connecting \/ ServerSilent
    <2>1. worker'.settings = worker.settings
      BY <1>6, Connects
    <2>2. CASE worker'.session = worker.session /\ UNCHANGED sess
      BY <1>2, <2>1, <2>2
    <2>3. CASE worker'.session = Len(sess) + 1 /\ sess'[Len(sess) + 1].rates = worker.settings
             /\ sess'[Len(sess) + 1].interval = 0
      BY <2>1, <2>3 DEF AtPace
    <2> QED
      BY <1>6, <2>2, <2>3, Connects
  <1>7. ASSUME NEW i \in 1 .. Len(sess), NEW x \in Sessions, sess' = [sess EXCEPT ![i] = x], Pace(x, sess[i]),
               UNCHANGED worker
        PROVE  AtPace'
    <2>1. worker.session # 0 => Pace(sess'[worker.session], sess[worker.session])
      BY <1>1, <1>7, Touched DEF Pace
    <2> QED
      BY <1>7, <2>1 DEF RateInv, AtPace, Pace
  <1>8. CASE Working
    <2>1. PICK t \in tasks : Work(t) \/ FlushTask(t)
      BY <1>8 DEF Working
    <2>2. t.sid \in 1 .. Len(sess) /\ UNCHANGED worker
      BY <1>8, Frames DEF Types, TasksOK
    <2>3. \E x \in Sessions : sess' = [sess EXCEPT ![t.sid] = x] /\ Pace(x, sess[t.sid])
      BY <2>1, WorkEffect, FlushEffect
    <2> QED
      BY <1>7, <2>2, <2>3
  <1>9. CASE Timers
    <2>1. UNCHANGED worker
      BY <1>9, Frames
    <2> QED
      BY <1>7, <1>9, <2>1, TimerEffect
  <1>10. CASE UNCHANGED <<worker, sess>>
    BY <1>2, <1>10
  <1> QED
    BY <1>3, <1>4, <1>5, <1>6, <1>8, <1>9, <1>10, Actions, Frames DEF vars

LEMMA ChannelsInit == Init => Handshake /\ PageInv /\ RateInv
  <1> HAVE Init
  <1>1. PICK l : IsMap(l) /\ \E ring \in SUBSET DOMAIN l :
            LET c == [profiles |-> NoProfiles, legacy |-> l, secrets |-> ring]
            IN  conf = load_all(c) /\ ui = NewUi(c)
    BY InitChoice
  <1>2. ~ui.busy /\ ui.page = "connect" /\ ui.settings = 0
    BY <1>1, FirstUi
  <1>3. cmds = <<>> /\ evs = <<>> /\ worker.pc = "idle" /\ worker.session = 0 /\ worker.settings = 0
    BY InitRest
  <1>4. Len(cmds) = 0 /\ Len(evs) = 0
    BY <1>3
  <1>5. /\ OneAsk /\ OneAnswer /\ LeaveFirst /\ LastRate
        /\ \A op : ~Queued(op)
        /\ \A ev : ~Told(ev)
    BY <1>4 DEF OneAsk, OneAnswer, LeaveFirst, LastRate, Queued, Told
  <1> QED
    BY <1>2, <1>3, <1>5 DEF Handshake, PageInv, RateInv, AtPace, Answered

\* The two channels between the window and the worker, inductively: at most one Connect
\* is asked and answered at a time, the page waits while it is, and the last SetSettings
\* on its way carries the rates last saved.
THEOREM ChannelsHold == Spec => [](Types /\ Handshake /\ PageInv /\ RateInv)
  <1>1. Types /\ RateInv /\ [Next]_vars => RateInv'
    BY QueueRateStep, SessionRateStep DEF RateInv
  <1> QED
    BY <1>1, ChannelsInit, HandshakeStep, PageStep, TypesHold, PTL DEF Spec

\* App's types, for every value of the constants: among them that a Connect at work was
\* sent by a page that is waiting for it, and that a command at work is of a session
\* there is.
THEOREM AppTypes == Spec => []TypeOK
  <1>1. Types /\ Handshake => TypeOK
    <2> SUFFICES ASSUME Types, Handshake PROVE TypeOK
      OBVIOUS
    <2>1. IsConf(conf) /\ IsUi(ui) /\ cmds \in Seq(Commands) /\ evs \in Seq(Events) /\ WorkerOK /\ SessOK /\ TasksOK /\ VaultOK
      BY DEF Types
    <2>2. DOMAIN conf.profiles \subseteq Names /\ conf.secrets \subseteq Names
          /\ \A n \in DOMAIN conf.profiles : conf.profiles[n] \in SavedProfiles
      BY <2>1 DEF IsConf, IsMap
    <2>3. /\ ui.page \in {"connect", "browser"} /\ ui.view \in {"list", "form"}
          /\ ui.editing \in Names \cup {NoName} /\ Len(ui.path) > 0 /\ ui.path[1] = Root
          /\ \A i \in 1 .. Len(ui.path) : ui.path[i] \in Dirs \cup {Root}
      BY <2>1 DEF IsUi
    <2>4. /\ \A i \in 1 .. Len(cmds) : cmds[i] \in Commands
          /\ \A i \in 1 .. Len(evs) : evs[i] \in Events
      BY <2>1
    <2>5. /\ worker.pc \in {"idle", "dial", "auth", "vault", "put", "hung"} /\ worker.session \in 0 .. Len(sess)
          /\ worker.pc # "idle" => ui.busy
      BY <2>1 DEF WorkerOK, Handshake
    <2>6. \A i \in 1 .. Len(sess) : /\ sess[i].timer \in {"live", "stopping", "gone"}
                                    /\ sess[i].dirty => sess[i].e2ee
                                    /\ sess[i].key \in Keys
      <3>1. \A i \in 1 .. Len(sess) : sess[i] \in Sessions
        BY <2>1 DEF SessOK
      <3>2. \A x \in Sessions : x.timer \in {"live", "stopping", "gone"} /\ x.key \in Keys
        BY DEF Sessions
      <3> QED
        BY <2>1, <3>1, <3>2 DEF SessOK
    <2>7. \A t \in tasks : t.sid \in 1 .. Len(sess) /\ t.cmd.op \in {"list", "edit", "transfer"}
      BY <2>1 DEF TasksOK
    <2>8. \A p \in Places : vault[p] \subseteq Keys
      BY <2>1 DEF VaultOK
    <2> QED
      BY <2>2, <2>3, <2>4, <2>5, <2>6, <2>7, <2>8 DEF TypeOK
  <1> QED
    BY <1>1, ChannelsHold, PTL

\* For every sequence of clicks, connections and failures: once both channels are empty
\* the page is sensitive, the browser is in front exactly while the worker has a session,
\* that session runs at the rates last saved, and its flush interval is the saved one or
\* the one it began with.
THEOREM PagesAlwaysAgree == Spec => []PageAgrees
  <1>1. Types /\ Handshake /\ PageInv /\ RateInv => PageAgrees
    <2> SUFFICES ASSUME Types, Handshake, PageInv, RateInv, Quiet PROVE PageAgrees
      BY DEF PageAgrees
    <2>1. cmds = <<>> /\ evs = <<>> /\ worker.pc = "idle" /\ ui.page \in {"connect", "browser"}
      BY DEF Quiet, Types, IsUi
    <2>2. Len(cmds) = 0 /\ Len(evs) = 0
      BY <2>1
    <2>3. /\ \A op : ~Queued(op)
          /\ \A ev : ~Told(ev)
      BY <2>2 DEF Queued, Told
    <2> QED
      BY <2>1, <2>3 DEF PageAgrees, Handshake, PageInv, RateInv, AtPace, Answered
  <1> QED
    BY <1>1, ChannelsHold, PTL

-----------------------------------------------------------------------------
(* The listing on display.                                                   *)

\* The browser shows the folder it is in, or failed to, or the answer for that folder is
\* still to come: its command, its task or its event is there, or the report of a failure.
Settled == ~ui.pending /\ (ui.missed \/ (ui.shown.sid # 0 /\ ui.shown.prefix = current_prefix(ui)))
Wanted(c) == c.op = "list" /\ c.prefix = current_prefix(ui)
Asked == \E i \in 1 .. Len(cmds) : Wanted(cmds[i])
AtWork == \E t \in tasks : Wanted(t.cmd)
Brings(e) == e.ev = "list_failed" \/ (e.ev = "listed" /\ e.prefix = current_prefix(ui))
Coming == \E i \in 1 .. Len(evs) : Brings(evs[i])
ListInv == ui.page = "browser" => Settled \/ Asked \/ AtWork \/ Coming

\* A listing that is asked for is on its way.
LEMMA AskedNow ==
  ASSUME Types, NEW c, Sends(c), c.op = "list", c.prefix = current_prefix(ui')
  PROVE  Asked'
  <1>1. Len(cmds) + 1 \in 1 .. Len(cmds') /\ cmds'[Len(cmds) + 1] = c
    BY Appended DEF Types, Sends
  <1> QED
    BY <1>1 DEF Asked, Wanted

LEMMA AskedStays ==
  ASSUME Types, NEW c, Sends(c), ui'.path = ui.path, Asked
  PROVE  Asked'
  <1>1. \A i \in 1 .. Len(cmds) : i \in 1 .. Len(cmds') /\ cmds'[i] = cmds[i]
    BY Appended DEF Types, Sends
  <1> QED
    BY <1>1 DEF Asked, Wanted, current_prefix

LEMMA ComingStays ==
  ASSUME Types, NEW e, evs' = Append(evs, e), ui' = ui
  PROVE  (Coming => Coming') /\ (Brings(e) => Coming')
  <1>1. evs \in Seq(Events \cup {e})
    BY DEF Types
  <1>2. /\ \A i \in 1 .. Len(evs) : i \in 1 .. Len(evs') /\ evs'[i] = evs[i]
        /\ Len(evs) + 1 \in 1 .. Len(evs') /\ evs'[Len(evs) + 1] = e
    BY <1>1, Appended
  <1> QED
    BY <1>2 DEF Coming, Brings

LEMMA ListStep == Types /\ PageInv /\ ListInv /\ [Next]_vars => ListInv'
  <1> SUFFICES ASSUME Types, PageInv, ListInv, [Next]_vars, ui'.page = "browser"
               PROVE  Settled' \/ Asked' \/ AtWork' \/ Coming'
    BY DEF ListInv
  <1>1. CASE \/ AddClicked \/ BackClicked \/ Editing \/ Deletion \/ SavedConnect \/ FormConnect
             \/ Listing \/ DisconnectClicked \/ SettingsSaved \/ Order
    <2>1. UNCHANGED <<evs, tasks>>
      BY <1>1, Clicks
    <2>2. CASE ui'.page = ui.page /\ SameList /\ (UNCHANGED cmds \/ \E c : Sends(c))
      <3>1. Settled => Settled'
        BY <2>2 DEF Settled, SameList, current_prefix
      <3>2. Asked => Asked'
        <4>1. CASE UNCHANGED cmds
          BY <2>2, <4>1 DEF Asked, Wanted, SameList, current_prefix
        <4>2. CASE \E c : Sends(c)
          BY <2>2, <4>2, AskedStays DEF SameList
        <4> QED
          BY <2>2, <4>1, <4>2
      <3>3. (AtWork => AtWork') /\ (Coming => Coming')
        BY <2>1, <2>2 DEF AtWork, Wanted, Coming, Brings, SameList, current_prefix
      <3> QED
        BY <2>2, <3>1, <3>2, <3>3 DEF ListInv
    <2>3. CASE \E c : Sends(c) /\ c.op = "list" /\ c.prefix = current_prefix(ui')
      BY <2>3, AskedNow
    <2> QED
      BY <1>1, <2>2, <2>3, Clicks DEF SamePage
  <1>2. CASE EventLoop
    <2> DEFINE e == Head(evs)
    <2>1. UNCHANGED tasks /\ evs # <<>> /\ evs' = Tail(evs)
      BY <1>2, EventsEffect
    <2>2. CASE \E c : Sends(c) /\ c.op = "list" /\ c.prefix = current_prefix(ui')
      BY <2>2, AskedNow
    <2>3. CASE ~ui'.pending /\ ui'.shown.sid # 0 /\ ui'.shown.prefix = current_prefix(ui')
      BY <2>3 DEF Settled
    <2>4. CASE ~ui'.pending /\ ui'.missed
      BY <2>4 DEF Settled
    <2>5. CASE ui'.page = ui.page /\ SameList /\ UNCHANGED cmds /\ ~Brings(e)
      <3>1. Settled => Settled'
        BY <2>5 DEF Settled, SameList, current_prefix
      <3>2. (Asked => Asked') /\ (AtWork => AtWork')
        BY <2>1, <2>5 DEF Asked, AtWork, Wanted, SameList, current_prefix
      <3>3. ASSUME Coming PROVE Coming'
        <4>1. PICK i \in 1 .. Len(evs) : Brings(evs[i])
          BY <3>3 DEF Coming
        <4>2. i # 1
          BY <2>1, <2>5, <4>1, Removed DEF Types
        <4>3. i - 1 \in 1 .. Len(evs') /\ evs'[i - 1] = evs[i]
          BY <2>1, <4>2, Removed DEF Types
        <4>4. Brings(evs[i]) => (\E j \in 1 .. Len(evs') : evs'[j].ev = "list_failed"
                                    \/ (evs'[j].ev = "listed" /\ evs'[j].prefix = current_prefix(ui')))
          BY <2>5, <4>3 DEF Brings, SameList, current_prefix
        <4> QED
          BY <4>1, <4>4 DEF Coming, Brings
      <3> QED
        BY <2>5, <3>1, <3>2, <3>3 DEF ListInv
    <2>6. \/ \E c : Sends(c) /\ c.op = "list" /\ c.prefix = current_prefix(ui')
          \/ ~ui'.pending /\ ui'.shown.sid # 0 /\ ui'.shown.prefix = current_prefix(ui')
          \/ ~ui'.pending /\ ui'.missed
          \/ ui'.page = ui.page /\ SameList /\ UNCHANGED cmds /\ ~Brings(e)
      BY <1>2, EventsEffect DEF SamePage, SameList, Brings
    <2> QED
      BY <2>2, <2>3, <2>4, <2>5, <2>6
  <1>3. CASE SetSettings \/ Disconnect \/ Spawned \/ Connect
    <2>1. UNCHANGED <<ui, evs>> /\ cmds # <<>> /\ cmds' = Tail(cmds)
      BY <1>3, Dispatches
    <2>2. (Settled => Settled') /\ (Coming => Coming')
      BY <2>1 DEF Settled, Coming, Brings, current_prefix
    <2>3. tasks \subseteq tasks'
      BY <1>3 DEF SetSettings, Disconnect, Spawned, Connect
    <2>4. AtWork => AtWork'
      BY <2>1, <2>3 DEF AtWork, Wanted, current_prefix
    <2>5. ASSUME Asked PROVE Asked' \/ AtWork'
      <3>1. PICK i \in 1 .. Len(cmds) : Wanted(cmds[i])
        BY <2>5 DEF Asked
      <3>2. CASE i = 1
        <4>1. Wanted(Cmd)
          BY <2>1, <3>1, <3>2, Removed DEF Types, Cmd
        <4>2. Spawned
          BY <1>3, <4>1 DEF SetSettings, Disconnect, Connect, Wanted
        <4>3. worker.session # 0
          BY <2>1 DEF PageInv
        <4> DEFINE w == [cmd |-> Cmd, sid |-> worker.session, pc |-> "run", tried |-> FALSE]
        <4>4. w \in tasks' /\ w.cmd = Cmd
          BY <4>2, <4>3 DEF Spawned
        <4> HIDE DEF w
        <4> QED
          BY <2>1, <4>1, <4>4 DEF AtWork, Wanted
      <3>3. CASE i # 1
        <4>1. i - 1 \in 1 .. Len(cmds') /\ cmds'[i - 1] = cmds[i]
          BY <2>1, <3>3, Removed DEF Types
        <4> QED
          BY <2>1, <3>1, <4>1 DEF Asked, Wanted
      <3> QED
        BY <3>2, <3>3
    <2> QED
      BY <2>1, <2>2, <2>4, <2>5 DEF ListInv
  <1>4. CASE Connecting \/ ServerSilent
    <2>1. UNCHANGED <<ui, cmds, tasks>>
      BY <1>4, Connects
    <2>2. (Settled => Settled') /\ (Asked => Asked') /\ (AtWork => AtWork')
      BY <2>1 DEF Settled, Asked, AtWork, Wanted, current_prefix
    <2>3. Coming => Coming'
      <3>1. CASE UNCHANGED evs
        BY <2>1, <3>1 DEF Coming, Brings
      <3>2. CASE \E e : evs' = Append(evs, e)
        BY <2>1, <3>2, ComingStays
      <3> QED
        BY <1>4, <3>1, <3>2, Connects
    <2> QED
      BY <2>1, <2>2, <2>3 DEF ListInv
  <1>5. CASE ListWork \/ Working \/ Timers
    <2>1. UNCHANGED <<ui, cmds, worker>>
      BY <1>5, Backgrounds
    <2>2. (Settled => Settled') /\ (Asked => Asked')
      BY <2>1 DEF Settled, Asked, Wanted, current_prefix
    <2>3. Coming => Coming'
      <3>1. CASE UNCHANGED evs
        BY <2>1, <3>1 DEF Coming, Brings
      <3>2. CASE \E e : evs' = Append(evs, e)
        BY <2>1, <3>2, ComingStays
      <3> QED
        BY <1>5, <3>1, <3>2, Backgrounds
    <2>4. ASSUME AtWork PROVE AtWork' \/ Coming'
      <3>1. PICK t \in tasks : Wanted(t.cmd)
        BY <2>4 DEF AtWork
      <3>2. t \in tasks' => AtWork'
        BY <2>1, <3>1 DEF AtWork, Wanted
      <3>3. CASE Timers
        BY <3>2, <3>3, Frames
      <3>4. ASSUME NEW u \in tasks, u # t, Work(u) \/ FlushTask(u) \/ ListTask(u) PROVE AtWork'
        BY <3>2, <3>4, OthersStay
      <3>5. CASE Work(t) \/ FlushTask(t)
        BY <3>1, <3>5 DEF Work, FlushTask, Wanted, Types, TasksOK
      <3>6. CASE ListTask(t)
        <4>1. \/ evs' = Append(evs, [ev |-> "listed", n |-> t.cmd.n, sid |-> t.sid, prefix |-> t.cmd.prefix])
              \/ evs' = Append(evs, [ev |-> "list_failed"])
              \/ tasks' = (tasks \ {t}) \cup {[t EXCEPT !.pc = "run", !.tried = TRUE]}
          BY <3>6 DEF ListTask, Reported, GaveUp, Again
        <4>2. ASSUME tasks' = (tasks \ {t}) \cup {[t EXCEPT !.pc = "run", !.tried = TRUE]} PROVE AtWork'
          <5>1. [t EXCEPT !.pc = "run", !.tried = TRUE].cmd = t.cmd
            BY DEF Types, TasksOK
          <5> QED
            BY <2>1, <3>1, <4>2, <5>1 DEF AtWork, Wanted
        <4>3. Brings([ev |-> "listed", n |-> t.cmd.n, sid |-> t.sid, prefix |-> t.cmd.prefix])
          BY <3>1 DEF Wanted, Brings
        <4>4. Brings([ev |-> "list_failed"])
          BY DEF Brings
        <4> QED
          BY <2>1, <4>1, <4>2, <4>3, <4>4, ComingStays
      <3> QED
        BY <1>5, <3>3, <3>4, <3>5, <3>6 DEF ListWork, Working
    <2> QED
      BY <2>1, <2>2, <2>3, <2>4 DEF ListInv
  <1>6. CASE UNCHANGED vars
    BY <1>6 DEF vars, ListInv, Settled, Asked, AtWork, Coming, Wanted, Brings, current_prefix
  <1> QED
    BY <1>1, <1>2, <1>3, <1>4, <1>5, <1>6, Actions

\* Unless an earlier request was under way when the last one was made, whatever is on its
\* way answers the last one, in the session in use, and the browser shows that answer
\* once it is in.
FreshInv ==
  ui.page = "browser" /\ ~ui.crossed =>
     /\ \A i \in 1 .. Len(cmds) : cmds[i].op = "list" => cmds[i].n = ui.gen
     /\ \A t \in tasks : t.cmd.op = "list" => t.cmd.n = ui.gen /\ t.sid = worker.session
     /\ \A i \in 1 .. Len(evs) : evs[i].ev = "listed" => evs[i].n = ui.gen /\ evs[i].sid = worker.session
     /\ ui.pending \/ ui.missed \/ (ui.shown.gen = ui.gen /\ ui.shown.sid = worker.session)

\* A request made while nothing is under way is the only one there is.
LEMMA FreshRequest ==
  ASSUME Types, NEW c, Sends(c), c.op = "list", Asking(c), UNCHANGED tasks,
         \A i \in 1 .. Len(evs') : \E j \in 1 .. Len(evs) : evs'[i] = evs[j]
  PROVE  FreshInv'
  <1> SUFFICES ASSUME ~ListingUnderWay PROVE FreshInv'
    BY DEF Asking, FreshInv
  <1>1. ASSUME NEW i \in 1 .. Len(cmds'), cmds'[i].op = "list" PROVE cmds'[i].n = ui'.gen
    <2>1. /\ Len(cmds') = Len(cmds) + 1 /\ Len(cmds) \in Nat /\ cmds'[Len(cmds) + 1] = c
          /\ \A j \in 1 .. Len(cmds) : cmds'[j] = cmds[j]
      BY Appended DEF Types, Sends
    <2>2. i = Len(cmds) + 1 \/ i \in 1 .. Len(cmds)
      BY <2>1
    <2> QED
      BY <1>1, <2>1, <2>2 DEF ListingUnderWay, Asking
  <1>2. \A t \in tasks : t.cmd.op # "list"
    BY DEF ListingUnderWay
  <1>3. \A i \in 1 .. Len(evs') : evs'[i].ev # "listed"
    BY DEF ListingUnderWay
  <1> QED
    BY <1>1, <1>2, <1>3 DEF FreshInv, Asking

\* What takes a list command from the queue or adds another command keeps it.
LEMMA FreshCommands ==
  ASSUME Types, FreshInv, UNCHANGED <<evs, worker>>, ui'.page = ui.page, SameList,
         \A t \in tasks' : t.cmd.op = "list" => t \in tasks \/ (\E i \in 1 .. Len(cmds) : t.cmd = cmds[i] /\ t.sid = worker.session),
         \A i \in 1 .. Len(cmds') : cmds'[i].op = "list" => \E j \in 1 .. Len(cmds) : cmds'[i] = cmds[j]
  PROVE  FreshInv'
  BY DEF FreshInv, SameList

LEMMA FreshStep == Types /\ PageInv /\ FreshInv /\ [Next]_vars => FreshInv'
  <1> SUFFICES ASSUME Types, PageInv, FreshInv, [Next]_vars PROVE FreshInv'
    OBVIOUS
  <1>0. cmds \in Seq(Commands) /\ evs \in Seq(Events)
    BY DEF Types
  <1>1. CASE \/ AddClicked \/ BackClicked \/ Editing \/ Deletion \/ SavedConnect \/ FormConnect
             \/ Listing \/ DisconnectClicked \/ SettingsSaved \/ Order
    <2>1. UNCHANGED <<evs, tasks, worker>>
      BY <1>1, Clicks
    <2>2. CASE ui'.page = ui.page /\ SameList /\ UNCHANGED cmds
      BY <2>1, <2>2, FreshCommands
    <2>3. ASSUME NEW c, Sends(c), c.op # "list", ui'.page = ui.page, SameList PROVE FreshInv'
      <3>1. \A i \in 1 .. Len(cmds') : cmds'[i].op = "list" => \E j \in 1 .. Len(cmds) : cmds'[i] = cmds[j]
        <4>1. /\ Len(cmds') = Len(cmds) + 1 /\ Len(cmds) \in Nat /\ cmds'[Len(cmds) + 1] = c
              /\ \A j \in 1 .. Len(cmds) : cmds'[j] = cmds[j]
          BY <1>0, <2>3, Appended DEF Sends
        <4> QED
          BY <2>3, <4>1
      <3> QED
        BY <2>1, <2>3, <3>1, FreshCommands
    <2>4. CASE \E c : Sends(c) /\ c.op = "list" /\ Asking(c)
      BY <2>1, <2>4, FreshRequest
    <2>5. CASE ui'.page = "connect"
      BY <2>5 DEF FreshInv
    <2> QED
      BY <1>1, <2>2, <2>3, <2>4, <2>5, Clicks DEF SamePage
  <1>2. CASE EventLoop
    <2> DEFINE e == Head(evs)
    <2>1. /\ UNCHANGED <<tasks, worker>> /\ evs # <<>> /\ evs' = Tail(evs)
          /\ \A i \in 1 .. Len(evs') : \E j \in 1 .. Len(evs) : evs'[i] = evs[j]
          /\ \E j \in 1 .. Len(evs) : e = evs[j]
      <3>1. UNCHANGED <<tasks, worker>> /\ evs # <<>> /\ evs' = Tail(evs)
        BY <1>2, EventsEffect
      <3>2. /\ Len(Tail(evs)) = Len(evs) - 1 /\ Len(evs) \in Nat \ {0} /\ e = evs[1]
            /\ \A i \in 1 .. Len(evs) - 1 : Tail(evs)[i] = evs[i + 1]
        BY <1>0, <3>1, Removed
      <3>3. ASSUME NEW i \in 1 .. Len(evs') PROVE \E j \in 1 .. Len(evs) : evs'[i] = evs[j]
        <4>1. i + 1 \in 1 .. Len(evs) /\ evs'[i] = evs[i + 1]
          BY <3>1, <3>2
        <4> QED
          BY <4>1
      <3>4. 1 \in 1 .. Len(evs)
        BY <3>2
      <3> QED
        BY <3>1, <3>2, <3>3, <3>4
    <2>2. CASE \E c : Sends(c) /\ c.op = "list" /\ Asking(c)
      BY <2>1, <2>2, FreshRequest
    <2>3. CASE ui'.page = ui.page /\ SameList /\ UNCHANGED cmds
      BY <2>1, <2>3 DEF FreshInv, SameList
    <2>4. CASE /\ e.ev = "listed" /\ ui'.page = ui.page /\ UNCHANGED cmds /\ ui'.gen = ui.gen /\ ui'.crossed = ui.crossed
               /\ ui'.shown.sid = e.sid /\ ui'.shown.gen = e.n
      <3> HIDE DEF e
      <3> QED
        BY <2>1, <2>4 DEF FreshInv
    <2>5. CASE ui'.page = ui.page /\ UNCHANGED cmds /\ ui'.missed /\ ui'.gen = ui.gen /\ ui'.crossed = ui.crossed
      BY <2>1, <2>5 DEF FreshInv
    <2>6. \/ \E c : Sends(c) /\ c.op = "list" /\ Asking(c)
          \/ ui'.page = ui.page /\ SameList /\ UNCHANGED cmds
          \/ /\ e.ev = "listed" /\ ui'.page = ui.page /\ UNCHANGED cmds /\ ui'.gen = ui.gen /\ ui'.crossed = ui.crossed
             /\ ui'.shown.sid = e.sid /\ ui'.shown.gen = e.n
          \/ ui'.page = ui.page /\ UNCHANGED cmds /\ ui'.missed /\ ui'.gen = ui.gen /\ ui'.crossed = ui.crossed
      BY <1>2, EventsEffect DEF SamePage, SameList
    <2> HIDE DEF e
    <2> QED
      BY <2>2, <2>3, <2>4, <2>5, <2>6
  <1>3. CASE SetSettings \/ Disconnect \/ Spawned \/ Connect
    <2>1. UNCHANGED <<ui, evs>> /\ cmds # <<>> /\ cmds' = Tail(cmds)
      BY <1>3, Dispatches
    <2>2. /\ \A i \in 1 .. Len(cmds') : \E j \in 1 .. Len(cmds) : cmds'[i] = cmds[j]
          /\ \E j \in 1 .. Len(cmds) : Cmd = cmds[j]
      <3>1. /\ Len(Tail(cmds)) = Len(cmds) - 1 /\ Len(cmds) \in Nat \ {0} /\ Cmd = cmds[1]
            /\ \A i \in 1 .. Len(cmds) - 1 : Tail(cmds)[i] = cmds[i + 1]
        BY <1>0, <2>1, Removed DEF Cmd
      <3>2. ASSUME NEW i \in 1 .. Len(cmds') PROVE \E j \in 1 .. Len(cmds) : cmds'[i] = cmds[j]
        <4>1. i + 1 \in 1 .. Len(cmds) /\ cmds'[i] = cmds[i + 1]
          BY <2>1, <3>1
        <4> QED
          BY <4>1
      <3>3. 1 \in 1 .. Len(cmds)
        BY <3>1
      <3> QED
        BY <3>1, <3>2, <3>3
    <2>3. CASE ui.page # "browser"
      BY <2>1, <2>3 DEF FreshInv
    <2>4. CASE ui.page = "browser"
      <3>1. Cmd.op # "disconnect"
        <4>1. ~Queued("disconnect")
          BY <2>4 DEF PageInv
        <4> QED
          BY <2>1, <4>1, TakeEffect
      <3>2. worker'.session = worker.session
        BY <1>3, <2>1, <3>1, Dispatches
      <3>3. ASSUME NEW t \in tasks' PROVE t \in tasks \/ (t.cmd = Cmd /\ t.sid = worker.session)
        <4>1. CASE Spawned
          BY <3>3, <4>1 DEF Spawned
        <4>2. CASE SetSettings \/ Disconnect \/ Connect
          BY <3>3, <4>2, Frames
        <4> QED
          BY <1>3, <4>1, <4>2
      <3> HIDE DEF Cmd
      <3> QED
        BY <2>1, <2>2, <3>2, <3>3 DEF FreshInv
    <2> QED
      BY <2>3, <2>4
  <1>4. CASE Connecting \/ ServerSilent
    <2>1. UNCHANGED ui /\ ui.page # "browser"
      BY <1>4, Connects DEF PageInv
    <2> QED
      BY <2>1 DEF FreshInv
  <1>5. CASE ListWork
    <2>1. UNCHANGED <<ui, cmds, worker>>
      BY <1>5, Frames
    <2>2. PICK t \in tasks : ListTask(t)
      BY <1>5 DEF ListWork
    <2>3. t.cmd.op = "list"
      BY <2>2 DEF ListTask
    <2>4. \A u \in tasks' : u \in tasks \/ (u.cmd = t.cmd /\ u.sid = t.sid)
      <3>1. [t EXCEPT !.pc = "run", !.tried = TRUE].cmd = t.cmd /\ [t EXCEPT !.pc = "run", !.tried = TRUE].sid = t.sid
        BY DEF Types, TasksOK
      <3>2. tasks' = tasks \ {t} \/ tasks' = (tasks \ {t}) \cup {[t EXCEPT !.pc = "run", !.tried = TRUE]}
        BY <2>2 DEF ListTask, Reported, GaveUp, Again
      <3> QED
        BY <3>1, <3>2
    <2>5. \A i \in 1 .. Len(evs') : \/ \E j \in 1 .. Len(evs) : evs'[i] = evs[j]
                                    \/ evs'[i].ev = "list_failed"
                                    \/ evs'[i].n = t.cmd.n /\ evs'[i].sid = t.sid
      <3>1. ASSUME NEW x, evs' = Append(evs, x)
            PROVE  \A i \in 1 .. Len(evs') : (\E j \in 1 .. Len(evs) : evs'[i] = evs[j]) \/ evs'[i] = x
        <4>1. evs \in Seq(Events \cup {x})
          BY <1>0
        <4>2. /\ Len(evs') = Len(evs) + 1 /\ Len(evs) \in Nat /\ evs'[Len(evs) + 1] = x
              /\ \A i \in 1 .. Len(evs) : evs'[i] = evs[i]
          BY <3>1, <4>1, Appended
        <4> QED
          BY <4>2
      <3>2. \/ UNCHANGED evs \/ evs' = Append(evs, [ev |-> "list_failed"])
            \/ evs' = Append(evs, [ev |-> "listed", n |-> t.cmd.n, sid |-> t.sid, prefix |-> t.cmd.prefix])
        BY <2>2 DEF ListTask, Reported, GaveUp, Again
      <3> QED
        BY <3>1, <3>2
    <2> QED
      BY <2>1, <2>3, <2>4, <2>5 DEF FreshInv
  <1>6. CASE Working \/ Timers
    <2>1. UNCHANGED <<ui, cmds, worker>>
      BY <1>6, Frames
    <2>2. \A u \in tasks' : u.cmd.op = "list" => u \in tasks
      <3>1. CASE Timers
        BY <3>1, Frames
      <3>2. CASE Working
        <4>1. PICK t \in tasks : Work(t) \/ FlushTask(t)
          BY <3>2 DEF Working
        <4>2. t.cmd.op # "list"
          BY <4>1 DEF Work, FlushTask, Types, TasksOK
        <4>3. \A x : [t EXCEPT !.pc = x].cmd = t.cmd /\ [t EXCEPT !.pc = x, !.tried = TRUE].cmd = t.cmd
          BY DEF Types, TasksOK
        <4>4. tasks' = tasks \ {t} \/ GaveUp(t, Toast) \/ tasks' = (tasks \ {t}) \cup {[t EXCEPT !.pc = "flush"]}
          BY <4>1, WorkEffect, FlushEffect DEF Reported
        <4>5. GaveUp(t, Toast) => tasks' = tasks \ {t} \/ tasks' = (tasks \ {t}) \cup {[t EXCEPT !.pc = "run", !.tried = TRUE]}
          BY GaveUpEffect
        <4> QED
          BY <4>2, <4>3, <4>4, <4>5
      <3> QED
        BY <1>6, <3>1, <3>2
    <2>3. \A i \in 1 .. Len(evs') : evs'[i].ev = "listed" => \E j \in 1 .. Len(evs) : evs'[i] = evs[j]
      <3>1. ASSUME NEW x, evs' = Append(evs, x), x.ev # "listed"
            PROVE  \A i \in 1 .. Len(evs') : evs'[i].ev = "listed" => \E j \in 1 .. Len(evs) : evs'[i] = evs[j]
        <4>1. evs \in Seq(Events \cup {x})
          BY <1>0
        <4>2. /\ Len(evs') = Len(evs) + 1 /\ Len(evs) \in Nat /\ evs'[Len(evs) + 1] = x
              /\ \A i \in 1 .. Len(evs) : evs'[i] = evs[i]
          BY <3>1, <4>1, Appended
        <4> QED
          BY <3>1, <4>2
      <3>2. UNCHANGED evs \/ evs' = Append(evs, Done) \/ evs' = Append(evs, Toast)
        <4>1. CASE Timers
          BY <4>1, Frames
        <4>2. CASE Working
          <5>1. PICK t \in tasks : Work(t) \/ FlushTask(t)
            BY <4>2 DEF Working
          <5>2. UNCHANGED evs \/ Reported(t, Done) \/ GaveUp(t, Toast)
            BY <5>1, WorkEffect, FlushEffect
          <5> QED
            BY <5>2 DEF GaveUp, Again, Reported
        <4> QED
          BY <1>6, <4>1, <4>2
      <3> QED
        BY <3>1, <3>2 DEF Done, Toast
    <2> QED
      BY <2>1, <2>2, <2>3 DEF FreshInv
  <1>7. CASE UNCHANGED vars
    BY <1>7 DEF vars, FreshInv
  <1> QED
    BY <1>1, <1>2, <1>3, <1>4, <1>5, <1>6, <1>7, Actions

\* However fast the user clicks through the folders and however late or often the answers
\* come or fail: when every answer is in, the spinner is off, and the rows are those of
\* the folder in the breadcrumbs unless a listing failed.  They are the answer to the last
\* request, read in the session in use, unless that request was made while an earlier one
\* was under way (browser_page.rs keeps the generation of the last request but set_listing
\* compares only the folder).
THEOREM ListingAlwaysSettles == Spec => []ListingSettles
  <1>1. Init => ListInv /\ FreshInv
    <2> HAVE Init
    <2>1. PICK l : IsMap(l) /\ \E ring \in SUBSET DOMAIN l :
              LET c == [profiles |-> NoProfiles, legacy |-> l, secrets |-> ring]
              IN  conf = load_all(c) /\ ui = NewUi(c)
      BY InitChoice
    <2>2. ui.page = "connect"
      BY <2>1, FirstUi
    <2> QED
      BY <2>2 DEF ListInv, FreshInv
  <1>2. ListInv /\ FreshInv => ListingSettles
    <2> SUFFICES ASSUME ListInv, FreshInv, Quiet, tasks = {}, ui.page = "browser"
                 PROVE  Settled /\ (~ui.missed /\ ~ui.crossed => ui.shown.gen = ui.gen /\ ui.shown.sid = worker.session)
      BY DEF ListingSettles, Settled
    <2>1. Len(cmds) = 0 /\ Len(evs) = 0
      BY DEF Quiet
    <2>2. Settled
      BY <2>1 DEF ListInv, Asked, AtWork, Coming
    <2> QED
      BY <2>2 DEF FreshInv, Settled
  <1> QED
    BY <1>1, <1>2, ListStep, FreshStep, ChannelsHold, PTL DEF Spec

=============================================================================

-------------------------------- MODULE App --------------------------------
(***************************************************************************)
(* The application around one storage: the connection page, the browser    *)
(* page and the event loop of the window (src/src/ui), the saved profiles, *)
(* the keychain and the known hosts (src/src/settings.rs), and the         *)
(* worker's dispatch loop with connect, the vault and the flush timers     *)
(* (src/src/worker.rs).  Two FIFO channels join the GTK thread and the     *)
(* worker: cmds and evs.                                                   *)
(*                                                                         *)
(* A command on a session is a task that ends with one event; what it does *)
(* on the backend and to the manifests is DirOps', and here one step that  *)
(* may leave the session's manifests dirty.                                *)
(***************************************************************************)
EXTENDS Naturals, Sequences

CONSTANTS Names,         \* names of connections
          Kinds, Modes,  \* of the profiles the user fills in: kind of backend, e2ee or not
          Passwords,     \* encryption passwords the user types
          Dirs,          \* folders in the root
          Budgets        \* bounds, one of them for each behaviour: Connects, clicks that
                         \* change the connection page, other clicks, faults

BackendKind == {"s3", "sftp", "smb", "nfs"}
Places == BackendKind \cup {"global"}   \* of a vault: one a storage, and GLOBAL_VAULT_DIR of an SSH server
Root == ""
NoName == ""

ASSUME AppAssumption ==
    /\ Kinds \subseteq BackendKind /\ Modes \subseteq BOOLEAN
    /\ NoName \notin Names /\ Names # {} /\ Root \notin Dirs
    /\ Budgets \subseteq [connects : Nat, pages : Nat, clicks : Nat, faults : Nat]

VARIABLES conf,     \* profiles.json, the older profile.json and the keychain
          ui,       \* see NewUi
          cmds, evs,
          worker,   \* locals of dispatch, and of connect while it runs
          sess,     \* the sessions so far, with their flush timers
          tasks,    \* the commands at work
          vault,    \* the vault file of each place there is one: none or one
          host,     \* the host key in known_hosts.json, the one this connection observed;
                    \* history: the ones that got the secret, the ones that could not be saved
          left,     \* what is left of the budget
          stray     \* history: secrets the keychain failed to delete

vars == <<conf, ui, cmds, evs, worker, sess, tasks, vault, host, left, stray>>

Profiles == [kind : Kinds, e2ee : Modes]
NoProfiles == [n \in {} |-> 0]
Torn == [salt |-> 0, pw |-> NoName]

Spend(b) == left[b] > 0 /\ left' = [left EXCEPT ![b] = @ - 1]
Fault == Spend("faults")

-----------------------------------------------------------------------------
(* settings.rs *)

\* An older version's only profile becomes the first of the list.
load_all(c) == IF c.profiles = NoProfiles /\ c.legacy # NoProfiles
               THEN [c EXCEPT !.profiles = c.legacy, !.legacy = NoProfiles]
               ELSE c

With(f, n, p) == [k \in DOMAIN f \cup {n} |-> IF k = n THEN p ELSE f[k]]
upsert(c, n, p) == [load_all(c) EXCEPT !.profiles = With(@, n, p)]
store_secret(c, n) == [c EXCEPT !.secrets = @ \cup {n}]
delete_secret(c, n) == [c EXCEPT !.secrets = @ \ {n}]
Without(f, n) == [k \in DOMAIN f \ {n} |-> f[k]]

\* Fault: the secret stays in the keychain.
remove_profile_only(c, n) == [load_all(c) EXCEPT !.profiles = Without(@, n)]

remove(c, n) == delete_secret([load_all(c) EXCEPT !.profiles = Without(@, n)], n)

-----------------------------------------------------------------------------
(* The pages *)

current_prefix(u) == u.path[Len(u.path)]

rebuild_profile_rows(u, c) == [u EXCEPT !.rows = load_all(c).profiles]
fill_form(u, n) == [u EXCEPT !.editing = n]
show_start_view(u, c) ==
    LET v == rebuild_profile_rows(u, c)
    IN  IF v.rows # NoProfiles THEN [v EXCEPT !.view = "list"]
                               ELSE fill_form([v EXCEPT !.view = "form"], NoName)
reset(u, c) == show_start_view(rebuild_profile_rows(u, c), c)

set_busy(u, b) == [u EXCEPT !.busy = b]

\* Fault: a connection that failed leaves the page insensitive.
connect_failed_busy(u) == u

connect_failed(u) == set_busy(u, FALSE)

\* The listing on display is of one folder; the session and the request it answers,
\* that the last answer was an error, and that the last request was made while an
\* earlier one was under way, are history.
Cleared == [sid |-> 0, gen |-> 0, prefix |-> Root]

ListingUnderWay == \/ \E i \in 1 .. Len(cmds) : cmds[i].op = "list"
                   \/ \E t \in tasks : t.cmd.op = "list"
                   \/ \E i \in 1 .. Len(evs) : evs[i].ev \in {"listed", "list_failed"}

Requested(u) == [u EXCEPT !.gen = @ + 1, !.pending = TRUE, !.crossed = ListingUnderWay]

\* Fault: the request goes out for the folder that is being left.
ListBefore(u) == [op |-> "list", n |-> u.gen + 1, prefix |-> u.path[IF Len(u.path) > 1 THEN Len(u.path) - 1 ELSE 1]]

List(u) == [op |-> "list", n |-> u.gen + 1, prefix |-> current_prefix(u)]

request_list(u) == /\ ui' = Requested(u)
                   /\ cmds' = Append(cmds, List(u))

reset_to_root(u) == [u EXCEPT !.path = <<Root>>, !.shown = Cleared, !.missed = FALSE]

finish_loading(u) == [u EXCEPT !.pending = FALSE]
listing_failed(u) == [finish_loading(u) EXCEPT !.missed = TRUE]
set_listing(u, e) ==
    IF e.prefix # current_prefix(u) THEN u
    ELSE [finish_loading(u) EXCEPT !.missed = FALSE,
                                   !.shown = [sid |-> e.sid, gen |-> e.n, prefix |-> e.prefix]]

-----------------------------------------------------------------------------
(* Clicks on the connection page.  Its modal dialogs hold up every other     *)
(* click, so opening and answering one is a single step.  While a connection *)
(* is made the rows and the Connect button are insensitive; Add and Back     *)
(* are not.                                                                  *)

OnList == ui.page = "connect" /\ ui.view = "list"
OnForm == ui.page = "connect" /\ ui.view = "form"

AddClicked == /\ OnList /\ Spend("pages")
              /\ ui' = fill_form([ui EXCEPT !.view = "form"], NoName)
              /\ UNCHANGED <<conf, cmds, evs, worker, sess, tasks, vault, host, stray>>

BackClicked == /\ OnForm /\ Spend("pages")
               /\ conf' = load_all(conf)
               /\ ui' = show_start_view(ui, conf)
               /\ UNCHANGED <<cmds, evs, worker, sess, tasks, vault, host, stray>>

EditClicked(n) == /\ OnList /\ ~ui.busy /\ n \in DOMAIN ui.rows /\ Spend("pages")
                  /\ ui' = fill_form([ui EXCEPT !.view = "form"], n)
                  /\ UNCHANGED <<conf, cmds, evs, worker, sess, tasks, vault, host, stray>>

confirm_delete(n) ==
    /\ OnList /\ ~ui.busy /\ n \in DOMAIN ui.rows
    /\ ui' = rebuild_profile_rows(ui, remove(conf, n))
    /\ \/ Spend("pages") /\ conf' = load_all(remove(conf, n)) /\ UNCHANGED stray
       \/ /\ left.pages > 0 /\ Fault   \* the keychain refuses
          /\ conf' = load_all([remove(conf, n) EXCEPT !.secrets = conf.secrets])
          /\ stray' = stray \cup ({n} \cap conf.secrets)
    /\ UNCHANGED <<cmds, evs, worker, sess, tasks, vault, host>>

\* Fault: the rows and the button stay sensitive.
send_connect_sensitive(u, p, pw) == /\ ui' = u
                                    /\ cmds' = Append(cmds, [op |-> "connect", profile |-> p, pw |-> pw])

send_connect(u, p, pw) == /\ ui' = set_busy(u, TRUE)
                          /\ cmds' = Append(cmds, [op |-> "connect", profile |-> p, pw |-> pw])

\* The password prompt of an encrypted profile is part of the click.
connect_saved(n, pw) ==
    /\ OnList /\ ~ui.busy /\ n \in DOMAIN ui.rows
    /\ IF ui.rows[n].kind = "nfs" \/ n \in conf.secrets
       THEN Spend("connects") /\ send_connect(ui, ui.rows[n], IF ui.rows[n].e2ee THEN pw ELSE NoName)
       ELSE Spend("pages") /\ ui' = fill_form([ui EXCEPT !.view = "form"], n) /\ UNCHANGED cmds
    /\ UNCHANGED <<conf, evs, worker, sess, tasks, vault, host, stray>>

\* An incomplete form only moves the focus.
connect_from_form(n, p, pw) ==
    /\ OnForm /\ ~ui.busy
    /\ send_connect(ui, p, IF p.e2ee THEN pw ELSE NoName)
    /\ \/ Spend("connects") /\ UNCHANGED <<conf, stray>>     \* remember is off
       \/ LET renamed == ui.editing \notin {NoName, n}
              old == IF renamed THEN remove(conf, ui.editing) ELSE conf
          IN  /\ left.connects > 0 /\ left.pages > 0
              /\ left' = [left EXCEPT !.connects = @ - 1, !.pages = @ - 1]
              /\ \/ /\ conf' = store_secret(upsert(old, n, p), n)
                    /\ stray' = stray \ {n}
                 \/ /\ conf' = [upsert(old, n, p) EXCEPT !.secrets = conf.secrets]   \* the keychain refuses
                    /\ stray' = (stray \cup IF renamed THEN {ui.editing} \cap conf.secrets ELSE {}) \ {n}
    /\ UNCHANGED <<evs, worker, sess, tasks, vault, host>>

-----------------------------------------------------------------------------
(* Clicks in the browser and the header bar *)

InBrowser == ui.page = "browser" /\ Spend("clicks")

\* A row carries its full key, whatever folder has been entered since it was listed.
Activated(d) == /\ InBrowser /\ ui.shown.sid # 0 /\ ui.shown.prefix = Root
                /\ request_list([ui EXCEPT !.path = Append(@, d)])
                /\ UNCHANGED <<conf, evs, worker, sess, tasks, vault, host, stray>>

CrumbClicked(i) == /\ InBrowser /\ i <= Len(ui.path)
                   /\ request_list([ui EXCEPT !.path = SubSeq(@, 1, i)])
                   /\ UNCHANGED <<conf, evs, worker, sess, tasks, vault, host, stray>>

RefreshClicked == /\ InBrowser
                  /\ request_list(ui)
                  /\ UNCHANGED <<conf, evs, worker, sess, tasks, vault, host, stray>>

\* New folder, delete, rename, move and size are "edit"; uploads and downloads "transfer".
Ordered(op) == /\ InBrowser
               /\ cmds' = Append(cmds, [op |-> op, n |-> left.clicks])
               /\ UNCHANGED <<conf, ui, evs, worker, sess, tasks, vault, host, stray>>

SettingsSaved == /\ Spend("clicks")
                 /\ ui' = [ui EXCEPT !.settings = @ + 1]
                 /\ cmds' = Append(cmds, [op |-> "settings", value |-> ui.settings + 1])
                 /\ UNCHANGED <<conf, evs, worker, sess, tasks, vault, host, stray>>

DisconnectClicked == /\ InBrowser
                     /\ cmds' = Append(cmds, [op |-> "disconnect"])
                     /\ conf' = load_all(conf)
                     /\ ui' = reset([ui EXCEPT !.page = "connect"], conf)
                     /\ UNCHANGED <<evs, worker, sess, tasks, vault, host, stray>>

\* The event loop of the window.
EventLoop ==
    /\ evs # <<>> /\ evs' = Tail(evs)
    /\ LET e == Head(evs)
       IN  CASE e.ev = "connected" -> request_list(reset_to_root([set_busy(ui, FALSE) EXCEPT !.page = "browser"]))
             [] e.ev = "connect_failed" -> ui' = connect_failed(ui) /\ UNCHANGED cmds
             [] e.ev = "listed" -> ui' = set_listing(ui, e) /\ UNCHANGED cmds
             [] e.ev = "list_failed" -> ui' = listing_failed(ui) /\ UNCHANGED cmds
             [] e.ev = "done" -> request_list(ui)
             [] e.ev = "toast" -> UNCHANGED <<ui, cmds>>
    /\ UNCHANGED <<conf, worker, sess, tasks, vault, host, left, stray>>

-----------------------------------------------------------------------------
(* The worker.  dispatch takes the next command when it is done with the     *)
(* last: a Connect is awaited, the others are spawned.                       *)

Taken == worker.pc = "idle" /\ cmds # <<>> /\ cmds' = Tail(cmds)
Cmd == Head(cmds)

\* Fault: a stopped timer just ends.
Dropped(s, i) == IF i = 0 THEN s ELSE [s EXCEPT ![i].timer = "gone"]

\* The timer sees its token and flushes once more; without keys there is none.
Cancelled(s, i) == IF i = 0 \/ s[i].timer = "gone" THEN s ELSE [s EXCEPT ![i].timer = "stopping"]

\* Fault: new rates only reach the next session.
SetSettingsLater == /\ Taken /\ Cmd.op = "settings"
                    /\ worker' = [worker EXCEPT !.settings = Cmd.value]
                    /\ UNCHANGED <<conf, ui, evs, sess, tasks, vault, host, left, stray>>

SetSettings == /\ Taken /\ Cmd.op = "settings"
               /\ worker' = [worker EXCEPT !.settings = Cmd.value]
               /\ sess' = IF worker.session = 0 THEN sess
                          ELSE [sess EXCEPT ![worker.session].rates = Cmd.value, ![worker.session].interval = Cmd.value]
               /\ UNCHANGED <<conf, ui, evs, tasks, vault, host, left, stray>>

\* hub.cancel_all is TransferHub's.
Disconnect == /\ Taken /\ Cmd.op = "disconnect"
              /\ sess' = Cancelled(sess, worker.session)
              /\ worker' = [worker EXCEPT !.session = 0]
              /\ UNCHANGED <<conf, ui, evs, tasks, vault, host, left, stray>>

\* Without a session the command is dropped.
Spawned == /\ Taken /\ Cmd.op \in {"list", "edit", "transfer"}
           /\ tasks' = IF worker.session = 0 THEN tasks
                       ELSE tasks \cup {[cmd |-> Cmd, sid |-> worker.session, pc |-> "run", tried |-> FALSE]}
           /\ UNCHANGED <<conf, ui, evs, worker, sess, vault, host, left, stray>>

Connect == /\ Taken /\ Cmd.op = "connect"
           /\ worker' = [worker EXCEPT !.pc = "dial", !.req = Cmd]
           /\ UNCHANGED <<conf, ui, evs, sess, tasks, vault, host, left, stray>>

NoReq == [op |-> "connect", profile |-> [kind |-> "s3", e2ee |-> FALSE], pw |-> NoName]
kind == worker.req.profile.kind

Over(w) == [w EXCEPT !.pc = "idle", !.req = NoReq, !.key = Torn, !.place = "s3"]

Failed == /\ worker' = Over(worker)
          /\ evs' = Append(evs, [ev |-> "connect_failed"])
          /\ UNCHANGED <<conf, ui, cmds, sess, tasks, stray>>

Goes(pc) == /\ worker' = [worker EXCEPT !.pc = pc]
            /\ UNCHANGED <<conf, ui, cmds, evs, sess, tasks, stray>>

\* Fault: a changed host key is only reported.
sftp_host_key_tolerated(k) ==
    /\ host' = [host EXCEPT !.known = IF @ = 0 THEN k ELSE @, !.observed = k]
    /\ Goes("auth")

\* The key is compared, or remembered the first time, before anything secret is sent.
sftp_host_key(k) ==
    IF host.known \notin {0, k} THEN Failed /\ UNCHANGED host
    ELSE host' = [host EXCEPT !.known = k, !.observed = k] /\ Goes("auth")

\* The first time, and the file cannot be written: nobody looks.  What a write that was
\* cut short left of it is read as empty.
remember_host(k) ==
    /\ host.known = 0
    /\ host' = [host EXCEPT !.observed = k, !.unsaved = @ \cup {k}] /\ Goes("auth")

\* The server shows the key it had or, a fault, another one.
Dial == /\ worker.pc = "dial"
        /\ \/ Failed /\ UNCHANGED <<host, left>>
           \/ kind = "sftp" /\ sftp_host_key(1) /\ UNCHANGED left
           \/ kind = "sftp" /\ (sftp_host_key(2) \/ remember_host(1)) /\ Fault
           \/ kind # "sftp" /\ Goes("auth") /\ UNCHANGED <<host, left>>
        /\ UNCHANGED vault

\* A put that is not answered Ok may have taken effect, on a file system also in part.
Stored == \E v \in {worker.key} \cup IF kind = "s3" THEN {} ELSE {Torn} : vault' = [vault EXCEPT ![worker.place] = {v}]

\* The phases in which nothing ends the wait for an answer: SMB connects and NFS mounts
\* within 20 s, SFTP reads and writes the vault within 60 and 120.
Patient == CASE worker.pc = "dial" -> {"s3", "sftp"}
             [] worker.pc = "auth" -> {"s3", "sftp", "smb"}
             [] worker.pc \in {"vault", "put"} -> {"s3", "smb", "nfs"}
             [] OTHER -> {}

\* The server accepts a request and stays silent for ever; one to store the vault may
\* have taken effect.
ServerSilent == /\ kind \in Patient /\ Fault
                /\ Goes("hung") /\ UNCHANGED host
                /\ vault' = vault \/ (worker.pc = "put" /\ Stored)

\* Its rates are those of the settings, its flush interval is 10 s whatever was saved (0).
NewSession(k) == [key |-> k, place |-> worker.place, e2ee |-> worker.req.profile.e2ee,
                  rates |-> worker.settings, interval |-> 0,
                  timer |-> IF worker.req.profile.e2ee THEN "live" ELSE "gone",
                  dirty |-> FALSE, lost |-> FALSE]

\* The timer of the session before is stopped, and this one gets its own.
session_made(k) ==
    /\ sess' = Append(Cancelled(sess, worker.session), NewSession(k))
    /\ worker' = [Over(worker) EXCEPT !.session = Len(sess) + 1]
    /\ evs' = Append(evs, [ev |-> "connected"])
    /\ UNCHANGED <<conf, ui, cmds, tasks, stray>>

\* The vault of an SSH account is in its home directory.  One whose home cannot be
\* found out is taken for one that has none.
Anchored(p) == /\ worker' = [worker EXCEPT !.pc = "vault", !.place = p]
               /\ UNCHANGED <<conf, ui, cmds, evs, sess, tasks, stray>>

Authenticate ==
    /\ worker.pc = "auth"
    /\ host' = [host EXCEPT !.told = @ \cup ({host.observed} \ {0}), !.observed = 0]
    /\ \/ Failed /\ UNCHANGED left
       \/ worker.req.profile.e2ee /\ Anchored(kind) /\ UNCHANGED left
       \/ worker.req.profile.e2ee /\ kind = "sftp" /\ Anchored("global") /\ Fault
       \/ ~worker.req.profile.e2ee /\ session_made(Torn) /\ UNCHANGED left
    /\ UNCHANGED vault

open_vault(v, pw) == v # Torn /\ v.pw = pw
create_vault(pw) == [salt |-> worker.salts + 1, pw |-> pw]

Create == /\ worker' = [worker EXCEPT !.pc = "put", !.salts = @ + 1, !.key = create_vault(worker.req.pw)]
          /\ UNCHANGED <<conf, ui, cmds, evs, sess, tasks, stray>>

\* Fault: an error is taken for a vault that is not there.
get_vault_or_create == \/ Fault /\ Create
                       \/ vault[worker.place] = {} /\ Create /\ UNCHANGED left
                       \/ \E v \in vault[worker.place] : IF open_vault(v, worker.req.pw) THEN session_made(v) /\ UNCHANGED left
                                                                           ELSE Failed /\ UNCHANGED left

get_vault == \/ Failed /\ Fault
             \/ vault[worker.place] = {} /\ Create /\ UNCHANGED left
             \/ \E v \in vault[worker.place] : IF open_vault(v, worker.req.pw) THEN session_made(v) /\ UNCHANGED left
                                                                 ELSE Failed /\ UNCHANGED left

OpenVault == worker.pc = "vault" /\ get_vault /\ UNCHANGED <<vault, host>>

PutVault == /\ worker.pc = "put"
            /\ \/ vault' = [vault EXCEPT ![worker.place] = {worker.key}] /\ session_made(worker.key) /\ UNCHANGED left
               \/ (vault' = vault \/ Stored) /\ Failed /\ Fault
            /\ UNCHANGED host

-----------------------------------------------------------------------------
(* Tasks and timers of a session, the one in use or an earlier one *)

Reported(t, ev) == /\ tasks' = tasks \ {t}
                   /\ evs' = Append(evs, ev)
Again(t, pc) == /\ tasks' = (tasks \ {t}) \cup {[t EXCEPT !.pc = pc, !.tried = TRUE]}
                /\ UNCHANGED evs
Orphaned(t) == sess[t.sid].timer = "gone" /\ sess[t.sid].dirty

Done == [ev |-> "done"]
Toast == [ev |-> "toast"]

\* dispatch heals the session and tries once more; transfers retry by themselves
\* and end with their report.
GaveUp(t, ev) == IF t.cmd.op # "transfer" /\ ~t.tried THEN Again(t, "run")
                 ELSE Reported(t, IF t.cmd.op = "transfer" THEN Done ELSE ev)

ListTask(t) ==
    /\ t.cmd.op = "list"
    /\ \/ /\ Reported(t, [ev |-> "listed", n |-> t.cmd.n, sid |-> t.sid, prefix |-> t.cmd.prefix])
          /\ UNCHANGED left
       \/ (Fault \/ (t.tried /\ UNCHANGED left)) /\ GaveUp(t, [ev |-> "list_failed"])
    /\ UNCHANGED <<conf, ui, cmds, worker, sess, vault, host, stray>>

\* The work: an encrypted session's manifests are edited and still to be saved,
\* some of them also when it failed half-way.
Work(t) ==
    /\ t.cmd.op # "list" /\ t.pc = "run"
    /\ LET e2ee == sess[t.sid].e2ee
           dirtied == [sess EXCEPT ![t.sid].dirty = @ \/ e2ee]
       IN  \/ /\ sess' = dirtied /\ UNCHANGED left
              /\ IF e2ee THEN tasks' = (tasks \ {t}) \cup {[t EXCEPT !.pc = "flush"]} /\ UNCHANGED evs
                         ELSE Reported(t, Done)
           \/ /\ Fault /\ GaveUp(t, Toast)
              /\ \E s \in {sess, dirtied} :
                     sess' = [s EXCEPT ![t.sid].lost = @ \/ (s[t.sid].timer = "gone" /\ s[t.sid].dirty)]
    /\ UNCHANGED <<conf, ui, cmds, worker, vault, host, stray>>

\* A new folder and a rename fail with their flush; the others do not look at its error.
FlushTask(t) ==
    /\ t.pc = "flush"
    /\ \/ /\ sess' = [sess EXCEPT ![t.sid].dirty = FALSE, ![t.sid].lost = FALSE]
          /\ Reported(t, Done) /\ UNCHANGED left
       \/ /\ Fault /\ (GaveUp(t, Toast) \/ Reported(t, Done))
          /\ sess' = [sess EXCEPT ![t.sid].lost = @ \/ Orphaned(t)]
    /\ UNCHANGED <<conf, ui, cmds, worker, vault, host, stray>>

\* spawn_flush_timer: every interval, and once when it is stopped.
TimerFlush(i) ==
    /\ sess[i].timer = "live" /\ sess[i].dirty
    /\ sess' = [sess EXCEPT ![i].dirty = FALSE]
    /\ UNCHANGED <<conf, ui, cmds, evs, worker, tasks, vault, host, left, stray>>

FinalFlush(i) ==
    /\ sess[i].timer = "stopping"
    /\ \/ sess' = [sess EXCEPT ![i].timer = "gone", ![i].dirty = FALSE] /\ UNCHANGED left
       \/ Fault /\ sess' = [sess EXCEPT ![i].timer = "gone", ![i].lost = sess[i].dirty]
    /\ UNCHANGED <<conf, ui, cmds, evs, worker, tasks, vault, host, stray>>

-----------------------------------------------------------------------------
NewUi(c) == reset([page |-> "connect", view |-> "form", busy |-> FALSE, rows |-> NoProfiles, editing |-> NoName,
                   path |-> <<Root>>, pending |-> FALSE, missed |-> FALSE, crossed |-> FALSE, gen |-> 0, shown |-> Cleared,
                   settings |-> 0], c)

\* A new installation, or the first start after the profile format changed.
Init == /\ \E l \in {NoProfiles} \cup {[m \in {CHOOSE n \in Names : TRUE} |-> [kind |-> "s3", e2ee |-> e]] : e \in Modes} :
            \E ring \in SUBSET DOMAIN l :
               LET c == [profiles |-> NoProfiles, legacy |-> l, secrets |-> ring]
               IN  conf = load_all(c) /\ ui = NewUi(c)
        /\ cmds = <<>> /\ evs = <<>> /\ sess = <<>> /\ tasks = {}
        /\ worker = [pc |-> "idle", req |-> NoReq, session |-> 0, settings |-> 0, key |-> Torn, place |-> "s3", salts |-> 0]
        /\ vault = [p \in Places |-> {}] /\ host = [known |-> 0, observed |-> 0, told |-> {}, unsaved |-> {}]
        /\ left \in Budgets /\ stray = {}

ConnectionPage == \/ AddClicked \/ BackClicked
                  \/ \E n \in Names : \/ EditClicked(n) \/ confirm_delete(n)
                                      \/ \E pw \in Passwords : \/ connect_saved(n, pw)
                                                               \/ \E p \in Profiles : connect_from_form(n, p, pw)

BrowserPage == \/ \E d \in Dirs : Activated(d)
               \/ \E i \in 1 .. Len(ui.path) : CrumbClicked(i)
               \/ RefreshClicked \/ DisconnectClicked \/ SettingsSaved
               \/ \E op \in {"edit", "transfer"} : Ordered(op)

dispatch == SetSettings \/ Disconnect \/ Spawned \/ Connect \/ Dial \/ Authenticate \/ OpenVault \/ PutVault

Background == \/ \E t \in tasks : ListTask(t) \/ Work(t) \/ FlushTask(t)
              \/ \E i \in 1 .. Len(sess) : TimerFlush(i) \/ FinalFlush(i)

Next == ConnectionPage \/ BrowserPage \/ EventLoop \/ dispatch \/ ServerSilent \/ Background

Spec == Init /\ [][Next]_vars
FairSpec == Spec /\ WF_vars(EventLoop) /\ WF_vars(dispatch) /\ WF_vars(Background)

-----------------------------------------------------------------------------
(* Properties *)

Keys == [salt : Nat, pw : Passwords \cup {NoName}]
SavedProfiles == Profiles \cup [kind : {"s3"}, e2ee : Modes]
Commands == [op : {"connect"}, profile : SavedProfiles, pw : Passwords \cup {NoName}]
            \cup [op : {"list"}, n : Nat, prefix : Dirs \cup {Root}]
            \cup [op : {"edit", "transfer"}, n : Nat]
            \cup [op : {"settings"}, value : Nat] \cup [op : {"disconnect"}]
Events == [ev : {"connected", "connect_failed", "list_failed", "done", "toast"}]
          \cup [ev : {"listed"}, n : Nat, sid : 1 .. Len(sess), prefix : Dirs \cup {Root}]

\* The types.  The Connect at work is one that was sent; a command at work belongs to
\* a session there is, and an encrypted session alone has manifests to save.
TypeOK ==
    /\ DOMAIN conf.profiles \subseteq Names /\ conf.secrets \subseteq Names
    /\ \A n \in DOMAIN conf.profiles : conf.profiles[n] \in SavedProfiles
    /\ ui.page \in {"connect", "browser"} /\ ui.view \in {"list", "form"}
    /\ ui.editing \in Names \cup {NoName} /\ Len(ui.path) > 0 /\ ui.path[1] = Root
    /\ \A i \in 1 .. Len(ui.path) : ui.path[i] \in Dirs \cup {Root}
    /\ \A i \in 1 .. Len(cmds) : cmds[i] \in Commands
    /\ \A i \in 1 .. Len(evs) : evs[i] \in Events
    /\ worker.pc \in {"idle", "dial", "auth", "vault", "put", "hung"}
    /\ worker.pc # "idle" => ui.busy
    /\ worker.session \in 0 .. Len(sess)
    /\ \A i \in 1 .. Len(sess) : /\ sess[i].timer \in {"live", "stopping", "gone"}
                                 /\ sess[i].dirty => sess[i].e2ee
                                 /\ sess[i].key \in Keys
    /\ \A t \in tasks : t.sid \in 1 .. Len(sess) /\ t.cmd.op \in {"list", "edit", "transfer"}
    /\ \A p \in Places : vault[p] \subseteq Keys

Quiet == cmds = <<>> /\ evs = <<>> /\ worker.pc = "idle"

\* What the window shows is what the worker has (window.rs, dispatch): once both channels
\* are empty no page is left insensitive, the browser is in front exactly while there is a
\* session, and the session runs at the rates last saved.  Its flush interval is that of
\* the settings saved last, or still the one it began with.
PageAgrees ==
    Quiet => /\ ~ui.busy
             /\ ui.page = "browser" <=> worker.session # 0
             /\ worker.session # 0 => /\ sess[worker.session].rates = ui.settings
                                      /\ sess[worker.session].interval \in {0, ui.settings}

\* A listing settles (request_list, set_listing): when every answer is in, the spinner is
\* off and, unless reading it failed, the rows are those that this session read for the last
\* request.  Where that was made while an earlier one was under way, maybe one of the
\* session before, only the folder is known to be the one in the breadcrumbs: set_listing
\* does not tell answers for one folder apart.
ListingSettles ==
    Quiet /\ tasks = {} /\ ui.page = "browser" =>
        /\ ~ui.pending
        /\ ~ui.missed => /\ ui.shown.sid # 0 /\ ui.shown.prefix = current_prefix(ui)
                         /\ ~ui.crossed => ui.shown.gen = ui.gen /\ ui.shown.sid = worker.session

\* No edit of a manifest is left in a session nobody looks after (spawn_flush_timer,
\* Disconnect): only the session in use has a running timer, and one whose timer is gone
\* and whose commands are through is clean, unless the last to save or to edit it failed.
EditsSaved ==
    \A i \in 1 .. Len(sess) :
        /\ sess[i].timer = "live" => i = worker.session
        /\ sess[i].timer = "gone" /\ (\A t \in tasks : t.sid # i) => ~sess[i].dirty \/ sess[i].lost

\* The vault that opened a session stays the vault of its place (connect): whatever was
\* sealed in any session can be opened by the next that looks there.  The place of an SSH
\* account is its home directory unless that could not be found out.
VaultKept == \A i \in 1 .. Len(sess) : sess[i].e2ee => vault[sess[i].place] = {sess[i].key}

\* The secret is only ever sent to the host key that was remembered (SftpBackend::connect),
\* or that remember_host failed to save.
HostTrusted == host.told \subseteq {host.known} \cup host.unsaved

\* The rows on display are the saved profiles, and no secret outlives its profile in the
\* keychain (connection_page.rs, ConnectionProfile::remove), unless that call failed.
ProfilesAgree == /\ OnList => ui.rows = conf.profiles
                 /\ conf.secrets \subseteq DOMAIN conf.profiles \cup stray

\* The connection page comes back to life after every Connect (set_busy), unless the
\* server stays silent for ever in a phase that has no timeout.
EveryConnectSettles == ui.busy ~> (~ui.busy \/ worker.pc = "hung")
=============================================================================

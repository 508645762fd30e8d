------------------------------- MODULE Reload -------------------------------
(***************************************************************************)
(* Reloading of configuration, filter, actions and trust files while       *)
(* connections are being served, and the mark-and-sweep collector that     *)
(* frees what a reload made obsolete.                                      *)
(*                                                                         *)
(* One listening thread (listen_loop() in jcc.c) sweeps, accepts, reloads  *)
(* and spawns; it alone touches the list of loaded files and the list of   *)
(* clients.  Serving threads (serve() in jcc.c) read the files their       *)
(* client_state points to without any lock: all that keeps a file alive is *)
(* CSP_FLAG_ACTIVE, read by sweep() while the threads run.                 *)
(***************************************************************************)
EXTENDS Integers, FiniteSets

CONSTANTS
  Clients,      \* client_states nodes: memory for one client connection each
  FileIds,      \* file_list nodes: memory for one loaded file each
  Slots,        \* entries of re_filterfile[], actions_file[], and trustfile
  LoaderOf,     \* the loader function that handles a slot
  TrustSlot,    \* the slot of the trust file
  Paths,        \* names of files on disk
  ConfigPath,   \* the name of the configuration file
  Configs,      \* what the configuration file may say
  NoFile, NoPath, NoClient, NoConfig,
  MaxEdits,     \* bound: modifications of files on disk
  MaxDrains     \* sweeps that graceful termination waits for (60 in the code)

\* The slot of the configuration file itself, current_configfile.
ConfigSlot == "config"
AllSlots   == Slots \cup {ConfigSlot}

\* A configuration: the file for each slot, max-client-connections (0: no
\* limit), whether one thread per connection is used, and the listen-address.
ConfigType == [path: [Slots -> Paths \cup {NoPath}], max: Nat,
               threaded: BOOLEAN, ports: STRING]

ASSUME ConstantsAssumption ==
  /\ NoFile \notin FileIds /\ NoPath \notin Paths /\ NoClient \notin Clients
  /\ NoConfig \notin Configs
  /\ ConfigPath \in Paths /\ TrustSlot \in Slots /\ ConfigSlot \notin Slots
  /\ Configs \subseteq ConfigType
  /\ MaxEdits \in Nat /\ MaxDrains \in Nat \ {0}

\* The mtime of a file that does not exist: stat() fails.
Absent == 0

VARIABLES
  disk,       \* mtime of every path
  diskConfig, \* what the configuration file says now
  edits,      \* modifications so far; the last one's mtime
  files,      \* the list of loaded files
  info,       \* of each file_list node: slot, path, mtime, configuration
  obsolete,   \* the files whose unloader is set
  marked,     \* the files whose "active" flag is set
  current,    \* current_configfile, current_re_filterfile[], ...
  trustList,  \* trust file that config->trust_list points into
  clients,    \* the list of clients
  active,     \* the clients with CSP_FLAG_ACTIVE
  refs,       \* the files each client_state points to
  serving,    \* where each client's serve() is
  pc,         \* where the listening thread is
  me,         \* the client_state it is setting up
  config,     \* its local variable config, as a file_list node
  loading,    \* the configuration load_config() is reading
  todo,       \* slots a loader run or clients a sweep has still to visit
  nActive,    \* its local variable active_threads
  needBind,   \* the configurations with need_bind set
  bound,      \* the listen-address of the open listening sockets
  stopping,   \* graceful termination has been requested
  drains,     \* its local variable i: sweeps left while waiting for clients
  finals,     \* unconditional sweeps left
  tlsReleased, \* ssl_release() has been called
  seen        \* history: disk and current configuration at the last accept()

diskVars   == <<disk, diskConfig, edits>>
fileVars   == <<files, info, obsolete, current, trustList>>
clientVars == <<clients, active, refs, serving>>
bindVars   == <<needBind, bound>>
stopVars   == <<stopping, drains, finals, tlsReleased>>
listenVars == <<pc, me, config, loading, todo, nActive, marked, seen>>
vars == <<diskVars, fileVars, clientVars, bindVars, stopVars, listenVars>>

NoRefs == [s \in AllSlots |-> NoFile]

\* What a configuration file node holds (struct configuration_spec).
ConfOf(f)  == info[f].conf
\* The files a client_state points to.
Held(c)    == {refs[c][s] : s \in AllSlots} \ {NoFile}
\* serve() has been entered and has not returned.
IsServing(c) == serving[c] \in {"chat", "between", "release"}

\* run_loader() calls the loaders load_config() added, and adds one only when
\* its first file is listed.
SlotsToLoad(conf) ==
  {s \in Slots : \E t \in Slots : LoaderOf[t] = LoaderOf[s] /\ conf.path[t] # NoPath}

\* Mutants of Unchanged: the name, or the time, is not compared.
UnchangedAnyName(s, p) == current[s] # NoFile /\ info[current[s]].mtime = disk[p]
UnchangedAnyTime(s, p) == current[s] # NoFile /\ info[current[s]].path = p

\* check_file_changed(current[s], p): same name and same mtime.
Unchanged(s, p) ==
  /\ current[s] # NoFile
  /\ info[current[s]].path = p
  /\ info[current[s]].mtime = disk[p]


\* any_loaded_file_changed(): a missing file counts as changed.
AnyLoadedFileChanged(c) ==
  \E s \in AllSlots : /\ refs[c][s] # NoFile
                      /\ info[refs[c][s]].mtime # disk[info[refs[c][s]].path]

\* The file of a slot is replaced: its unloader is set, for sweep() to call.
RetireNothing(s) == obsolete' = obsolete       \* mutant of Retire
Retire(s) == obsolete' = obsolete \cup ({current[s]} \ {NoFile})

Init ==
  /\ disk = [p \in Paths |-> 1]
  /\ diskConfig \in Configs
  /\ edits = 1
  /\ files = {} /\ obsolete = {} /\ marked = {} /\ needBind = {}
  /\ info = [f \in FileIds |-> [slot |-> ConfigSlot, path |-> ConfigPath,
                                mtime |-> Absent, conf |-> NoConfig]]
  /\ current = NoRefs
  /\ trustList = [f \in FileIds |-> NoFile]
  /\ clients = {} /\ active = {}
  /\ refs = [c \in Clients |-> NoRefs]
  /\ serving = [c \in Clients |-> "none"]
  /\ pc = "loadConfig" /\ me = NoClient /\ config = NoFile /\ loading = NoFile
  /\ todo = {} /\ nActive = 0 /\ bound = "none"
  /\ stopping = FALSE /\ drains = 0 /\ finals = 0 /\ tlsReleased = FALSE
  /\ seen = [disk |-> disk, config |-> NoFile]

-----------------------------------------------------------------------------
(* sweep(): clear the marks, visit every client, free what is left.        *)

SweepBegin ==
  /\ pc = "sweep"
  /\ marked' = {} /\ todo' = clients /\ nActive' = 0
  /\ pc' = "mark"
  /\ UNCHANGED <<me, config, loading, seen, diskVars, fileVars, clientVars, bindVars, stopVars>>

\* A client is looked at once.  Its thread may end right after that.
SweepClient(c) ==
  /\ pc = "mark" /\ c \in todo
  /\ todo' = todo \ {c}
  /\ \/ /\ c \in active
        /\ marked' = marked \cup Held(c)
        /\ nActive' = nActive + 1
        /\ UNCHANGED clientVars
     \/ /\ c \notin active
        /\ clients' = clients \ {c}
        /\ refs' = [refs EXCEPT ![c] = NoRefs]
        /\ serving' = [serving EXCEPT ![c] = "none"]
        /\ UNCHANGED <<marked, nActive, active>>
  /\ UNCHANGED <<pc, me, config, loading, seen, diskVars, fileVars, bindVars, stopVars>>

\* Mutants of Garbage: one of the two conditions is forgotten.
GarbageUnmarked == {f \in files : f \notin marked}
GarbageObsolete == {f \in files : f \in obsolete}
Garbage == {f \in files : f \notin marked /\ f \in obsolete}

SweepFiles ==
  /\ pc = "mark" /\ todo = {}
  /\ files' = files \ Garbage
  /\ obsolete' = obsolete \cap files'
  /\ pc' = IF stopping THEN "drained" ELSE "accept"
  /\ UNCHANGED <<info, current, trustList, me, config, loading, todo, nActive, marked, seen,
                 diskVars, clientVars, bindVars, stopVars>>

-----------------------------------------------------------------------------
(* Accepting a connection.                                                 *)

Accept(c) ==
  /\ pc = "accept" /\ serving[c] = "none"
  /\ serving' = [serving EXCEPT ![c] = "setup"]
  /\ active' = active \cup {c}
  /\ refs' = [refs EXCEPT ![c][ConfigSlot] = config]
  /\ me' = c
  /\ seen' = [disk |-> disk, config |-> config]
  /\ pc' = "loadConfig"
  /\ UNCHANGED <<clients, config, loading, todo, nActive, marked,
                 diskVars, fileVars, bindVars, stopVars>>

AcceptFails ==
  /\ pc = "accept"
  /\ pc' = "sweep"
  /\ UNCHANGED <<me, config, loading, todo, nActive, marked, seen,
                 diskVars, fileVars, clientVars, bindVars, stopVars>>

-----------------------------------------------------------------------------
(* load_config(), with the loaders it runs for a fake client_state.        *)

\* csp->config = config = load_config()
UseConfig(f) ==
  /\ config' = f
  /\ refs' = IF me = NoClient THEN refs ELSE [refs EXCEPT ![me][ConfigSlot] = f]

KeepConfig ==
  /\ pc = "loadConfig" /\ Unchanged(ConfigSlot, ConfigPath)
  /\ UseConfig(current[ConfigSlot])
  /\ pc' = "bind"
  /\ UNCHANGED <<clients, active, serving, me, loading, todo, nActive, marked, seen,
                 diskVars, fileVars, bindVars, stopVars>>

NewNode(f, s, p, conf) ==
  info' = [info EXCEPT ![f] = [slot |-> s, path |-> p, mtime |-> disk[p], conf |-> conf]]

ReadConfig(f) ==
  /\ pc = "loadConfig" /\ ~Unchanged(ConfigSlot, ConfigPath) /\ disk[ConfigPath] # Absent
  /\ f \notin files
  /\ NewNode(f, ConfigSlot, ConfigPath, diskConfig)
  /\ trustList' = [trustList EXCEPT ![f] = NoFile]
  /\ loading' = f
  /\ todo' = SlotsToLoad(diskConfig)
  /\ pc' = "fakeLoaders"
  /\ UNCHANGED <<files, obsolete, current, me, config, nActive, marked, seen,
                 diskVars, clientVars, bindVars, stopVars>>

AtStartOnly == current[ConfigSlot] = NoFile              \* mutant of AddressChanged
AddressChanged ==
  \/ current[ConfigSlot] = NoFile
  \/ ConfOf(loading).ports # ConfOf(current[ConfigSlot]).ports

FinishConfig ==
  /\ pc = "fakeLoaders" /\ todo = {}
  /\ needBind' = IF AddressChanged THEN needBind \cup {loading} ELSE needBind \ {loading}
  /\ Retire(ConfigSlot)
  /\ files' = files \cup {loading}
  /\ current' = [current EXCEPT ![ConfigSlot] = loading]
  /\ UseConfig(loading)
  /\ loading' = NoFile
  /\ pc' = "bind"
  /\ UNCHANGED <<info, trustList, clients, active, serving, me, todo, nActive, marked, seen,
                 bound, diskVars, stopVars>>

\* Rebinding when the listen-address changed.  Only start-up reaches the main
\* loop from here.
Bind ==
  /\ pc = "bind"
  /\ bound' = IF config \in needBind THEN ConfOf(config).ports ELSE bound
  /\ needBind' = needBind \ {config}
  /\ IF me = NoClient THEN pc' = "sweep" /\ todo' = todo
                      ELSE pc' = "loaders" /\ todo' = SlotsToLoad(ConfOf(config))
  /\ UNCHANGED <<me, config, loading, nActive, marked, seen,
                 diskVars, fileVars, clientVars, stopVars>>

-----------------------------------------------------------------------------
(* run_loader(csp): one step per slot.                                     *)

InLoader == pc \in {"fakeLoaders", "loaders"}
\* The configuration of the client_state the loaders work for.
LoaderConfig == IF pc = "fakeLoaders" THEN loading ELSE config
PathFor(s)   == ConfOf(LoaderConfig).path[s]

\* Only the real client_state outlives the loader run.
PointTo(s, f) ==
  refs' = IF pc = "loaders" THEN [refs EXCEPT ![me][s] = f] ELSE refs

KeepFile(s) ==
  /\ InLoader /\ s \in todo /\ PathFor(s) # NoPath /\ Unchanged(s, PathFor(s))
  /\ PointTo(s, current[s])
  /\ todo' = todo \ {s}
  /\ UNCHANGED <<clients, active, serving, pc, me, config, loading, nActive, marked, seen,
                 diskVars, fileVars, bindVars, stopVars>>

\* Loading the trust file also fills config->trust_list.
LoadFile(s, f) ==
  /\ InLoader /\ s \in todo /\ PathFor(s) # NoPath /\ ~Unchanged(s, PathFor(s))
  /\ disk[PathFor(s)] # Absent
  /\ f \notin files /\ f # loading
  /\ NewNode(f, s, PathFor(s), NoConfig)
  /\ Retire(s)
  /\ files' = files \cup {f}
  /\ current' = [current EXCEPT ![s] = f]
  /\ trustList' = IF s = TrustSlot THEN [trustList EXCEPT ![LoaderConfig] = f]
                                   ELSE trustList
  /\ PointTo(s, f)
  /\ todo' = todo \ {s}
  /\ UNCHANGED <<clients, active, serving, pc, me, config, loading, nActive, marked, seen,
                 diskVars, bindVars, stopVars>>

\* The loader runs but its list no longer has this entry.
DropFile(s) ==
  /\ InLoader /\ s \in todo /\ PathFor(s) = NoPath
  /\ Retire(s)
  /\ current' = [current EXCEPT ![s] = NoFile]
  /\ todo' = todo \ {s}
  /\ UNCHANGED <<files, info, trustList, pc, me, config, loading, nActive, marked, seen,
                 diskVars, clientVars, bindVars, stopVars>>

\* A missing file, a parse error or a failing bind(): log_error(LOG_LEVEL_FATAL)
\* ends the process and every thread with it.
Fatal ==
  /\ \/ pc = "loadConfig" /\ ~Unchanged(ConfigSlot, ConfigPath)
     \/ pc = "bind" /\ config \in needBind
     \/ \E s \in todo : InLoader /\ PathFor(s) # NoPath /\ ~Unchanged(s, PathFor(s))
  /\ pc' = "fatal"
  /\ UNCHANGED <<me, config, loading, todo, nActive, marked, seen,
                 diskVars, fileVars, clientVars, bindVars, stopVars>>

AllLoaded ==
  /\ pc = "loaders" /\ todo = {}
  /\ pc' = "admit"
  /\ UNCHANGED <<me, config, loading, todo, nActive, marked, seen,
                 diskVars, fileVars, clientVars, bindVars, stopVars>>

-----------------------------------------------------------------------------
(* Dropping, rejecting or serving the new connection.                      *)

TooMany == ConfOf(config).max # 0 /\ nActive >= ConfOf(config).max

\* close_socket(); freez(csp_list)
Discard ==
  /\ serving' = [serving EXCEPT ![me] = "none"]
  /\ active' = active \ {me}
  /\ refs' = [refs EXCEPT ![me] = NoRefs]
  /\ me' = NoClient
  /\ pc' = "sweep"
  /\ UNCHANGED <<clients, config, loading, todo, nActive, marked, seen,
                 diskVars, fileVars, bindVars, stopVars>>

\* block_acl() may drop any connection.
AclDrop == pc = "admit" /\ Discard
RejectMax == pc = "admit" /\ TooMany /\ Discard

\* Linking the client and starting its thread; without threads serve() runs
\* in the listening thread.
Serve ==
  /\ pc = "admit" /\ ~TooMany
  /\ clients' = clients \cup {me}
  /\ serving' = [serving EXCEPT ![me] = "chat"]
  /\ IF ConfOf(config).threaded THEN pc' = "sweep" /\ me' = NoClient
                                ELSE pc' = "inline" /\ me' = me
  /\ UNCHANGED <<active, refs, config, loading, todo, nActive, marked, seen,
                 diskVars, fileVars, bindVars, stopVars>>

\* pthread_create() fails: the client stays linked until the next sweep.
SpawnFails ==
  /\ pc = "admit" /\ ~TooMany /\ ConfOf(config).threaded
  /\ clients' = clients \cup {me}
  /\ serving' = [serving EXCEPT ![me] = "ended"]
  /\ active' = active \ {me}
  /\ me' = NoClient
  /\ pc' = "sweep"
  /\ UNCHANGED <<refs, config, loading, todo, nActive, marked, seen,
                 diskVars, fileVars, bindVars, stopVars>>

-----------------------------------------------------------------------------
(* Graceful termination.                                                   *)

CurrentFiles == {current[s] : s \in AllSlots} \ {NoFile}

Terminate ==
  /\ pc = "sweep" /\ ~stopping
  /\ stopping' = TRUE
  /\ bound' = "none"
  /\ obsolete' = obsolete \cup CurrentFiles
  /\ current' = NoRefs
  /\ drains' = IF ConfOf(config).threaded THEN MaxDrains ELSE 0
  /\ finals' = IF ConfOf(config).threaded THEN 2 ELSE 1
  /\ UNCHANGED <<files, info, trustList, needBind, tlsReleased, listenVars, diskVars, clientVars>>

WaitOver == drains > 0 /\ (clients = {} \/ drains = 1)

\* do sweep(); while (clients->next != NULL && --i > 0); sweep(); sweep();
DrainAgain ==
  /\ pc = "drained"
  /\ \/ drains > 1 /\ clients # {} /\ drains' = drains - 1 /\ finals' = finals
     \/ WaitOver /\ drains' = 0 /\ finals' = finals - 1
     \/ drains = 0 /\ finals > 0 /\ drains' = 0 /\ finals' = finals - 1
  /\ pc' = "sweep"
  /\ UNCHANGED <<stopping, tlsReleased, me, config, loading, todo, nActive, marked, seen,
                 diskVars, fileVars, clientVars, bindVars>>

TlsReleasable == TRUE                                     \* mutant of NoClientLeft
NoClientLeft == clients = {}

Exit ==
  /\ pc = "drained" /\ drains = 0 /\ finals = 0
  /\ tlsReleased' = NoClientLeft
  /\ pc' = "exited"
  /\ UNCHANGED <<stopping, drains, finals, me, config, loading, todo, nActive, marked, seen,
                 diskVars, fileVars, clientVars, bindVars>>

-----------------------------------------------------------------------------
(* serve(c)                                                                *)

Running == pc \notin {"exited", "fatal"}
threadUnchanged == <<clients, active, refs, fileVars, bindVars, stopVars, listenVars>>

\* chat(): one request, with whatever it reads from the client's files.
Chat(c) ==
  /\ Running /\ serving[c] = "chat"
  /\ serving' = [serving EXCEPT ![c] = "between"]
  /\ UNCHANGED <<diskVars, threadUnchanged>>

\* is_untrusted_url(): a trusted referrer's link target is appended to the
\* trust file.
ChatApprovingTarget(c) ==
  /\ Running /\ serving[c] = "chat" /\ edits < MaxEdits
  /\ refs[c][TrustSlot] # NoFile
  /\ trustList[refs[c][ConfigSlot]] # NoFile
  /\ edits' = edits + 1
  /\ disk' = [disk EXCEPT ![ConfOf(refs[c][ConfigSlot]).path[TrustSlot]] = edits']
  /\ serving' = [serving EXCEPT ![c] = "between"]
  /\ UNCHANGED <<diskConfig, threadUnchanged>>

NextRequest(c) ==
  /\ Running /\ serving[c] = "between" /\ ~AnyLoadedFileChanged(c)
  /\ serving' = [serving EXCEPT ![c] = "chat"]
  /\ UNCHANGED <<diskVars, threadUnchanged>>

\* Mutant of StopChatting: the flag is cleared before the resources are freed.
StopChattingInactive(c) ==
  /\ Running /\ serving[c] = "between"
  /\ serving' = [serving EXCEPT ![c] = "release"]
  /\ active' = active \ {c}
  /\ UNCHANGED <<diskVars, clients, refs, fileVars, bindVars, stopVars, listenVars>>

StopChatting(c) ==
  /\ Running /\ serving[c] = "between"
  /\ serving' = [serving EXCEPT ![c] = "release"]
  /\ UNCHANGED <<diskVars, threadUnchanged>>

\* free_csp_resources(csp); csp->flags &= ~CSP_FLAG_ACTIVE, the last access.
\* In a single-threaded Privoxy the listening thread goes on from here.
EndServing(c) ==
  /\ Running /\ serving[c] = "release"
  /\ active' = active \ {c}
  /\ serving' = [serving EXCEPT ![c] = "ended"]
  /\ IF pc = "inline" /\ me = c THEN pc' = "sweep" /\ me' = NoClient
                                ELSE UNCHANGED <<pc, me>>
  /\ UNCHANGED <<clients, refs, config, loading, todo, nActive, marked, seen,
                 diskVars, fileVars, bindVars, stopVars>>

-----------------------------------------------------------------------------
(* The administrator.                                                      *)

EditFile(p) ==
  /\ Running /\ edits < MaxEdits
  /\ edits' = edits + 1
  /\ \/ disk' = [disk EXCEPT ![p] = edits']
     \/ disk' = [disk EXCEPT ![p] = Absent]
  /\ IF p = ConfigPath THEN diskConfig' \in Configs ELSE diskConfig' = diskConfig
  /\ UNCHANGED <<fileVars, clientVars, bindVars, stopVars, listenVars>>

-----------------------------------------------------------------------------
Listener ==
  \/ SweepBegin \/ (\E c \in Clients : SweepClient(c)) \/ SweepFiles
  \/ (\E c \in Clients : Accept(c)) \/ AcceptFails
  \/ KeepConfig \/ (\E f \in FileIds : ReadConfig(f)) \/ FinishConfig \/ Bind
  \/ (\E s \in Slots : KeepFile(s)) \/ (\E s \in Slots, f \in FileIds : LoadFile(s, f))
  \/ (\E s \in Slots : DropFile(s)) \/ Fatal \/ AllLoaded
  \/ AclDrop \/ RejectMax \/ Serve \/ SpawnFails
  \/ Terminate \/ DrainAgain \/ Exit

Thread(c) ==
  Chat(c) \/ ChatApprovingTarget(c) \/ NextRequest(c) \/ StopChatting(c) \/ EndServing(c)

\* The process is gone.
Gone == ~Running /\ UNCHANGED vars

Next ==
  \/ Listener
  \/ \E c \in Clients : Thread(c)
  \/ \E p \in Paths : EditFile(p)
  \/ Gone

Spec == Init /\ [][Next]_vars

\* The kernel schedules every thread.  Nobody makes a client connect, so
\* accept() need not return, and nobody makes a request end: a stream or a
\* tunnel lasts as long as its two sides want, and
\* receive_and_send_encrypted_post_data() waits without a timeout.
FairSpec ==
  /\ Spec
  /\ WF_vars(pc # "accept" /\ Listener)
  /\ \A c \in Clients : WF_vars(serving[c] # "chat" /\ Thread(c))
-----------------------------------------------------------------------------
(* What the reload machinery promises.                                     *)

FileInfo == [slot: AllSlots, path: Paths, mtime: Nat, conf: Configs \cup {NoConfig}]

\* Type invariant.
TypeOK ==
  /\ disk \in [Paths -> Nat] /\ diskConfig \in Configs /\ edits \in Nat
  /\ files \subseteq FileIds /\ obsolete \subseteq FileIds
  /\ marked \subseteq FileIds /\ needBind \subseteq FileIds
  /\ info \in [FileIds -> FileInfo]
  /\ current \in [AllSlots -> FileIds \cup {NoFile}]
  /\ trustList \in [FileIds -> FileIds \cup {NoFile}]
  /\ clients \subseteq Clients /\ active \subseteq Clients
  /\ refs \in [Clients -> [AllSlots -> FileIds \cup {NoFile}]]
  /\ serving \in [Clients -> {"none", "setup", "chat", "between", "release", "ended"}]
  /\ pc \in {"sweep", "mark", "drained", "accept", "loadConfig", "fakeLoaders", "bind",
             "loaders", "admit", "inline", "exited", "fatal"}
  /\ me \in Clients \cup {NoClient}
  /\ config \in FileIds \cup {NoFile} /\ loading \in FileIds \cup {NoFile}
  /\ IF pc = "mark" THEN todo \subseteq Clients ELSE todo \subseteq Slots \cup Clients
  /\ nActive \in Nat /\ stopping \in BOOLEAN /\ tlsReleased \in BOOLEAN
  /\ drains \in 0..MaxDrains /\ finals \in 0..2
  /\ seen.disk \in [Paths -> Nat] /\ seen.config \in FileIds \cup {NoFile}

\* The files a connection reads, from the moment accept() returned until its
\* serve() returned, have not been freed, although nothing but a flag read
\* without a lock says that the thread still needs them.
FilesInUseLoaded ==
  \A c \in Clients : serving[c] = "setup" \/ IsServing(c) => Held(c) \subseteq files

\* The memory of a client is freed only after its thread left serve().
ClientFreedAfterServe ==
  [][\A c \in clients \ clients' : serving[c] = "ended"]_vars

\* The files the next request will use stay loaded whatever old connections
\* do, and so does the configuration that the listening thread keeps in a
\* local variable across a sweep.
CurrentFilesLoaded ==
  /\ \A s \in AllSlots : current[s] # NoFile =>
       current[s] \in files \ obsolete /\ info[current[s]].slot = s
  /\ pc \in {"mark", "accept", "bind", "loaders", "admit"} /\ ~stopping => config \in files

\* Nothing is leaked: a loaded file is either in use for new requests or has
\* its unloader set, so that some later sweep will free it.
LoadedIsCurrentOrObsolete ==
  \A f \in files : f \in obsolete \/ current[info[f].slot] = f

\* A connection is served with one coherent set of files: those its own
\* configuration names, slot by slot, whatever was reloaded since.
SnapshotFollowsConfig ==
  \A c \in Clients : IsServing(c) =>
    \A s \in Slots :
      LET p == ConfOf(refs[c][ConfigSlot]).path[s]
      IN  IF refs[c][s] = NoFile THEN p = NoPath ELSE info[refs[c][s]].path = p

\* A connection never starts with files older than those on disk when it was
\* accepted: "Privoxy detects configuration changes automatically".
FreshWhenServed ==
  [][Serve => \A s \in AllSlots : refs[me][s] # NoFile =>
       info[refs[me][s]].mtime >= seen.disk[info[refs[me][s]].path]]_vars

\* While waiting for connections, the sockets are bound to the address that
\* the configuration in use asks for.
BoundToConfig == pc = "accept" => bound = ConfOf(config).ports

\* ssl_release() is not called under the feet of a running thread.
TlsReleasedWhenIdle == tlsReleased => \A c \in Clients : ~IsServing(c)


-----------------------------------------------------------------------------
(* The inductive invariant: why the collector frees nothing that is used.  *)

SetupPlaces == {"loadConfig", "fakeLoaders", "bind", "loaders", "admit"}

\* The listening thread sets up one connection at a time, and never while it
\* sweeps.  Once it terminates, it only sweeps.
ListenerInv ==
  /\ pc \in {"sweep", "mark", "accept", "drained"} => me = NoClient
  /\ pc \in {"loaders", "admit", "inline"} => me \in Clients
  /\ pc \in SetupPlaces /\ me # NoClient => serving[me] = "setup"
  /\ \A c \in Clients : serving[c] = "setup" => c = me /\ pc \in SetupPlaces \cup {"fatal"}
  /\ stopping => pc \in {"sweep", "mark", "drained", "exited"}
  /\ drains > 0 => finals > 0

\* Its local variable is the current configuration, until termination.
ConfigInv ==
  /\ ~stopping => config = current[ConfigSlot]
  /\ pc \notin {"loadConfig", "fakeLoaders", "fatal"} => config # NoFile
  /\ pc = "fakeLoaders" => /\ loading \in FileIds \ files
                           /\ info[loading].slot = ConfigSlot /\ info[loading].conf \in Configs
  /\ current[ConfigSlot] # NoFile => info[current[ConfigSlot]].conf \in Configs

\* A current file is not obsolete, and belongs to one slot.
FilesInv ==
  /\ obsolete \subseteq files
  /\ \A s \in AllSlots : current[s] # NoFile =>
       current[s] \in files \ obsolete /\ info[current[s]].slot = s
  /\ LoadedIsCurrentOrObsolete

\* The flag stays set, and the client linked, for as long as serve() runs.
ClientInv ==
  /\ \A c \in Clients : IsServing(c) => c \in clients
  /\ \A c \in Clients : IsServing(c) \/ serving[c] = "setup" => c \in active
  /\ \A c \in clients : IsServing(c) \/ serving[c] = "ended"
  /\ \A c \in Clients : serving[c] = "none" => refs[c] = NoRefs
  /\ FilesInUseLoaded
  /\ tlsReleased => pc = "exited" /\ clients = {}

\* Amid a sweep a running client was visited, and its files are marked, or it
\* is still to be visited.
SweepInv ==
  pc = "mark" => \A c \in Clients : IsServing(c) => c \in todo \/ Held(c) \subseteq marked

\* Inductive: each part is kept by every step from a state in which all hold.
ReloadInv ==
  TypeOK /\ ListenerInv /\ ConfigInv /\ FilesInv /\ ClientInv /\ SweepInv

-----------------------------------------------------------------------------
(* What the documentation says of it, and the code does not do.            *)

\* "Requests that are dropped due to ACL don't trigger reloads."
DroppedRequestsDontReload == [][AclDrop => config = seen.config]_vars

\* Trusted referrers of the trust file are honoured: "access to untrusted sites
\* will be granted -- but only if a link from this trusted referrer was used".
\* (Every trust file of the model designates at least one.)
TrustedReferrersKnown ==
  [][Serve => (refs[me][TrustSlot] # NoFile => trustList[config] # NoFile)]_vars

\* The sweep marks the files of every active client: the patterns its
\* configuration's trust_list points into are loaded.
TrustListLoaded ==
  \A c \in Clients : IsServing(c) =>
    trustList[refs[c][ConfigSlot]] \in files \cup {NoFile}

=============================================================================

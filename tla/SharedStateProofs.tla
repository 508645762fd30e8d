------------------------- MODULE SharedStateProofs -------------------------
(***************************************************************************)
(* Proofs about what the threads share besides their connections: the      *)
(* loaded files (Reload) and the client-specific tags (ClientTags), for    *)
(* any number of connections, files, slots, clients and tags.              *)
(*                                                                         *)
(* Reload: ReloadInv is inductive.  Each of its parts has a lemma of its   *)
(* own, with a step for every action that can disturb it; the actions that *)
(* leave the variables of the part alone share one.                        *)
(*                                                                         *)
(* ClientTags: the list of clients and tags stays well formed whatever     *)
(* clients do and however long they wait, and nobody has a tag that was    *)
(* not asked for.                                                          *)
(***************************************************************************)
EXTENDS Reload, ClientTags, NaturalsInduction, WellFoundedInduction, SequenceTheorems, TLAPS

-----------------------------------------------------------------------------
(* Reload.                                                                 *)

LEMMA InitInv == Init => ReloadInv
<1> USE ConstantsAssumption
<1> SUFFICES ASSUME Init PROVE ReloadInv
    OBVIOUS
<1>1. TypeOK
  <2>1. info \in [FileIds -> FileInfo]
    BY DEF Init, FileInfo, AllSlots, Absent
  <2>2. disk \in [Paths -> Nat] /\ seen.disk \in [Paths -> Nat] /\ seen.config = NoFile
    BY DEF Init
  <2>3. /\ current \in [AllSlots -> FileIds \cup {NoFile}]
        /\ refs \in [Clients -> [AllSlots -> FileIds \cup {NoFile}]]
        /\ trustList \in [FileIds -> FileIds \cup {NoFile}]
        /\ serving \in [Clients -> {"none", "setup", "chat", "between", "release", "ended"}]
    BY DEF Init, NoRefs
  <2>4. /\ diskConfig \in Configs /\ files \subseteq FileIds /\ obsolete \subseteq FileIds
        /\ marked \subseteq FileIds /\ needBind \subseteq FileIds
        /\ clients \subseteq Clients /\ active \subseteq Clients
    BY DEF Init
  <2>5. /\ pc = "loadConfig" /\ todo \subseteq Slots \cup Clients
        /\ me = NoClient /\ config = NoFile /\ loading = NoFile
        /\ stopping \in BOOLEAN /\ tlsReleased \in BOOLEAN
    BY DEF Init
  <2>6. drains \in 0..MaxDrains /\ finals \in 0..2 /\ nActive \in Nat /\ edits \in Nat
    BY DEF Init
  <2>7. QED
    BY <2>1, <2>2, <2>3, <2>4, <2>5, <2>6 DEF TypeOK
<1>2. ListenerInv /\ ConfigInv
    BY DEF Init, ListenerInv, ConfigInv, SetupPlaces, NoRefs, AllSlots
<1>3. FilesInv
    BY DEF Init, FilesInv, LoadedIsCurrentOrObsolete, NoRefs
<1>4. ClientInv /\ SweepInv
    BY DEF Init, ClientInv, SweepInv, IsServing, FilesInUseLoaded
<1>5. QED
    BY <1>1, <1>2, <1>3, <1>4 DEF ReloadInv

-----------------------------------------------------------------------------
(* Type correctness.  The steps that build a value get lemmas.             *)

LEMMA SweepClientType ==
  ASSUME ReloadInv, NEW c \in Clients, SweepClient(c)
  PROVE  TypeOK'
<1> USE DEF diskVars, fileVars, clientVars, bindVars, stopVars, ReloadInv, TypeOK
<1>1. nActive' \in Nat
    BY DEF SweepClient
<1>2. marked' \subseteq FileIds
    BY DEF SweepClient, Held
<1>3. refs' \in [Clients -> [AllSlots -> FileIds \cup {NoFile}]]
    BY DEF SweepClient, NoRefs
<1>4. QED
    BY <1>1, <1>2, <1>3 DEF SweepClient

\* A loader reads the path from a configuration, not from a freed node.
LEMMA LoadFileType ==
  ASSUME ReloadInv, NEW s \in Slots, NEW f \in FileIds, LoadFile(s, f)
  PROVE  TypeOK'
<1> USE ConstantsAssumption
    DEF diskVars, fileVars, clientVars, bindVars, stopVars, ReloadInv, TypeOK, LoadFile
<1>1. info' \in [FileIds -> FileInfo]
  <2>1. LoaderConfig \in FileIds /\ ConfOf(LoaderConfig) \in Configs
    BY DEF ConfigInv, ListenerInv, InLoader, LoaderConfig, ConfOf, SetupPlaces, AllSlots
  <2>2. PathFor(s) \in Paths
    BY <2>1 DEF PathFor, ConfigType
  <2>3. QED
    BY <2>2 DEF NewNode, FileInfo, AllSlots
<1>2. /\ files' \subseteq FileIds /\ obsolete' \subseteq FileIds
      /\ current' \in [AllSlots -> FileIds \cup {NoFile}]
      /\ trustList' \in [FileIds -> FileIds \cup {NoFile}]
    BY DEF Retire, AllSlots
<1>3. refs' \in [Clients -> [AllSlots -> FileIds \cup {NoFile}]]
    BY DEF PointTo, AllSlots
<1>4. QED
    BY <1>1, <1>2, <1>3 DEF InLoader

\* Writing to a file on disk.
LEMMA DiskType ==
  ASSUME ReloadInv,
         \/ \E c \in Clients : ChatApprovingTarget(c)
         \/ \E p \in Paths : EditFile(p)
  PROVE  TypeOK'
<1> USE ConstantsAssumption
    DEF fileVars, clientVars, bindVars, stopVars, listenVars, threadUnchanged, ReloadInv, TypeOK
<1>1. ASSUME NEW c \in Clients, ChatApprovingTarget(c) PROVE TypeOK'
  <2>1. edits' \in Nat
    BY <1>1 DEF ChatApprovingTarget
  <2>2. disk' \in [Paths -> Nat]
    BY <1>1, <2>1 DEF ChatApprovingTarget
  <2>3. QED
    BY <1>1, <2>1, <2>2 DEF ChatApprovingTarget
<1>2. ASSUME NEW p \in Paths, EditFile(p) PROVE TypeOK'
  <2>1. edits' \in Nat
    BY <1>2 DEF EditFile
  <2>2. disk' \in [Paths -> Nat]
    BY <1>2, <2>1 DEF EditFile, Absent
  <2>3. QED
    BY <1>2, <2>1, <2>2 DEF EditFile
<1>3. QED
    BY <1>1, <1>2

\* Every step keeps the types.
LEMMA TypeOKStep == ReloadInv /\ [Next]_vars => TypeOK'
<1> SUFFICES ASSUME ReloadInv, [Next]_vars PROVE TypeOK'
    OBVIOUS
<1> USE ConstantsAssumption
    DEF vars, diskVars, fileVars, clientVars, bindVars, stopVars, listenVars,
        threadUnchanged, ReloadInv, TypeOK, ListenerInv, ConfigInv, AllSlots, FileInfo, NoRefs
<1>1. CASE SweepBegin
    BY <1>1 DEF SweepBegin
<1>2. ASSUME NEW c \in Clients, SweepClient(c) PROVE TypeOK'
    BY <1>2, SweepClientType
<1>3. CASE SweepFiles
    BY <1>3 DEF SweepFiles, Garbage
<1>4. ASSUME NEW c \in Clients, Accept(c) PROVE TypeOK'
    BY <1>4 DEF Accept
<1>5. CASE AcceptFails
    BY <1>5 DEF AcceptFails
<1>6. CASE KeepConfig
    BY <1>6 DEF KeepConfig, UseConfig, Unchanged
<1>7. ASSUME NEW f \in FileIds, ReadConfig(f) PROVE TypeOK'
    BY <1>7 DEF ReadConfig, NewNode, Unchanged, SlotsToLoad
<1>8. CASE FinishConfig
    BY <1>8 DEF FinishConfig, UseConfig, Retire
<1>9. CASE Bind
    BY <1>9 DEF Bind, SlotsToLoad
<1>10. ASSUME NEW s \in Slots, KeepFile(s) PROVE TypeOK'
    BY <1>10 DEF KeepFile, PointTo, Unchanged, InLoader
<1>11. ASSUME NEW s \in Slots, NEW f \in FileIds, LoadFile(s, f) PROVE TypeOK'
    BY <1>11, LoadFileType
<1>12. ASSUME NEW s \in Slots, DropFile(s) PROVE TypeOK'
    BY <1>12 DEF DropFile, Retire, InLoader
<1>13. CASE Fatal
    BY <1>13 DEF Fatal
<1>14. CASE AllLoaded
    BY <1>14 DEF AllLoaded
<1>15. CASE AclDrop
    BY <1>15 DEF AclDrop, Discard
<1>16. CASE RejectMax
    BY <1>16 DEF RejectMax, Discard
<1>17. CASE Serve
    BY <1>17 DEF Serve
<1>18. CASE SpawnFails
    BY <1>18 DEF SpawnFails
<1>19. CASE Terminate
    BY <1>19 DEF Terminate, CurrentFiles
<1>20. CASE DrainAgain
    BY <1>20 DEF DrainAgain, WaitOver
<1>21. CASE Exit
    BY <1>21 DEF Exit, NoClientLeft
<1>22. ASSUME NEW c \in Clients, Chat(c) PROVE TypeOK'
    BY <1>22 DEF Chat
<1>23. ASSUME NEW c \in Clients, ChatApprovingTarget(c) PROVE TypeOK'
    BY <1>23, DiskType
<1>24. ASSUME NEW c \in Clients, NextRequest(c) PROVE TypeOK'
    BY <1>24 DEF NextRequest
<1>25. ASSUME NEW c \in Clients, StopChatting(c) PROVE TypeOK'
    BY <1>25 DEF StopChatting
<1>26. ASSUME NEW c \in Clients, EndServing(c) PROVE TypeOK'
    BY <1>26 DEF EndServing
<1>27. ASSUME NEW p \in Paths, EditFile(p) PROVE TypeOK'
    BY <1>27, DiskType
<1>28. CASE UNCHANGED vars
    BY <1>28
<1>29. QED
    BY <1>1, <1>2, <1>3, <1>4, <1>5, <1>6, <1>7, <1>8, <1>9, <1>10, <1>11, <1>12, <1>13,
       <1>14, <1>15, <1>16, <1>17, <1>18, <1>19, <1>20, <1>21, <1>22, <1>23, <1>24, <1>25,
       <1>26, <1>27, <1>28 DEF Next, Listener, Thread, Gone

-----------------------------------------------------------------------------
(* The other parts.                                                        *)

\* The listening thread sets up one connection at a time.
LEMMA ListenerInvStep == ReloadInv /\ [Next]_vars => ListenerInv'
<1> SUFFICES ASSUME ReloadInv, [Next]_vars PROVE ListenerInv'
    OBVIOUS
<1> USE ConstantsAssumption
    DEF vars, diskVars, fileVars, clientVars, bindVars, stopVars, listenVars,
        threadUnchanged, ReloadInv, ListenerInv, SetupPlaces, TypeOK, InLoader
<1>1. ASSUME NEW c \in Clients, SweepClient(c) PROVE ListenerInv'
    BY <1>1 DEF SweepClient
<1>2. CASE SweepFiles
    BY <1>2 DEF SweepFiles, Garbage
<1>3. ASSUME NEW c \in Clients, Accept(c) PROVE ListenerInv'
    BY <1>3 DEF Accept
<1>4. CASE FinishConfig
    BY <1>4 DEF FinishConfig, UseConfig, Retire
<1>5. CASE Bind
    BY <1>5 DEF Bind, SlotsToLoad
<1>6. CASE Fatal
    BY <1>6 DEF Fatal
<1>7. CASE AllLoaded
    BY <1>7 DEF AllLoaded
<1>8. CASE AclDrop
    BY <1>8 DEF AclDrop, Discard
<1>9. CASE RejectMax
    BY <1>9 DEF RejectMax, Discard
<1>10. CASE Serve
    BY <1>10 DEF Serve
<1>11. CASE SpawnFails
    BY <1>11 DEF SpawnFails
<1>12. CASE Terminate
    BY <1>12 DEF Terminate, CurrentFiles
<1>13. CASE DrainAgain
    BY <1>13 DEF DrainAgain, WaitOver
<1>14. CASE Exit
    BY <1>14 DEF Exit, NoClientLeft
<1>15. ASSUME NEW c \in Clients, EndServing(c) PROVE ListenerInv'
    BY <1>15 DEF EndServing
<1>16. CASE \/ SweepBegin \/ AcceptFails \/ KeepConfig \/ (\E f \in FileIds : ReadConfig(f))
            \/ (\E s \in Slots : KeepFile(s))
            \/ (\E s \in Slots, f \in FileIds : LoadFile(s, f))
            \/ (\E s \in Slots : DropFile(s))
    BY <1>16 DEF SweepBegin, AcceptFails, KeepConfig, UseConfig, Unchanged, ReadConfig,
        NewNode, SlotsToLoad, KeepFile, PointTo, LoadFile, Retire, DropFile
<1>17. CASE \/ (\E c \in Clients : Chat(c)) \/ (\E c \in Clients : ChatApprovingTarget(c))
            \/ (\E c \in Clients : NextRequest(c)) \/ (\E c \in Clients : StopChatting(c))
            \/ (\E p \in Paths : EditFile(p))
            \/ UNCHANGED vars
    BY <1>17 DEF Chat, ChatApprovingTarget, NextRequest, StopChatting, EditFile
<1>18. QED
    BY <1>1, <1>2, <1>3, <1>4, <1>5, <1>6, <1>7, <1>8, <1>9, <1>10, <1>11, <1>12, <1>13,
       <1>14, <1>15, <1>16, <1>17 DEF Next, Listener, Thread, Gone

\* It uses the current configuration.
LEMMA ConfigInvStep == ReloadInv /\ [Next]_vars => ConfigInv'
<1> SUFFICES ASSUME ReloadInv, [Next]_vars PROVE ConfigInv'
    OBVIOUS
<1> USE ConstantsAssumption
    DEF vars, diskVars, fileVars, clientVars, bindVars, stopVars, listenVars,
        threadUnchanged, ReloadInv, ConfigInv, ListenerInv, FilesInv, SetupPlaces, TypeOK,
        AllSlots, NoRefs
<1>1. CASE SweepFiles
    BY <1>1 DEF SweepFiles, Garbage
<1>2. CASE KeepConfig
    BY <1>2 DEF KeepConfig, UseConfig, Unchanged
<1>3. ASSUME NEW f \in FileIds, ReadConfig(f) PROVE ConfigInv'
    BY <1>3 DEF ReadConfig, NewNode, Unchanged, SlotsToLoad
<1>4. CASE FinishConfig
    BY <1>4 DEF FinishConfig, UseConfig, Retire
<1>5. ASSUME NEW s \in Slots, NEW f \in FileIds, LoadFile(s, f) PROVE ConfigInv'
    BY <1>5 DEF LoadFile, NewNode, Retire, PointTo, InLoader
<1>6. ASSUME NEW s \in Slots, DropFile(s) PROVE ConfigInv'
    BY <1>6 DEF DropFile, Retire, InLoader
<1>7. CASE Terminate
    BY <1>7 DEF Terminate, CurrentFiles
<1>8. CASE \/ SweepBegin \/ (\E c \in Clients : SweepClient(c))
           \/ (\E c \in Clients : Accept(c)) \/ AcceptFails \/ Bind
           \/ (\E s \in Slots : KeepFile(s)) \/ Fatal \/ AllLoaded \/ AclDrop \/ RejectMax
           \/ Serve \/ SpawnFails \/ DrainAgain \/ Exit
    BY <1>8 DEF SweepBegin, SweepClient, Accept, AcceptFails, Bind, SlotsToLoad, KeepFile,
        PointTo, Unchanged, InLoader, Fatal, AllLoaded, AclDrop, Discard, RejectMax, Serve,
        SpawnFails, DrainAgain, WaitOver, Exit, NoClientLeft
<1>9. CASE \/ (\E c \in Clients : Chat(c)) \/ (\E c \in Clients : ChatApprovingTarget(c))
           \/ (\E c \in Clients : NextRequest(c)) \/ (\E c \in Clients : StopChatting(c))
           \/ (\E c \in Clients : EndServing(c)) \/ (\E p \in Paths : EditFile(p))
           \/ UNCHANGED vars
    BY <1>9 DEF Chat, ChatApprovingTarget, NextRequest, StopChatting, EndServing, EditFile
<1>10. QED
    BY <1>1, <1>2, <1>3, <1>4, <1>5, <1>6, <1>7, <1>8, <1>9 DEF Next, Listener, Thread, Gone

\* Sweeping, loading and retiring files keep the current ones.
LEMMA FilesInvStep == ReloadInv /\ [Next]_vars => FilesInv'
<1> SUFFICES ASSUME ReloadInv, [Next]_vars PROVE FilesInv'
    OBVIOUS
<1> USE ConstantsAssumption
    DEF vars, diskVars, fileVars, clientVars, bindVars, stopVars, listenVars,
        threadUnchanged, ReloadInv, FilesInv, ListenerInv, ConfigInv, LoadedIsCurrentOrObsolete,
        TypeOK, AllSlots, NoRefs, FileInfo
<1>1. CASE SweepFiles
    BY <1>1 DEF SweepFiles, Garbage
<1>2. ASSUME NEW f \in FileIds, ReadConfig(f) PROVE FilesInv'
    BY <1>2 DEF ReadConfig, NewNode, Unchanged, SlotsToLoad
<1>3. CASE FinishConfig
    BY <1>3 DEF FinishConfig, UseConfig, Retire
<1>4. ASSUME NEW s \in Slots, NEW f \in FileIds, LoadFile(s, f) PROVE FilesInv'
    BY <1>4 DEF LoadFile, NewNode, Retire, PointTo, InLoader
<1>5. ASSUME NEW s \in Slots, DropFile(s) PROVE FilesInv'
    BY <1>5 DEF DropFile, Retire, InLoader
<1>6. CASE Terminate
    BY <1>6 DEF Terminate, CurrentFiles
<1>7. CASE \/ SweepBegin \/ (\E c \in Clients : SweepClient(c))
           \/ (\E c \in Clients : Accept(c)) \/ AcceptFails \/ KeepConfig \/ Bind
           \/ (\E s \in Slots : KeepFile(s)) \/ Fatal \/ AllLoaded \/ AclDrop \/ RejectMax
           \/ Serve \/ SpawnFails \/ DrainAgain \/ Exit
    BY <1>7 DEF SweepBegin, SweepClient, Accept, AcceptFails, KeepConfig, UseConfig,
        Unchanged, Bind, SlotsToLoad, KeepFile, PointTo, InLoader, Fatal, AllLoaded,
        AclDrop, Discard, RejectMax, Serve, SpawnFails, DrainAgain, WaitOver, Exit,
        NoClientLeft
<1>8. CASE \/ (\E c \in Clients : Chat(c)) \/ (\E c \in Clients : ChatApprovingTarget(c))
           \/ (\E c \in Clients : NextRequest(c)) \/ (\E c \in Clients : StopChatting(c))
           \/ (\E c \in Clients : EndServing(c)) \/ (\E p \in Paths : EditFile(p))
           \/ UNCHANGED vars
    BY <1>8 DEF Chat, ChatApprovingTarget, NextRequest, StopChatting, EndServing, EditFile
<1>9. QED
    BY <1>1, <1>2, <1>3, <1>4, <1>5, <1>6, <1>7, <1>8 DEF Next, Listener, Thread, Gone

\* A sweep frees no file of a running client: at its end each was visited.
LEMMA SweepFilesKeepsUsed ==
  ASSUME ReloadInv, SweepFiles
  PROVE  ClientInv'
<1> USE DEF ReloadInv, clientVars, stopVars
<1>1. ASSUME NEW c \in Clients, serving[c] = "setup" \/ IsServing(c)
      PROVE  Held(c) \subseteq files'
  <2>1. IsServing(c)
    BY <1>1 DEF ListenerInv, SetupPlaces, SweepFiles
  <2>2. Held(c) \subseteq marked
    BY <2>1 DEF SweepInv, SweepFiles
  <2>3. QED
    BY <1>1, <2>2 DEF SweepFiles, Garbage, ClientInv, FilesInUseLoaded
<1>2. FilesInUseLoaded'
    BY <1>1 DEF FilesInUseLoaded, SweepFiles, IsServing, Held
<1>3. QED
    BY <1>2 DEF ClientInv, SweepFiles, IsServing

\* A client that starts to be served is linked by then, and was active before.
LEMMA ServeLinksClient ==
  ASSUME ReloadInv, Serve
  PROVE  ClientInv'
<1> USE DEF ReloadInv, fileVars, stopVars
<1>1. me \in Clients /\ serving[me] = "setup" /\ pc = "admit"
    BY ConstantsAssumption DEF ListenerInv, SetupPlaces, Serve
<1>2. /\ clients' = clients \cup {me} /\ active' = active /\ refs' = refs
      /\ serving' = [serving EXCEPT ![me] = "chat"]
    BY DEF Serve
<1>3. \A c \in Clients : IsServing(c)' <=> IsServing(c) \/ c = me
    BY <1>1, <1>2 DEF IsServing, TypeOK
<1>4. FilesInUseLoaded'
    BY <1>1, <1>2, <1>3 DEF ClientInv, FilesInUseLoaded, Held, Serve, TypeOK
<1>5. \A c \in clients' : IsServing(c)' \/ serving'[c] = "ended"
    BY <1>1, <1>2, <1>3 DEF ClientInv, TypeOK
<1>6. QED
    BY <1>1, <1>2, <1>3, <1>4, <1>5 DEF ClientInv, TypeOK, Serve

\* A running client is linked and active, and its files are loaded.
LEMMA ClientInvStep == ReloadInv /\ [Next]_vars => ClientInv'
<1> SUFFICES ASSUME ReloadInv, [Next]_vars PROVE ClientInv'
    OBVIOUS
<1> USE ConstantsAssumption
    DEF vars, diskVars, fileVars, clientVars, bindVars, stopVars, listenVars,
        threadUnchanged, ReloadInv, ClientInv, ListenerInv, ConfigInv, FilesInv, FilesInUseLoaded,
        IsServing, Held,
        SetupPlaces, TypeOK, AllSlots, NoRefs, Running
<1>1. ASSUME NEW c \in Clients, SweepClient(c) PROVE ClientInv'
    BY <1>1 DEF SweepClient
<1>2. CASE SweepFiles
    BY <1>2, SweepFilesKeepsUsed
<1>3. ASSUME NEW c \in Clients, Accept(c) PROVE ClientInv'
    BY <1>3 DEF Accept
<1>4. CASE KeepConfig
    BY <1>4 DEF KeepConfig, UseConfig, Unchanged
<1>5. CASE FinishConfig
    BY <1>5 DEF FinishConfig, UseConfig, Retire
<1>6. ASSUME NEW s \in Slots, KeepFile(s) PROVE ClientInv'
    BY <1>6 DEF KeepFile, PointTo, Unchanged, InLoader
<1>7. ASSUME NEW s \in Slots, NEW f \in FileIds, LoadFile(s, f) PROVE ClientInv'
    BY <1>7 DEF LoadFile, NewNode, Retire, PointTo, InLoader
<1>8. CASE AclDrop
    BY <1>8 DEF AclDrop, Discard
<1>9. CASE RejectMax
    BY <1>9 DEF RejectMax, Discard
<1>10. CASE Serve
    BY <1>10, ServeLinksClient
<1>11. CASE SpawnFails
    BY <1>11 DEF SpawnFails
<1>12. CASE Exit
    BY <1>12 DEF Exit, NoClientLeft
<1>13. ASSUME NEW c \in Clients, EndServing(c) PROVE ClientInv'
    BY <1>13 DEF EndServing
<1>14. CASE \/ SweepBegin \/ AcceptFails \/ (\E f \in FileIds : ReadConfig(f)) \/ Bind
            \/ (\E s \in Slots : DropFile(s)) \/ Fatal \/ AllLoaded \/ Terminate
            \/ DrainAgain
    BY <1>14 DEF SweepBegin, AcceptFails, ReadConfig, NewNode, Unchanged, SlotsToLoad, Bind,
        DropFile, Retire, InLoader, Fatal, AllLoaded, Terminate, CurrentFiles, DrainAgain,
        WaitOver
<1>15. CASE \/ (\E c \in Clients : Chat(c)) \/ (\E c \in Clients : ChatApprovingTarget(c))
            \/ (\E c \in Clients : NextRequest(c)) \/ (\E c \in Clients : StopChatting(c))
            \/ (\E p \in Paths : EditFile(p))
            \/ UNCHANGED vars
    BY <1>15 DEF Chat, ChatApprovingTarget, NextRequest, StopChatting, EditFile
<1>16. QED
    BY <1>1, <1>2, <1>3, <1>4, <1>5, <1>6, <1>7, <1>8, <1>9, <1>10, <1>11, <1>12, <1>13,
       <1>14, <1>15 DEF Next, Listener, Thread, Gone

\* The marks of a sweep cover the clients it has visited.
LEMMA SweepInvStep == ReloadInv /\ [Next]_vars => SweepInv'
<1> SUFFICES ASSUME ReloadInv, [Next]_vars PROVE SweepInv'
    OBVIOUS
<1> USE ConstantsAssumption
    DEF vars, diskVars, fileVars, clientVars, bindVars, stopVars, listenVars,
        threadUnchanged, ReloadInv, SweepInv, ListenerInv, ClientInv, IsServing, Held, TypeOK,
        SetupPlaces, AllSlots, Running
<1>1. CASE SweepBegin
    BY <1>1 DEF SweepBegin
<1>2. ASSUME NEW c \in Clients, SweepClient(c) PROVE SweepInv'
    BY <1>2 DEF SweepClient
<1>3. CASE Serve
    BY <1>3 DEF Serve
<1>4. ASSUME NEW c \in Clients, EndServing(c) PROVE SweepInv'
    BY <1>4 DEF EndServing
<1>5. CASE \/ SweepFiles \/ (\E c \in Clients : Accept(c)) \/ AcceptFails \/ KeepConfig
           \/ (\E f \in FileIds : ReadConfig(f)) \/ FinishConfig \/ Bind
           \/ (\E s \in Slots : KeepFile(s))
           \/ (\E s \in Slots, f \in FileIds : LoadFile(s, f))
           \/ (\E s \in Slots : DropFile(s)) \/ Fatal \/ AllLoaded \/ AclDrop \/ RejectMax
           \/ SpawnFails \/ Terminate \/ DrainAgain \/ Exit
    BY <1>5 DEF SweepFiles, Garbage, Accept, AcceptFails, KeepConfig, UseConfig, Unchanged,
        ReadConfig, NewNode, SlotsToLoad, FinishConfig, Retire, Bind, KeepFile, PointTo,
        InLoader, LoadFile, DropFile, Fatal, AllLoaded, AclDrop, Discard, RejectMax,
        SpawnFails, Terminate, CurrentFiles, DrainAgain, WaitOver, Exit, NoClientLeft
<1>6. CASE \/ (\E c \in Clients : Chat(c)) \/ (\E c \in Clients : ChatApprovingTarget(c))
           \/ (\E c \in Clients : NextRequest(c)) \/ (\E c \in Clients : StopChatting(c))
           \/ (\E p \in Paths : EditFile(p))
           \/ UNCHANGED vars
    BY <1>6 DEF Chat, ChatApprovingTarget, NextRequest, StopChatting, EditFile
<1>7. QED
    BY <1>1, <1>2, <1>3, <1>4, <1>5, <1>6 DEF Next, Listener, Thread, Gone

-----------------------------------------------------------------------------
(* Theorems.                                                               *)

\* The inductive invariant: every step of the listening thread, of a serving
\* thread and of the administrator keeps it.
THEOREM ReloadInvariant == Spec => []ReloadInv
<1>1. ReloadInv /\ [Next]_vars => ReloadInv'
    BY TypeOKStep, ListenerInvStep, ConfigInvStep, FilesInvStep, ClientInvStep, SweepInvStep
    DEF ReloadInv
<1>2. QED
    BY InitInv, <1>1, PTL DEF Spec

\* Type correctness.
THEOREM TypeCorrect == Spec => []TypeOK
<1>1. ReloadInv => TypeOK
    BY DEF ReloadInv
<1>2. QED
    BY ReloadInvariant, <1>1, PTL

\* The files that a connection reads are not freed under it: sweep() in loaders.c
\* together with the order in which listen_loop() and serve() set and clear
\* CSP_FLAG_ACTIVE.
THEOREM NoUseAfterFree == Spec => []FilesInUseLoaded
<1>1. ReloadInv => FilesInUseLoaded
    BY DEF ReloadInv, ClientInv
<1>2. QED
    BY ReloadInvariant, <1>1, PTL

\* The files for the next request, and the listening thread's configuration,
\* survive every sweep.
THEOREM CurrentFilesStay == Spec => []CurrentFilesLoaded
<1>1. ReloadInv => CurrentFilesLoaded
  <2> SUFFICES ASSUME ReloadInv PROVE CurrentFilesLoaded
    OBVIOUS
  <2>1. \A s \in AllSlots : current[s] # NoFile =>
          current[s] \in files \ obsolete /\ info[current[s]].slot = s
    BY DEF ReloadInv, FilesInv
  <2>2. pc \in {"mark", "accept", "bind", "loaders", "admit"} /\ ~stopping => config \in files
    BY <2>1 DEF ReloadInv, ConfigInv, AllSlots
  <2>3. QED
    BY <2>1, <2>2 DEF CurrentFilesLoaded
<1>2. QED
    BY ReloadInvariant, <1>1, PTL

\* No loaded file is forgotten by a reload.
THEOREM NothingLeaked == Spec => []LoadedIsCurrentOrObsolete
<1>1. ReloadInv => LoadedIsCurrentOrObsolete
    BY DEF ReloadInv, FilesInv
<1>2. QED
    BY ReloadInvariant, <1>1, PTL

\* A graceful exit calls ssl_release() only after the last connection.
THEOREM TlsOutlivesClients == Spec => []TlsReleasedWhenIdle
<1>1. ReloadInv => TlsReleasedWhenIdle
    BY DEF ReloadInv, ClientInv, TlsReleasedWhenIdle
<1>2. QED
    BY ReloadInvariant, <1>1, PTL

\* A client_state is freed only after its thread cleared CSP_FLAG_ACTIVE, which
\* is the last thing serve() does.
THEOREM NoEarlyFree == Spec => ClientFreedAfterServe
<1>1. ReloadInv /\ [Next]_vars => \A c \in clients \ clients' : serving[c] = "ended"
  <2> SUFFICES ASSUME ReloadInv, [Next]_vars, NEW c \in clients \ clients'
               PROVE  serving[c] = "ended"
    OBVIOUS
  <2> USE DEF clientVars, threadUnchanged, ReloadInv, TypeOK, ClientInv, ListenerInv
  <2>1. CASE \E d \in Clients : SweepClient(d)
    BY <2>1 DEF SweepClient
  <2>2. CASE SweepBegin \/ SweepFiles \/ AcceptFails \/ (\E d \in Clients : Accept(d))
    BY <2>2 DEF SweepBegin, SweepFiles, AcceptFails, Accept
  <2>3. CASE \/ KeepConfig \/ FinishConfig \/ Bind \/ (\E f \in FileIds : ReadConfig(f))
             \/ (\E s \in Slots : KeepFile(s) \/ DropFile(s))
             \/ (\E s \in Slots, f \in FileIds : LoadFile(s, f)) \/ Fatal \/ AllLoaded
    BY <2>3 DEF KeepConfig, FinishConfig, Bind, ReadConfig, KeepFile, DropFile, LoadFile, Fatal,
                AllLoaded
  <2>4. CASE AclDrop \/ RejectMax \/ Serve \/ SpawnFails
    BY <2>4 DEF AclDrop, RejectMax, Discard, Serve, SpawnFails
  <2>5. CASE Terminate \/ DrainAgain \/ Exit
    BY <2>5 DEF Terminate, DrainAgain, Exit
  <2>6. CASE \/ \E d \in Clients : Thread(d)
             \/ \E p \in Paths : EditFile(p)
             \/ UNCHANGED vars
    BY <2>6 DEF Thread, Chat, ChatApprovingTarget, NextRequest, StopChatting, EndServing,
                EditFile, vars
  <2>7. QED
    BY <2>1, <2>2, <2>3, <2>4, <2>5, <2>6 DEF Next, Listener, Gone
<1>2. QED
    BY ReloadInvariant, <1>1, PTL DEF Spec, ClientFreedAfterServe

-----------------------------------------------------------------------------
(* What a connection is served with.  Each of these properties needs more  *)
(* than ReloadInv: an invariant of its own, inductive relative to it.      *)

\* Unless the new address is still to be bound to, the sockets are bound to that of the
\* current configuration: which is why load_config() may compare with the previous
\* configuration only.
BoundInv ==
  ~stopping /\ current[ConfigSlot] # NoFile =>
    \/ bound = ConfOf(current[ConfigSlot]).ports
    \/ pc \in {"bind", "fatal"} /\ current[ConfigSlot] \in needBind

\* Only a new configuration asks for another address, and Bind sees to it.
LEMMA BoundInvStep == ReloadInv /\ BoundInv /\ [Next]_vars => BoundInv'
<1> SUFFICES ASSUME ReloadInv, BoundInv, [Next]_vars PROVE BoundInv'
    OBVIOUS
<1> USE DEF vars, diskVars, fileVars, clientVars, bindVars, stopVars, listenVars,
        threadUnchanged, BoundInv, ConfOf
<1>1. /\ info \in [FileIds -> FileInfo]
      /\ current \in [AllSlots -> FileIds \cup {NoFile}]
      /\ current[ConfigSlot] # NoFile => current[ConfigSlot] \in files
      /\ ConfigSlot \in AllSlots /\ ConfigSlot \notin Slots
    BY ConstantsAssumption DEF ReloadInv, TypeOK, FilesInv, AllSlots
<1>2. /\ ~stopping => config = current[ConfigSlot]
      /\ pc = "bind" => ~stopping
      /\ pc = "fakeLoaders" => loading \in FileIds
    BY DEF ReloadInv, ConfigInv, ListenerInv
<1>3. ASSUME NEW f \in FileIds, ReadConfig(f) PROVE BoundInv'
    BY <1>1, <1>3 DEF ReadConfig, NewNode
<1>4. CASE FinishConfig
    BY <1>1, <1>2, <1>4 DEF FinishConfig, AddressChanged
<1>5. CASE Bind
    BY <1>1, <1>2, <1>5 DEF Bind
<1>6. ASSUME NEW s \in Slots, NEW f \in FileIds, LoadFile(s, f) PROVE BoundInv'
    BY <1>1, <1>6 DEF LoadFile, NewNode, InLoader
<1>7. ASSUME NEW s \in Slots, DropFile(s) PROVE BoundInv'
    BY <1>1, <1>7 DEF DropFile, InLoader
<1>8. CASE Terminate
    BY <1>8 DEF Terminate
<1>9. CASE \/ SweepBegin \/ (\E c \in Clients : SweepClient(c)) \/ SweepFiles
           \/ (\E c \in Clients : Accept(c)) \/ AcceptFails \/ KeepConfig
           \/ (\E s \in Slots : KeepFile(s)) \/ Fatal \/ AllLoaded
    BY <1>9 DEF SweepBegin, SweepClient, SweepFiles, Accept, AcceptFails, KeepConfig,
        KeepFile, InLoader, Fatal, AllLoaded
<1>10. CASE AclDrop \/ RejectMax \/ Serve \/ SpawnFails \/ DrainAgain \/ Exit
    BY <1>10 DEF AclDrop, Discard, RejectMax, Serve, SpawnFails, DrainAgain, Exit
<1>11. CASE \/ (\E c \in Clients : Chat(c)) \/ (\E c \in Clients : ChatApprovingTarget(c))
            \/ (\E c \in Clients : NextRequest(c)) \/ (\E c \in Clients : StopChatting(c))
            \/ (\E c \in Clients : EndServing(c)) \/ (\E p \in Paths : EditFile(p))
            \/ UNCHANGED vars
    BY <1>11 DEF Chat, ChatApprovingTarget, NextRequest, StopChatting, EndServing, EditFile
<1>12. QED
    BY <1>3, <1>4, <1>5, <1>6, <1>7, <1>8, <1>9, <1>10, <1>11 DEF Next, Listener, Thread, Gone

\* The listening sockets are those of the configuration that connections get: what
\* load_config() compares the new addresses with is never older than what was bound last.
THEOREM BoundAsConfigured == Spec => []BoundToConfig
<1>1. Init => BoundInv
    BY DEF Init, BoundInv, NoRefs, AllSlots
<1>2. ReloadInv /\ BoundInv => BoundToConfig
    BY DEF ReloadInv, BoundInv, ConfigInv, ListenerInv, BoundToConfig
<1>3. QED
    BY ReloadInvariant, BoundInvStep, <1>1, <1>2, PTL DEF Spec

-----------------------------------------------------------------------------
\* A slot of a connection follows its configuration.
Follows(c, s) ==
  LET p == ConfOf(refs[c][ConfigSlot]).path[s]
  IN  IF refs[c][s] = NoFile THEN p = NoPath ELSE info[refs[c][s]].path = p

\* A connection that is set up points to nothing but its configuration until the loaders
\* run, and then to what they have been asked for so far.
SetupInv ==
  /\ me # NoClient /\ pc \in {"loadConfig", "fakeLoaders", "bind"} =>
       \A s \in Slots : refs[me][s] = NoFile
  /\ me # NoClient /\ pc \in {"bind", "loaders", "admit"} => refs[me][ConfigSlot] = config
  /\ pc = "loaders" => \A s \in Slots : IF s \in todo THEN refs[me][s] = NoFile ELSE Follows(me, s)
  /\ pc = "admit" => \A s \in Slots : Follows(me, s)

\* A connection that is served points to a configuration and follows it.
ServedInv ==
  \A c \in Clients : IsServing(c) =>
    refs[c][ConfigSlot] # NoFile /\ \A s \in Slots : Follows(c, s)

\* What is known of a loaded file does not change: the loaders fill in new nodes only.
LEMMA InfoKept == ReloadInv /\ [Next]_vars => \A f \in files : info'[f] = info[f]
<1> SUFFICES ASSUME ReloadInv, [Next]_vars, NEW g \in files PROVE info'[g] = info[g]
    OBVIOUS
<1> USE DEF vars, diskVars, fileVars, clientVars, bindVars, stopVars, listenVars,
        threadUnchanged
<1>1. info \in [FileIds -> FileInfo] /\ g \in FileIds
    BY DEF ReloadInv, TypeOK
<1>2. CASE \/ (\E f \in FileIds : ReadConfig(f))
           \/ (\E s \in Slots, f \in FileIds : LoadFile(s, f))
    BY <1>1, <1>2 DEF ReadConfig, LoadFile, NewNode
<1>3. CASE \/ SweepBegin \/ (\E c \in Clients : SweepClient(c)) \/ SweepFiles
           \/ (\E c \in Clients : Accept(c)) \/ AcceptFails \/ KeepConfig \/ FinishConfig
           \/ Bind \/ (\E s \in Slots : KeepFile(s)) \/ (\E s \in Slots : DropFile(s))
           \/ Fatal \/ AllLoaded
    BY <1>3 DEF SweepBegin, SweepClient, SweepFiles, Accept, AcceptFails, KeepConfig,
        FinishConfig, Bind, KeepFile, DropFile, Fatal, AllLoaded
<1>4. CASE AclDrop \/ RejectMax \/ Serve \/ SpawnFails \/ Terminate \/ DrainAgain \/ Exit
    BY <1>4 DEF AclDrop, Discard, RejectMax, Serve, SpawnFails, Terminate, DrainAgain, Exit
<1>5. CASE \/ (\E c \in Clients : Chat(c)) \/ (\E c \in Clients : ChatApprovingTarget(c))
           \/ (\E c \in Clients : NextRequest(c)) \/ (\E c \in Clients : StopChatting(c))
           \/ (\E c \in Clients : EndServing(c)) \/ (\E p \in Paths : EditFile(p))
           \/ UNCHANGED vars
    BY <1>5 DEF Chat, ChatApprovingTarget, NextRequest, StopChatting, EndServing, EditFile
<1>6. QED
    BY <1>2, <1>3, <1>4, <1>5 DEF Next, Listener, Thread, Gone

\* Nobody but the listening thread changes what a connection points to, and it does so
\* only before the connection is served.
LEMMA ServedRefsKept ==
  ASSUME ReloadInv, [Next]_vars, NEW c \in Clients, IsServing(c)'
  PROVE  refs'[c] = refs[c] /\ (IsServing(c) \/ (c = me /\ Serve))
<1> USE DEF vars, diskVars, fileVars, clientVars, bindVars, stopVars, listenVars,
        threadUnchanged, IsServing
<1>1. /\ refs \in [Clients -> [AllSlots -> FileIds \cup {NoFile}]]
      /\ serving \in [Clients -> {"none", "setup", "chat", "between", "release", "ended"}]
    BY DEF ReloadInv, TypeOK
<1>2. me # NoClient /\ pc \in {"loadConfig", "fakeLoaders", "bind", "loaders", "admit"}
        => serving[me] = "setup"
    BY DEF ReloadInv, ListenerInv, SetupPlaces
<1>3. pc \in {"loaders", "admit"} => me \in Clients /\ me # NoClient
    BY ConstantsAssumption DEF ReloadInv, ListenerInv
<1>4. CASE KeepConfig \/ FinishConfig
    BY <1>1, <1>2, <1>4 DEF KeepConfig, FinishConfig, UseConfig
<1>5. CASE \/ \E s \in Slots : KeepFile(s)
           \/ \E s \in Slots, f \in FileIds : LoadFile(s, f)
    BY <1>1, <1>2, <1>3, <1>5 DEF KeepFile, LoadFile, PointTo
<1>6. CASE (\E d \in Clients : SweepClient(d)) \/ (\E d \in Clients : Accept(d))
    BY <1>1, <1>6 DEF SweepClient, Accept
<1>7. CASE AclDrop \/ RejectMax \/ Serve \/ SpawnFails
    BY <1>1, <1>2, <1>3, <1>7 DEF AclDrop, Discard, RejectMax, Serve, SpawnFails
<1>8. CASE \/ SweepBegin \/ SweepFiles \/ AcceptFails \/ (\E f \in FileIds : ReadConfig(f))
           \/ Bind \/ (\E s \in Slots : DropFile(s)) \/ Fatal \/ AllLoaded
           \/ Terminate \/ DrainAgain \/ Exit
    BY <1>8 DEF SweepBegin, SweepFiles, AcceptFails, ReadConfig, Bind, DropFile, Fatal,
        AllLoaded, Terminate, DrainAgain, Exit
<1>9. CASE \/ (\E d \in Clients : Chat(d)) \/ (\E d \in Clients : ChatApprovingTarget(d))
           \/ (\E d \in Clients : NextRequest(d)) \/ (\E d \in Clients : StopChatting(d))
           \/ (\E d \in Clients : EndServing(d)) \/ (\E p \in Paths : EditFile(p))
           \/ UNCHANGED vars
    BY <1>1, <1>9 DEF Chat, ChatApprovingTarget, NextRequest, StopChatting, EndServing, EditFile
<1>10. QED
    BY <1>4, <1>5, <1>6, <1>7, <1>8, <1>9 DEF Next, Listener, Thread, Gone

\* A connection is served with what the loaders left it, and keeps that.
LEMMA ServedInvStep == ReloadInv /\ ServedInv /\ SetupInv /\ [Next]_vars => ServedInv'
<1> SUFFICES ASSUME ReloadInv, ServedInv, SetupInv, [Next]_vars, NEW c \in Clients, IsServing(c)'
             PROVE  /\ refs'[c][ConfigSlot] # NoFile
                    /\ \A s \in Slots : Follows(c, s)'
    BY DEF ServedInv
<1>1. refs'[c] = refs[c] /\ (IsServing(c) \/ (c = me /\ Serve))
    BY ServedRefsKept
<1>2. refs[c][ConfigSlot] # NoFile /\ \A s \in Slots : Follows(c, s)
  <2>1. CASE IsServing(c)
    BY <2>1 DEF ServedInv
  <2>2. CASE c = me /\ Serve
    BY <2>2, ConstantsAssumption DEF Serve, SetupInv, ReloadInv, ConfigInv
  <2>3. QED
    BY <1>1, <2>1, <2>2
<1>3. \A s \in AllSlots : refs[c][s] # NoFile => refs[c][s] \in files
  <2>1. IsServing(c) \/ serving[c] = "setup"
    BY <1>1, ConstantsAssumption DEF Serve, ReloadInv, ListenerInv, SetupPlaces
  <2>2. QED
    BY <2>1 DEF ReloadInv, ClientInv, FilesInUseLoaded, Held
<1>4. \A s \in AllSlots : refs[c][s] # NoFile => info'[refs[c][s]] = info[refs[c][s]]
    BY <1>3, InfoKept
<1>5. QED
    BY <1>1, <1>2, <1>4 DEF Follows, ConfOf, AllSlots

\* run_loader() calls one loader after the other, each of which points the connection to
\* the file that its configuration names, or to none.
LEMMA SetupInvStep == ReloadInv /\ SetupInv /\ [Next]_vars => SetupInv'
<1> SUFFICES ASSUME ReloadInv, SetupInv, [Next]_vars PROVE SetupInv'
    OBVIOUS
<1> USE DEF vars, diskVars, fileVars, clientVars, bindVars, stopVars, listenVars,
        threadUnchanged
<1>1. /\ info \in [FileIds -> FileInfo]
      /\ refs \in [Clients -> [AllSlots -> FileIds \cup {NoFile}]]
      /\ current \in [AllSlots -> FileIds \cup {NoFile}]
      /\ me \in Clients \cup {NoClient} /\ NoClient \notin Clients
      /\ ConfigSlot \in AllSlots /\ ConfigSlot \notin Slots /\ Slots \subseteq AllSlots
      /\ NoFile \notin FileIds
    BY ConstantsAssumption DEF ReloadInv, TypeOK, AllSlots
<1>2. pc \in {"loaders", "admit"} =>
        /\ me \in Clients
        /\ \A s \in AllSlots : refs[me][s] # NoFile => refs[me][s] \in files
        /\ config \in files
    BY ConstantsAssumption
    DEF ReloadInv, ListenerInv, SetupPlaces, ClientInv, FilesInUseLoaded, Held, ConfigInv,
        FilesInv, AllSlots
<1>3. \A s \in Slots : current[s] # NoFile => current[s] \in files
    BY DEF ReloadInv, FilesInv, AllSlots
<1>4. ASSUME NEW c \in Clients, Accept(c) PROVE SetupInv'
  <2>1. refs[c] = NoRefs
    BY <1>4 DEF Accept, ReloadInv, ClientInv
  <2>2. QED
    BY <1>1, <1>4, <2>1 DEF Accept, SetupInv, NoRefs
<1>5. CASE KeepConfig \/ FinishConfig
    BY <1>1, <1>5 DEF KeepConfig, FinishConfig, UseConfig, SetupInv
<1>6. ASSUME NEW f \in FileIds, ReadConfig(f) PROVE SetupInv'
    BY <1>1, <1>6 DEF ReadConfig, SetupInv
<1>7. CASE Bind
    BY <1>1, <1>7 DEF Bind, SlotsToLoad, Follows, ConfOf, SetupInv
<1>8. ASSUME NEW s \in Slots, KeepFile(s) PROVE SetupInv'
  <2>1. CASE pc = "loaders"
    BY <1>1, <1>2, <1>8, <2>1
    DEF KeepFile, PointTo, Unchanged, PathFor, LoaderConfig, Follows, ConfOf, SetupInv
  <2>2. CASE pc = "fakeLoaders"
    BY <1>1, <1>8, <2>2 DEF KeepFile, PointTo, SetupInv
  <2>3. QED
    BY <1>8, <2>1, <2>2 DEF KeepFile, InLoader
<1>9. ASSUME NEW s \in Slots, NEW f \in FileIds, LoadFile(s, f) PROVE SetupInv'
  <2>1. CASE pc = "loaders"
    <3>1. /\ refs' = [refs EXCEPT ![me][s] = f] /\ todo' = todo \ {s} /\ pc' = pc
          /\ me' = me /\ config' = config /\ f \notin files
          /\ info'[f].path = ConfOf(config).path[s]
      BY <1>1, <1>9, <2>1 DEF LoadFile, PointTo, NewNode, PathFor, LoaderConfig
    <3>2. \A g \in files : info'[g] = info[g]
      BY InfoKept
    <3>3. refs'[me][ConfigSlot] = config /\ ConfOf(config)' = ConfOf(config)
      BY <1>1, <1>2, <2>1, <3>1, <3>2 DEF SetupInv, ConfOf
    <3>4. ASSUME NEW t \in Slots
          PROVE  (IF t \in todo THEN refs[me][t] = NoFile ELSE Follows(me, t))'
      <4>1. CASE t = s
        BY <1>1, <1>2, <2>1, <3>1, <3>3, <4>1 DEF Follows
      <4>2. CASE t # s
        <5>1. refs'[me][t] = refs[me][t] /\ (t \in todo' <=> t \in todo)
          BY <1>1, <1>2, <2>1, <3>1, <4>2
        <5>2. refs[me][t] # NoFile => info'[refs[me][t]] = info[refs[me][t]]
          BY <1>1, <1>2, <2>1, <3>2
        <5>3. IF t \in todo THEN refs[me][t] = NoFile ELSE Follows(me, t)
          BY <2>1 DEF SetupInv
        <5>4. refs[me][ConfigSlot] = config
          BY <1>1, <1>2, <2>1 DEF SetupInv
        <5>5. QED
          BY <3>1, <3>3, <5>1, <5>2, <5>3, <5>4 DEF Follows
      <4>3. QED
        BY <4>1, <4>2
    <3>5. QED
      BY <2>1, <3>1, <3>3, <3>4 DEF SetupInv
  <2>2. CASE pc = "fakeLoaders"
    BY <1>1, <1>9, <2>2 DEF LoadFile, PointTo, SetupInv
  <2>3. QED
    BY <1>9, <2>1, <2>2 DEF LoadFile, InLoader
<1>10. ASSUME NEW s \in Slots, DropFile(s) PROVE SetupInv'
    BY <1>1, <1>2, <1>10
    DEF DropFile, InLoader, PathFor, LoaderConfig, Follows, ConfOf, SetupInv
<1>11. CASE AllLoaded
    BY <1>11 DEF AllLoaded, Follows, ConfOf, SetupInv
<1>12. CASE \/ SweepBegin \/ (\E c \in Clients : SweepClient(c)) \/ SweepFiles \/ AcceptFails
            \/ Fatal \/ AclDrop \/ RejectMax \/ Serve \/ SpawnFails
    BY <1>12 DEF SweepBegin, SweepClient, SweepFiles, AcceptFails, Fatal, AclDrop, Discard,
        RejectMax, Serve, SpawnFails, SetupInv
<1>13. CASE Terminate \/ DrainAgain \/ Exit
    BY <1>13 DEF Terminate, DrainAgain, Exit, SetupInv
<1>14. CASE \/ (\E c \in Clients : Chat(c)) \/ (\E c \in Clients : ChatApprovingTarget(c))
            \/ (\E c \in Clients : NextRequest(c)) \/ (\E c \in Clients : StopChatting(c))
            \/ (\E c \in Clients : EndServing(c)) \/ (\E p \in Paths : EditFile(p))
            \/ UNCHANGED vars
    BY <1>14 DEF Chat, ChatApprovingTarget, NextRequest, StopChatting, EndServing, EditFile,
        Follows, ConfOf, SetupInv
<1>15. QED
    BY <1>4, <1>5, <1>6, <1>7, <1>8, <1>9, <1>10, <1>11, <1>12, <1>13, <1>14
    DEF Next, Listener, Thread, Gone

\* Every file a connection is served with is the one that the connection's configuration
\* names, however the configuration changed while it was set up.
THEOREM FilesFollowConfig == Spec => []SnapshotFollowsConfig
<1>1. Init => ServedInv /\ SetupInv
    BY ConstantsAssumption DEF Init, ServedInv, SetupInv, IsServing
<1>2. ServedInv => SnapshotFollowsConfig
    BY DEF ServedInv, Follows, SnapshotFollowsConfig
<1>3. QED
    BY ReloadInvariant, ServedInvStep, SetupInvStep, <1>1, <1>2, PTL DEF Spec

-----------------------------------------------------------------------------
\* The node is not older than its file was when the last connection was accepted.
Fresh(f) == info[f].mtime >= seen.disk[info[f].path]

\* Since a connection was accepted, files were removed or got a later mtime.
DiskInv ==
  /\ \A p \in Paths : disk[p] <= edits /\ seen.disk[p] <= edits
  /\ pc \in SetupPlaces => \A p \in Paths : disk[p] = Absent \/ disk[p] >= seen.disk[p]

\* A file that is missing is not loaded, and what the loaders compare with the disk is
\* fresh from then on.
FreshInv ==
  /\ \A f \in files : info[f].mtime # Absent
  /\ pc = "fakeLoaders" => info[loading].mtime # Absent /\ Fresh(loading)
  /\ me # NoClient /\ pc = "bind" => Fresh(config)
  /\ pc \in {"loaders", "admit"} =>
       \A s \in AllSlots : refs[me][s] # NoFile => Fresh(refs[me][s])

\* Between accept() and serve(), files on the disk get newer or go away.
LEMMA DiskInvStep == ReloadInv /\ DiskInv /\ [Next]_vars => DiskInv'
<1> SUFFICES ASSUME ReloadInv, DiskInv, [Next]_vars PROVE DiskInv'
    OBVIOUS
<1> USE DEF vars, diskVars, fileVars, clientVars, bindVars, stopVars, listenVars,
        threadUnchanged, SetupPlaces, DiskInv
<1>1. disk \in [Paths -> Nat] /\ seen.disk \in [Paths -> Nat] /\ edits \in Nat
    BY DEF ReloadInv, TypeOK
<1>2. ASSUME NEW c \in Clients, Accept(c) PROVE DiskInv'
    BY <1>1, <1>2 DEF Accept
<1>3. ASSUME edits' = edits + 1, seen' = seen, pc' = pc,
             NEW q, disk' = [disk EXCEPT ![q] = edits'] \/ disk' = [disk EXCEPT ![q] = Absent]
      PROVE  DiskInv'
  <2>1. ASSUME NEW p \in Paths
        PROVE  /\ disk'[p] \in {disk[p], edits + 1, Absent}
               /\ seen'.disk[p] = seen.disk[p]
    BY <1>1, <1>3
  <2>2. QED
    BY <1>1, <1>3, <2>1 DEF Absent
<1>4. CASE \/ (\E c \in Clients : ChatApprovingTarget(c)) \/ (\E p \in Paths : EditFile(p))
    BY <1>3, <1>4 DEF ChatApprovingTarget, EditFile
<1>5. CASE \/ SweepBegin \/ (\E c \in Clients : SweepClient(c)) \/ SweepFiles \/ AcceptFails
           \/ KeepConfig \/ (\E f \in FileIds : ReadConfig(f)) \/ FinishConfig \/ Bind
           \/ (\E s \in Slots : KeepFile(s)) \/ (\E s \in Slots : DropFile(s))
           \/ (\E s \in Slots, f \in FileIds : LoadFile(s, f)) \/ Fatal \/ AllLoaded
    BY <1>5 DEF SweepBegin, SweepClient, SweepFiles, AcceptFails, KeepConfig, ReadConfig,
        FinishConfig, Bind, KeepFile, DropFile, LoadFile, Fatal, AllLoaded
<1>6. CASE AclDrop \/ RejectMax \/ Serve \/ SpawnFails \/ Terminate \/ DrainAgain \/ Exit
    BY <1>6 DEF AclDrop, Discard, RejectMax, Serve, SpawnFails, Terminate, DrainAgain, Exit
<1>7. CASE \/ (\E c \in Clients : Chat(c)) \/ (\E c \in Clients : NextRequest(c))
           \/ (\E c \in Clients : StopChatting(c)) \/ (\E c \in Clients : EndServing(c))
           \/ UNCHANGED vars
    BY <1>7 DEF Chat, NextRequest, StopChatting, EndServing
<1>8. QED
    BY <1>2, <1>4, <1>5, <1>6, <1>7 DEF Next, Listener, Thread, Gone

\* A node whose time is the one on disk is fresh.
LEMMA UnchangedIsFresh ==
  ASSUME ReloadInv, DiskInv, pc \in SetupPlaces, NEW f \in FileIds,
         info[f].mtime = disk[info[f].path], info[f].mtime # Absent
  PROVE  Fresh(f)
<1>1. info[f].path \in Paths
    BY DEF ReloadInv, TypeOK, FileInfo
<1>2. QED
    BY <1>1 DEF DiskInv, Fresh

\* Each loader compares with the disk or reads from it, after the connection was accepted.
LEMMA FreshInvStep ==
  ReloadInv /\ SetupInv /\ DiskInv /\ FreshInv /\ [Next]_vars => FreshInv'
<1> SUFFICES ASSUME ReloadInv, SetupInv, DiskInv, FreshInv, [Next]_vars PROVE FreshInv'
    OBVIOUS
<1> USE DEF vars, diskVars, fileVars, clientVars, bindVars, stopVars, listenVars,
        threadUnchanged
<1>1. /\ info \in [FileIds -> FileInfo]
      /\ refs \in [Clients -> [AllSlots -> FileIds \cup {NoFile}]]
      /\ current \in [AllSlots -> FileIds \cup {NoFile}]
      /\ me \in Clients \cup {NoClient} /\ NoClient \notin Clients
      /\ ConfigSlot \in AllSlots /\ ConfigSlot \notin Slots /\ AllSlots = Slots \cup {ConfigSlot}
      /\ NoFile \notin FileIds
    BY ConstantsAssumption DEF ReloadInv, TypeOK, AllSlots
<1>2. pc \in {"loaders", "admit"} =>
        me \in Clients /\ \A s \in AllSlots : refs[me][s] # NoFile => refs[me][s] \in files
    BY ConstantsAssumption
    DEF ReloadInv, ListenerInv, SetupPlaces, ClientInv, FilesInUseLoaded, Held
<1>3. \A s \in AllSlots : current[s] # NoFile => current[s] \in files
    BY DEF ReloadInv, FilesInv
<1>4. /\ pc = "fakeLoaders" => loading \in FileIds \ files
      /\ files \subseteq FileIds
    BY DEF ReloadInv, ConfigInv, TypeOK
<1>5. \A f \in files : info'[f] = info[f]
    BY InfoKept
<1>6. ASSUME NEW c \in Clients, Accept(c) PROVE FreshInv'
    BY <1>6 DEF Accept, FreshInv
<1>7. CASE KeepConfig
  <2>1. Fresh(current[ConfigSlot])
    BY <1>1, <1>3, <1>7, UnchangedIsFresh DEF KeepConfig, Unchanged, SetupPlaces, FreshInv
  <2>2. QED
    BY <1>7, <2>1 DEF KeepConfig, UseConfig, FreshInv, Fresh
<1>8. ASSUME NEW f \in FileIds, ReadConfig(f) PROVE FreshInv'
  <2>1. info'[f].mtime = disk[ConfigPath] /\ info'[f].path = ConfigPath
    BY <1>1, <1>8 DEF ReadConfig, NewNode
  <2>2. disk[ConfigPath] # Absent /\ disk[ConfigPath] >= seen.disk[ConfigPath]
    BY <1>8, ConstantsAssumption DEF ReadConfig, DiskInv, SetupPlaces
  <2>3. QED
    BY <1>5, <1>8, <2>1, <2>2 DEF ReadConfig, FreshInv, Fresh
<1>9. CASE FinishConfig
    BY <1>9 DEF FinishConfig, UseConfig, FreshInv, Fresh
<1>10. CASE Bind
    BY <1>1, <1>10 DEF Bind, FreshInv, Fresh, SetupInv
<1>11. ASSUME NEW s \in Slots, KeepFile(s) PROVE FreshInv'
  <2>1. Fresh(current[s])
    BY <1>1, <1>3, <1>11, UnchangedIsFresh
    DEF KeepFile, InLoader, Unchanged, SetupPlaces, FreshInv
  <2>2. QED
    BY <1>1, <1>2, <1>11, <2>1 DEF KeepFile, InLoader, PointTo, FreshInv, Fresh
<1>12. ASSUME NEW s \in Slots, NEW f \in FileIds, LoadFile(s, f) PROVE FreshInv'
  <2>1. info'[f].mtime = disk[PathFor(s)] /\ info'[f].path = PathFor(s)
    BY <1>1, <1>12 DEF LoadFile, NewNode
  <2>2. PathFor(s) \in Paths
    BY <1>1, <1>12, <2>1, TypeOKStep DEF TypeOK, FileInfo
  <2>3. disk[PathFor(s)] # Absent /\ disk[PathFor(s)] >= seen.disk[PathFor(s)]
    BY <1>12, <2>2 DEF LoadFile, InLoader, DiskInv, SetupPlaces
  <2>4. /\ seen' = seen /\ pc' = pc /\ me' = me /\ loading' = loading /\ files' = files \cup {f}
        /\ pc \in {"fakeLoaders", "loaders"} /\ f # loading
        /\ info' = [info EXCEPT ![f] = info'[f]]
        /\ refs' = IF pc = "loaders" THEN [refs EXCEPT ![me][s] = f] ELSE refs
    BY <1>1, <1>12 DEF LoadFile, InLoader, NewNode, PointTo
  <2>5. Fresh(f)' /\ info'[f].mtime # Absent
    BY <2>1, <2>3, <2>4 DEF Fresh
  <2>6. pc = "fakeLoaders" => info'[loading] = info[loading]
    BY <1>1, <1>4, <2>4
  <2>7. ASSUME pc = "loaders", NEW t \in AllSlots, refs'[me][t] # NoFile
        PROVE  info'[refs'[me][t]].mtime >= seen.disk[info'[refs'[me][t]].path]
    <3>1. CASE t = s
      BY <1>1, <1>2, <2>1, <2>3, <2>4, <2>7, <3>1
    <3>2. CASE t # s
      <4>1. refs'[me][t] = refs[me][t] /\ refs[me][t] \in files
        BY <1>1, <1>2, <2>4, <2>7, <3>2
      <4>2. Fresh(refs[me][t])
        BY <2>7, <4>1 DEF FreshInv
      <4>3. QED
        BY <1>5, <4>1, <4>2 DEF Fresh
    <3>3. QED
      BY <3>1, <3>2
  <2>8. CASE pc = "loaders"
    BY <1>5, <2>4, <2>5, <2>7, <2>8 DEF FreshInv, Fresh
  <2>9. CASE pc = "fakeLoaders"
    BY <1>5, <2>4, <2>5, <2>6, <2>9 DEF FreshInv, Fresh
  <2>10. QED
    BY <2>4, <2>8, <2>9
<1>13. ASSUME NEW s \in Slots, DropFile(s) PROVE FreshInv'
    BY <1>13 DEF DropFile, FreshInv, Fresh
<1>14. CASE SweepBegin \/ (\E c \in Clients : SweepClient(c)) \/ SweepFiles \/ AcceptFails
    BY <1>14 DEF SweepBegin, SweepClient, SweepFiles, AcceptFails, FreshInv
<1>15. CASE Fatal \/ AllLoaded \/ AclDrop \/ RejectMax \/ Serve \/ SpawnFails
    BY <1>15 DEF Fatal, AllLoaded, AclDrop, Discard, RejectMax, Serve, SpawnFails, FreshInv, Fresh
<1>16. CASE Terminate \/ DrainAgain \/ Exit
    BY <1>16 DEF Terminate, DrainAgain, Exit, FreshInv
<1>17. CASE \/ (\E c \in Clients : Chat(c)) \/ (\E c \in Clients : ChatApprovingTarget(c))
            \/ (\E c \in Clients : NextRequest(c)) \/ (\E c \in Clients : StopChatting(c))
            \/ (\E c \in Clients : EndServing(c)) \/ (\E p \in Paths : EditFile(p))
            \/ UNCHANGED vars
    BY <1>17 DEF Chat, ChatApprovingTarget, NextRequest, StopChatting, EndServing, EditFile,
        FreshInv, Fresh
<1>18. QED
    BY <1>6, <1>7, <1>8, <1>9, <1>10, <1>11, <1>12, <1>13, <1>14, <1>15, <1>16, <1>17
    DEF Next, Listener, Thread, Gone

\* A connection is served with files that are at least as new as those on the disk when it
\* was accepted.
THEOREM ServedFresh == Spec => FreshWhenServed
<1>1. Init => SetupInv /\ DiskInv /\ FreshInv
    BY DEF Init, SetupInv, DiskInv, FreshInv
<1>2. FreshInv => (Serve => \A s \in AllSlots : refs[me][s] # NoFile =>
                              info[refs[me][s]].mtime >= seen.disk[info[refs[me][s]].path])
    BY DEF Serve, FreshInv, Fresh
<1>3. QED
    BY ReloadInvariant, SetupInvStep, DiskInvStep, FreshInvStep, <1>1, <1>2, PTL
    DEF Spec, FreshWhenServed

-----------------------------------------------------------------------------
(* ClientTags.                                                             *)

-----------------------------------------------------------------------------
(* Lists.                                                                  *)

\* The order on the natural numbers, as the theorems on well-founded relations want it.
LEMMA Smaller == \A i, k \in Nat : <<k, i>> \in OpToRel(<, Nat) <=> k < i
  BY DEF OpToRel

\* Every nonempty set of natural numbers has a least element: what stands in for induction.
LEMMA LeastElement ==
  ASSUME NEW S, S \subseteq Nat, S # {}
  PROVE  \E i \in S : \A k \in S : i <= k
<1>1. PICK i \in S : \A k \in S : ~ (<<k, i>> \in OpToRel(<, Nat))
  BY NatLessThanWellFounded, WFMin
<1>2. \A k \in S : ~ (k < i)
  BY <1>1, Smaller
<1> QED
  BY <1>2

\* u has entries of the sequence that did not have to go, in their order.
Thins(u, seq, gone) ==
  /\ \A k \in DOMAIN u : \E p \in DOMAIN seq : seq[p] \notin gone /\ u[k] = seq[p]
  /\ \A k, l \in DOMAIN u : k < l =>
       \E p, q \in DOMAIN seq : p < q /\ u[k] = seq[p] /\ u[l] = seq[q]

\* What Unlinked() leaves.
LEMMA UnlinkedFacts ==
  ASSUME NEW S, NEW seq \in Seq(S), NEW gone
  PROVE  Unlinked(seq, gone) \in Seq(S) /\ Thins(Unlinked(seq, gone), seq, gone)
<1> DEFINE n == Len(seq)
           Step(g, i) == IF i = 0 THEN <<>>
                         ELSE IF seq[i] \in gone THEN g[i - 1] ELSE Append(g[i - 1], seq[i])
           IsLeft(g, k) == g = [i \in 0..k |-> Step(g, i)]
<1>1. n \in Nat /\ DOMAIN seq = 1..n
  OBVIOUS
<1> HIDE DEF n
<1>2. \E g : IsLeft(g, n)
  <2> DEFINE bad == {k \in Nat : ~ \E g : IsLeft(g, k)}
  <2>1. SUFFICES ASSUME bad # {} PROVE FALSE
    BY <1>1
  <2>2. PICK k \in bad : \A i \in bad : k <= i
    BY <2>1, LeastElement
  <2>3. CASE k = 0
    <3> DEFINE g == [i \in 0..0 |-> <<>>]
    <3>1. IsLeft(g, 0)
      OBVIOUS
    <3> QED
      BY <2>2, <2>3, <3>1
  <2>4. CASE k # 0
    <3>1. k \in Nat /\ k - 1 \in Nat /\ ~(k <= k - 1)
      BY <2>2, <2>4
    <3>2. PICK g : IsLeft(g, k - 1)
      BY <2>2, <3>1
    <3> DEFINE h == [i \in 0..k |-> IF i < k THEN g[i] ELSE Step(g, k)]
    <3>3. DOMAIN g = 0..(k - 1) /\ \A i \in 0..(k - 1) : g[i] = Step(g, i)
      BY <3>2
    <3>4. ASSUME NEW i \in 0..k
          PROVE  h[i] = Step(h, i)
      <4>1. CASE i = 0
        BY <4>1, <3>1, <3>3, <2>4
      <4>2. CASE i # 0 /\ i < k
        <5>1. i - 1 \in 0..k /\ i - 1 < k /\ i \in 0..(k - 1)
          BY <4>2, <3>1
        <5>2. h[i - 1] = g[i - 1] /\ h[i] = g[i]
          BY <4>2, <5>1
        <5> QED
          BY <3>3, <4>2, <5>1, <5>2
      <4>3. CASE i = k
        <5>1. h[k - 1] = g[k - 1]
          BY <3>1
        <5> QED
          BY <4>3, <5>1, <2>4, <3>1
      <4> QED
        BY <4>1, <4>2, <4>3, <3>1
    <3>5. IsLeft(h, k)
      <4> DEFINE hh == [i \in 0..k |-> Step(h, i)]
      <4>1. \A i \in 0..k : h[i] = hh[i]
        BY <3>4
      <4>2. h = hh
        BY <4>1
      <4> QED
        BY <4>2
    <3> QED
      BY <2>2, <3>5
  <2> QED
    BY <2>3, <2>4
<1> DEFINE Left[i \in 0..n] == IF i = 0 THEN <<>>
             ELSE IF seq[i] \in gone THEN Left[i - 1] ELSE Append(Left[i - 1], seq[i])
<1>3. Unlinked(seq, gone) = Left[n]
  BY DEF Unlinked, n
<1>4. IsLeft(Left, n)
  BY <1>2
<1> HIDE DEF Left
<1>5. \A i \in 0..n : Left[i] = Step(Left, i)
  BY <1>4
<1> HIDE DEF IsLeft
<1> DEFINE Good(i) ==
      /\ Left[i] \in Seq(S)
      /\ \A k \in DOMAIN Left[i] : \E p \in 1..i : seq[p] \notin gone /\ Left[i][k] = seq[p]
      /\ \A k, l \in DOMAIN Left[i] : k < l =>
           \E p, q \in 1..i : p < q /\ Left[i][k] = seq[p] /\ Left[i][l] = seq[q]
<1>6. \A i \in 0..n : Good(i)
  <2> DEFINE bad == {i \in 0..n : ~Good(i)}
  <2>1. SUFFICES ASSUME bad # {} PROVE FALSE
    OBVIOUS
  <2>2. bad \subseteq Nat
    BY <1>1
  <2>3. \E i \in bad : \A k \in bad : i <= k
    <3> HIDE DEF bad
    <3> QED
      BY <2>1, <2>2, LeastElement
  <2>4. PICK i \in bad : \A k \in bad : i <= k
    BY <2>3
  <2>5. CASE i = 0
    <3>1. Left[0] = <<>> /\ <<>> \in Seq(S) /\ DOMAIN <<>> = {}
      BY <1>1, <1>5
    <3>2. Good(0)
      BY <3>1
    <3> QED
      BY <2>4, <2>5, <3>2
  <2>6. CASE i # 0
    <3>1. /\ i - 1 \in 0..n /\ ~(i <= i - 1) /\ i \in 1..n /\ i \in 0..n
          /\ 1..(i - 1) \subseteq 1..i /\ i \in 1..i /\ \A p \in 1..(i - 1) : p < i
      BY <2>4, <2>6, <1>1
    <3>2. Good(i - 1)
      BY <2>4, <3>1
    <3>3. Left[i] = IF seq[i] \in gone THEN Left[i - 1] ELSE Append(Left[i - 1], seq[i])
      BY <2>6, <3>1, <1>5
    <3>4. CASE seq[i] \in gone
      <4>1. Left[i] = Left[i - 1]
        BY <3>3, <3>4
      <4>2. Good(i)
        BY <3>1, <3>2, <4>1
      <4> QED
        BY <2>4, <4>2
    <3>5. CASE seq[i] \notin gone
      <4> DEFINE a == Left[i - 1]
                 b == Append(a, seq[i])
      <4>1. Left[i] = b
        BY <3>3, <3>5
      <4>2. a \in Seq(S) /\ seq[i] \in S
        BY <3>1, <3>2, <1>1
      <4>3. /\ b \in Seq(S) /\ Len(a) \in Nat /\ DOMAIN a = 1..Len(a)
            /\ DOMAIN b = 1..(Len(a) + 1) /\ b[Len(a) + 1] = seq[i]
            /\ \A k \in DOMAIN a : b[k] = a[k]
        BY <4>2
      <4>4. \A k \in DOMAIN b : k \in DOMAIN a \/ k = Len(a) + 1
        BY <4>3
      <4>5. \A k \in DOMAIN b : \E p \in 1..i : seq[p] \notin gone /\ b[k] = seq[p]
        BY <3>1, <3>2, <3>5, <4>3, <4>4
      <4>6. ASSUME NEW k \in DOMAIN b, NEW l \in DOMAIN b, k < l
            PROVE  \E p, q \in 1..i : p < q /\ b[k] = seq[p] /\ b[l] = seq[q]
        <5>1. k \in DOMAIN a
          BY <4>3, <4>4, <4>6
        <5>2. CASE l \in DOMAIN a
          BY <3>1, <3>2, <4>3, <4>6, <5>1, <5>2
        <5>3. CASE l = Len(a) + 1
          <6>1. PICK p \in 1..(i - 1) : a[k] = seq[p]
            BY <3>2, <5>1
          <6>2. p \in 1..i /\ p < i /\ b[k] = seq[p] /\ b[l] = seq[i]
            BY <3>1, <4>3, <5>1, <5>3, <6>1
          <6> QED
            BY <3>1, <6>2
        <5> QED
          BY <4>4, <5>2, <5>3
      <4> HIDE DEF b
      <4>7. Good(i)
        BY <4>1, <4>3, <4>5, <4>6
      <4> QED
        BY <2>4, <4>7
    <3> QED
      BY <3>4, <3>5
  <2> QED
    BY <2>5, <2>6
<1> HIDE DEF Good
<1>7. Good(n)
  <2>1. n \in 0..n
    BY <1>1
  <2> QED
    BY <1>6, <2>1
<1> DEFINE u == Left[n]
<1>8. /\ u \in Seq(S)
      /\ \A k \in DOMAIN u : \E p \in 1..n : seq[p] \notin gone /\ u[k] = seq[p]
      /\ \A k, l \in DOMAIN u : k < l => \E p, q \in 1..n : p < q /\ u[k] = seq[p] /\ u[l] = seq[q]
  BY <1>7 DEF Good
<1> HIDE DEF u
<1>9. u \in Seq(S) /\ Thins(u, seq, gone)
  <2> DEFINE D == DOMAIN seq
  <2>1. D = 1..n
    BY <1>1
  <2> HIDE DEF D
  <2>2. /\ \A k \in DOMAIN u : \E p \in D : seq[p] \notin gone /\ u[k] = seq[p]
        /\ \A k, l \in DOMAIN u : k < l => \E p, q \in D : p < q /\ u[k] = seq[p] /\ u[l] = seq[q]
    BY <1>8, <2>1, Zenon
  <2> QED
    BY <1>8, <2>2, Zenon DEF Thins, D
<1>10. Unlinked(seq, gone) = u
  BY <1>3 DEF u
<1> QED
  BY <1>9, <1>10

-----------------------------------------------------------------------------
(* The list of clients.                                                    *)

\* A client with its tags.
Entry == [client: Addresses, tags: Seq(Tag)]

\* ListWellFormed, of any list.
WellFormed(list) ==
  /\ \A i, j \in DOMAIN list : list[i].client = list[j].client => i = j
  /\ \A i \in DOMAIN list :
       LET tags == list[i].tags IN
       tags # <<>> /\ \A k, l \in DOMAIN tags : tags[k].name = tags[l].name => k = l

\* The inductive invariant: a thread between two requests knows no client.
TagsIndInv ==
  /\ TagsInv
  /\ \A t \in Threads : /\ at[t] = "idle" => req[t] = NoRequest
                        /\ at[t] = "chat" => req[t].client \in Addresses

\* The elements of a sequence.
LEMMA Elements ==
  ASSUME NEW S, NEW seq \in Seq(S)
  PROVE  /\ DOMAIN seq = 1..Len(seq) /\ Len(seq) \in Nat /\ DOMAIN seq \subseteq Nat
         /\ \A i \in DOMAIN seq : seq[i] \in S
OBVIOUS

\* Without() takes nothing but the tags that have to go, and leaves a list well formed.
LEMMA WithoutFacts ==
  ASSUME TagsTypeOK, NEW c \in Addresses, NEW gone
  PROVE  /\ Without(c, gone) \in Seq(Entry) /\ WellFormed(Without(c, gone))
         /\ \A i \in DOMAIN Without(c, gone) : \E p \in DOMAIN requested :
              /\ Without(c, gone)[i].client = requested[p].client
              /\ ToSet(Without(c, gone)[i].tags) \subseteq ToSet(requested[p].tags)
              /\ requested[p].client = c => ToSet(Without(c, gone)[i].tags) \cap gone = {}
<1> DEFINE Thinned(r) == [r EXCEPT !.tags = Unlinked(r.tags, gone)]
           left == [i \in DOMAIN requested |->
                      IF requested[i].client = c THEN Thinned(requested[i]) ELSE requested[i]]
           empty == {[client |-> c, tags |-> <<>>]}
           w == Unlinked(left, empty)
<1>1. requested \in Seq(Entry) /\ WellFormed(requested)
  BY DEF TagsTypeOK, ListWellFormed, WellFormed, Entry
<1>2. ASSUME NEW i \in DOMAIN requested, requested[i].client = c
      PROVE  /\ left[i] \in Entry /\ left[i].client = c
             /\ Thins(left[i].tags, requested[i].tags, gone)
  <2>1. requested[i] \in Entry /\ requested[i].tags \in Seq(Tag)
    <3>1. requested[i] \in Entry
      BY <1>1, Elements
    <3> QED
      BY <3>1 DEF Entry
  <2>2. left[i] = Thinned(requested[i])
    BY <1>2
  <2> DEFINE r == requested[i]
             ts == Unlinked(r.tags, gone)
  <2>3. ts \in Seq(Tag) /\ Thins(ts, r.tags, gone)
    BY <2>1, UnlinkedFacts
  <2> HIDE DEF ts
  <2>4. left[i] = [r EXCEPT !.tags = ts]
    BY <2>2 DEF ts
  <2>5. left[i].client = c /\ left[i].tags = ts /\ left[i] \in Entry
    BY <1>2, <2>1, <2>3, <2>4 DEF Entry
  <2> QED
    BY <2>3, <2>5
<1>3. \A i \in DOMAIN requested : requested[i].client # c => left[i] = requested[i]
  OBVIOUS
<1>4. DOMAIN left = DOMAIN requested
  OBVIOUS
<1> HIDE DEF left
<1>5. left \in Seq(Entry)
  <2>1. DOMAIN left = 1..Len(requested) /\ Len(requested) \in Nat
    BY <1>1, <1>4
  <2>2. \A i \in 1..Len(requested) : left[i] \in Entry
    BY <1>1, <1>2, <1>3, <1>4, <2>1
  <2>3. left = [i \in 1..Len(requested) |-> left[i]]
    BY <2>1 DEF left
  <2> QED
    BY <2>1, <2>2, <2>3
<1>6. \A i \in DOMAIN left : left[i].client = requested[i].client
  BY <1>2, <1>3, <1>4
<1>7. ASSUME NEW i \in DOMAIN left
      PROVE  /\ \A k \in DOMAIN left[i].tags : \E p \in DOMAIN requested[i].tags :
                  left[i].tags[k] = requested[i].tags[p]
             /\ \A k, l \in DOMAIN left[i].tags : left[i].tags[k].name = left[i].tags[l].name => k = l
             /\ requested[i].client = c => \A k \in DOMAIN left[i].tags : left[i].tags[k] \notin gone
             /\ requested[i].client # c => left[i].tags # <<>>
  <2>1. CASE requested[i].client # c
    BY <1>1, <1>3, <1>4, <2>1 DEF WellFormed
  <2>2. CASE requested[i].client = c
    <3> DEFINE u == left[i].tags
               ts == requested[i].tags
    <3>1. Thins(u, ts, gone) /\ u \in Seq(Tag)
      BY <1>2, <1>4, <2>2 DEF Entry
    <3>2. \A k, l \in DOMAIN ts : ts[k].name = ts[l].name => k = l
      BY <1>1, <1>4 DEF WellFormed
    <3>3. DOMAIN u \subseteq Nat /\ DOMAIN ts \subseteq Nat
      <4>1. requested[i] \in Entry
        BY <1>1, <1>4, Elements
      <4>2. ts \in Seq(Tag) /\ u \in Seq(Tag)
        BY <3>1, <4>1 DEF Entry
      <4> HIDE DEF u, ts
      <4> QED
        BY <4>2, Elements
    <3> HIDE DEF u, ts
    <3>4. ASSUME NEW k \in DOMAIN u, NEW l \in DOMAIN u, k < l
          PROVE  u[k].name # u[l].name
      BY <3>1, <3>2, <3>3, <3>4 DEF Thins
    <3>5. \A k, l \in DOMAIN u : u[k].name = u[l].name => k = l
      BY <3>3, <3>4
    <3>6. \A k \in DOMAIN u : \E p \in DOMAIN ts : ts[p] \notin gone /\ u[k] = ts[p]
      BY <3>1 DEF Thins
    <3> QED
      BY <2>2, <3>5, <3>6 DEF u, ts
  <2> QED
    BY <2>1, <2>2
<1>8. w \in Seq(Entry) /\ Thins(w, left, empty)
  BY <1>5, UnlinkedFacts
<1> HIDE DEF w
<1>9. DOMAIN w \subseteq Nat /\ DOMAIN left \subseteq Nat
  BY <1>5, <1>8
<1>10. ASSUME NEW i \in DOMAIN w
       PROVE  \E p \in DOMAIN left : w[i] = left[p] /\ left[p].tags # <<>>
  <2>1. PICK p \in DOMAIN left : left[p] \notin empty /\ w[i] = left[p]
    BY <1>8 DEF Thins
  <2>2. left[p] \in Entry
    BY <1>5
  <2>3. left[p].client = c => left[p].tags # <<>>
    BY <2>1, <2>2 DEF Entry
  <2>4. left[p].client # c => left[p].tags # <<>>
    BY <1>6, <1>7
  <2> QED
    BY <2>1, <2>3, <2>4
<1>11. \A i, j \in DOMAIN w : i < j => w[i].client # w[j].client
  <2> SUFFICES ASSUME NEW i \in DOMAIN w, NEW j \in DOMAIN w, i < j
               PROVE  w[i].client # w[j].client
    OBVIOUS
  <2>1. PICK p \in DOMAIN left, q \in DOMAIN left : p < q /\ w[i] = left[p] /\ w[j] = left[q]
    BY <1>8 DEF Thins
  <2>2. p # q
    BY <1>9, <2>1
  <2> QED
    BY <1>1, <1>4, <1>6, <2>1, <2>2 DEF WellFormed
<1>12. WellFormed(w)
  <2>1. \A i, j \in DOMAIN w : w[i].client = w[j].client => i = j
    BY <1>9, <1>11
  <2>2. \A i \in DOMAIN w :
          w[i].tags # <<>> /\ \A k, l \in DOMAIN w[i].tags :
                                w[i].tags[k].name = w[i].tags[l].name => k = l
    BY <1>7, <1>10
  <2> QED
    BY <2>1, <2>2 DEF WellFormed
<1>13. ASSUME NEW i \in DOMAIN w
       PROVE  \E p \in DOMAIN requested :
                /\ w[i].client = requested[p].client
                /\ ToSet(w[i].tags) \subseteq ToSet(requested[p].tags)
                /\ requested[p].client = c => ToSet(w[i].tags) \cap gone = {}
  <2>1. PICK p \in DOMAIN left : w[i] = left[p]
    BY <1>10
  <2>2. ToSet(left[p].tags) \subseteq ToSet(requested[p].tags)
    BY <1>7 DEF ToSet
  <2>3. requested[p].client = c => ToSet(left[p].tags) \cap gone = {}
    BY <1>7 DEF ToSet
  <2> QED
    BY <1>4, <1>6, <2>1, <2>2, <2>3
<1> DEFINE v == Without(c, gone)
<1>14. v = <<>> \/ v = w
  BY DEF Without, w, left
<1>15. <<>> \in Seq(Entry) /\ WellFormed(<<>>) /\ DOMAIN <<>> = {}
  BY DEF WellFormed
<1> HIDE DEF v
<1>16. v \in Seq(Entry) /\ WellFormed(v)
  BY <1>8, <1>12, <1>14, <1>15
<1>17. \A i \in DOMAIN v : \E p \in DOMAIN requested :
          /\ v[i].client = requested[p].client
          /\ ToSet(v[i].tags) \subseteq ToSet(requested[p].tags)
          /\ requested[p].client = c => ToSet(v[i].tags) \cap gone = {}
  BY <1>13, <1>14, <1>15
<1> QED
  BY <1>16, <1>17 DEF v

\* Client d has tag e in the list.
Owns(list, d, e) == \E i \in DOMAIN list : list[i].client = d /\ e \in ToSet(list[i].tags)

\* TagsOf() is what a client owns.
LEMMA OwnsTags == \A d, e : e \in TagsOf(d) <=> Owns(requested, d, e)
  BY DEF TagsOf, EntryOf, Owns

\* Without() gives nobody a tag, and takes all that have to go.
LEMMA WithoutOwns ==
  ASSUME TagsTypeOK, NEW c \in Addresses, NEW gone, NEW d, NEW e, Owns(Without(c, gone), d, e)
  PROVE  Owns(requested, d, e) /\ (d = c => e \notin gone)
<1> DEFINE w == Without(c, gone)
<1>1. PICK i \in DOMAIN w : w[i].client = d /\ e \in ToSet(w[i].tags)
  BY DEF Owns
<1>2. PICK p \in DOMAIN requested :
        /\ w[i].client = requested[p].client
        /\ ToSet(w[i].tags) \subseteq ToSet(requested[p].tags)
        /\ requested[p].client = c => ToSet(w[i].tags) \cap gone = {}
  BY WithoutFacts
<1> HIDE DEF w
<1> QED
  BY <1>1, <1>2 DEF Owns

\* Add() gives the client the tag, and nobody else anything.
LEMMA AddFacts ==
  ASSUME TagsTypeOK, NEW c \in Addresses, NEW e \in Tag, ~Has(c, e.name)
  PROVE  /\ Add(c, e) \in Seq(Entry) /\ WellFormed(Add(c, e))
         /\ \A d, x : Owns(Add(c, e), d, x) => Owns(requested, d, x) \/ (d = c /\ x = e)
<1>1. requested \in Seq(Entry) /\ WellFormed(requested)
  BY DEF TagsTypeOK, ListWellFormed, WellFormed, Entry
<1>2. /\ DOMAIN requested = 1..Len(requested) /\ Len(requested) \in Nat
      /\ \A i \in DOMAIN requested : requested[i] \in Entry
  BY <1>1, Elements
<1>3. CASE EntryOf(c) = {}
  <2> DEFINE new == [client |-> c, tags |-> <<e>>]
             list == Append(requested, new)
  <2>1. Add(c, e) = list
    BY <1>3 DEF Add
  <2>2. new \in Entry /\ new.client = c /\ new.tags = <<e>>
    BY DEF Entry
  <2> HIDE DEF new
  <2>3. /\ list \in Seq(Entry) /\ DOMAIN list = 1..(Len(requested) + 1)
        /\ list[Len(requested) + 1] = new
        /\ \A i \in DOMAIN requested : list[i] = requested[i]
    BY <1>1, <1>2, <2>2
  <2>4. \A i \in DOMAIN list : i \in DOMAIN requested \/ i = Len(requested) + 1
    BY <1>2, <2>3
  <2> HIDE DEF list
  <2>5. \A i \in DOMAIN requested : requested[i].client # c
    BY <1>3 DEF EntryOf
  <2>6. <<e>> # <<>> /\ DOMAIN <<e>> = {1} /\ ToSet(<<e>>) = {e}
    BY DEF ToSet
  <2>7. \A i, j \in DOMAIN list : list[i].client = list[j].client => i = j
    BY <1>1, <2>2, <2>3, <2>4, <2>5 DEF WellFormed
  <2>8. \A i \in DOMAIN list : LET tags == list[i].tags IN
          tags # <<>> /\ \A k, l \in DOMAIN tags : tags[k].name = tags[l].name => k = l
    <3> SUFFICES ASSUME NEW i \in DOMAIN list
                 PROVE  list[i].tags # <<>> /\ \A k, l \in DOMAIN list[i].tags :
                          list[i].tags[k].name = list[i].tags[l].name => k = l
      OBVIOUS
    <3>1. CASE i \in DOMAIN requested
      BY <1>1, <2>3, <3>1 DEF WellFormed
    <3>2. CASE i = Len(requested) + 1
      <4>1. list[i].tags = <<e>>
        BY <2>2, <2>3, <3>2
      <4> QED
        BY <2>6, <4>1
    <3> QED
      BY <2>4, <3>1, <3>2
  <2>9. \A d, x : Owns(list, d, x) => Owns(requested, d, x) \/ (d = c /\ x = e)
    BY <2>2, <2>3, <2>4, <2>6 DEF Owns
  <2> QED
    BY <2>1, <2>3, <2>7, <2>8, <2>9 DEF WellFormed
<1>4. CASE EntryOf(c) # {}
  <2> DEFINE list == [i \in DOMAIN requested |->
                        IF requested[i].client = c
                        THEN [requested[i] EXCEPT !.tags = Append(requested[i].tags, e)]
                        ELSE requested[i]]
  <2>1. Add(c, e) = list
    BY <1>4 DEF Add
  <2>2. DOMAIN list = DOMAIN requested
    OBVIOUS
  <2>3. \A i \in DOMAIN requested : requested[i].client # c => list[i] = requested[i]
    OBVIOUS
  <2>4. ASSUME NEW i \in DOMAIN requested, requested[i].client = c
        PROVE  /\ list[i] \in Entry /\ list[i].client = c
               /\ list[i].tags = Append(requested[i].tags, e)
    <3>1. requested[i].tags \in Seq(Tag)
      BY <1>2 DEF Entry
    <3> DEFINE ts == Append(requested[i].tags, e)
    <3>2. ts \in Seq(Tag)
      BY <3>1
    <3>3. list[i] = [requested[i] EXCEPT !.tags = ts]
      BY <2>4
    <3> HIDE DEF ts, list
    <3>4. list[i].client = c /\ list[i].tags = ts /\ list[i] \in Entry
      BY <1>2, <2>4, <3>2, <3>3 DEF Entry
    <3> QED
      BY <3>4 DEF ts
  <2>5. list \in Seq(Entry)
    <3>1. \A i \in 1..Len(requested) : list[i] \in Entry
      BY <1>2, <2>3, <2>4
    <3>2. list = [i \in 1..Len(requested) |-> list[i]]
      BY <1>2
    <3> HIDE DEF list
    <3> QED
      BY <1>2, <3>1, <3>2
  <2> HIDE DEF list
  <2>6. \A i \in DOMAIN list : list[i].client = requested[i].client
    BY <2>2, <2>3, <2>4
  <2>7. ASSUME NEW i \in DOMAIN requested, requested[i].client = c
        PROVE  /\ list[i].tags # <<>>
               /\ \A k, l \in DOMAIN list[i].tags : list[i].tags[k].name = list[i].tags[l].name => k = l
               /\ \A x \in ToSet(list[i].tags) : x \in ToSet(requested[i].tags) \/ x = e
    <3> DEFINE ts == requested[i].tags
               us == list[i].tags
    <3>1. us = Append(ts, e) /\ ts \in Seq(Tag)
      BY <1>2, <2>4, <2>7 DEF Entry
    <3>2. \A k, l \in DOMAIN ts : ts[k].name = ts[l].name => k = l
      BY <1>1 DEF WellFormed
    <3>3. \A k \in DOMAIN ts : ts[k].name # e.name
      BY <2>7 DEF Has, TagsOf, EntryOf, ToSet
    <3> HIDE DEF ts, us
    <3>4. /\ DOMAIN us = 1..(Len(ts) + 1) /\ Len(ts) \in Nat /\ DOMAIN ts = 1..Len(ts)
          /\ us[Len(ts) + 1] = e /\ \A k \in DOMAIN ts : us[k] = ts[k]
          /\ Len(us) = Len(ts) + 1
      BY <3>1
    <3>5. \A k \in DOMAIN us : k \in DOMAIN ts \/ k = Len(ts) + 1
      BY <3>4
    <3>6. us # <<>>
      <4>1. Len(us) # 0 /\ Len(<<>>) = 0
        BY <3>4
      <4> QED
        BY <4>1
    <3>7. \A k, l \in DOMAIN us : us[k].name = us[l].name => k = l
      BY <3>2, <3>3, <3>4, <3>5
    <3>8. \A x \in ToSet(us) : x \in ToSet(ts) \/ x = e
      BY <3>4, <3>5 DEF ToSet
    <3> QED
      BY <3>6, <3>7, <3>8 DEF ts, us
  <2>8. WellFormed(list)
    <3>1. \A i, j \in DOMAIN list : list[i].client = list[j].client => i = j
      BY <1>1, <2>2, <2>6 DEF WellFormed
    <3>2. \A i \in DOMAIN list : LET tags == list[i].tags IN
            tags # <<>> /\ \A k, l \in DOMAIN tags : tags[k].name = tags[l].name => k = l
      BY <1>1, <2>2, <2>3, <2>7 DEF WellFormed
    <3> QED
      BY <3>1, <3>2 DEF WellFormed
  <2>9. \A d, x : Owns(list, d, x) => Owns(requested, d, x) \/ (d = c /\ x = e)
    BY <2>2, <2>3, <2>6, <2>7 DEF Owns
  <2> QED
    BY <2>1, <2>5, <2>8, <2>9
<1> QED
  BY <1>3, <1>4

-----------------------------------------------------------------------------
(* Theorems.                                                               *)

\* A list that is well formed and gives nobody more than was asked for: what is left to show
\* of a step that changes the list.
LEMMA ListStep ==
  ASSUME NEW list, requested' = list, list \in Seq(Entry), WellFormed(list),
         \A d \in Addresses : \A e : Owns(list, d, e) => e \in asked'[d]
  PROVE  /\ (requested \in Seq([client: Addresses, tags: Seq(Tag)]))'
         /\ ListWellFormed' /\ OnlyWhatWasAsked'
<1>1. ListWellFormed' /\ (requested \in Seq([client: Addresses, tags: Seq(Tag)]))'
  BY DEF ListWellFormed, WellFormed, Entry
<1>2. OnlyWhatWasAsked'
  <2> SUFFICES ASSUME NEW d \in Addresses, NEW e, e \in TagsOf(d)'
               PROVE  e \in asked'[d]
    BY DEF OnlyWhatWasAsked
  <2>1. Owns(list, d, e)
    BY DEF TagsOf, EntryOf, Owns
  <2> QED
    BY <2>1
<1> QED
  BY <1>1, <1>2

\* At first there is no list.
LEMMA InitTags == TagsInit => TagsIndInv
<1> SUFFICES ASSUME TagsInit PROVE TagsIndInv
  OBVIOUS
<1>1. requested = <<>> /\ <<>> \in Seq([client: Addresses, tags: Seq(Tag)]) /\ DOMAIN <<>> = {}
  BY DEF TagsInit
<1>2. ListWellFormed
  BY <1>1 DEF ListWellFormed
<1>3. TagsTypeOK
  BY <1>1, <1>2 DEF TagsInit, TagsTypeOK, NoRequest
<1>4. OnlyWhatWasAsked
  BY <1>1 DEF OnlyWhatWasAsked, TagsOf, EntryOf
<1> QED
  BY <1>3, <1>4 DEF TagsInit, TagsIndInv, TagsInv

\* A request begins: what has expired is taken from its client, and from nobody else.
LEMMA BeginStep ==
  ASSUME TagsIndInv, NEW t \in Threads, Begin(t)
  PROVE  TagsIndInv'
<1>1. PICK c \in Addresses, known \in Configured :
        /\ req' = [req EXCEPT ![t] = [client |-> c, known |-> known,
                                      tags |-> {e \in TagsOf(c) : ~Expired(e)}]]
        /\ requested' = Without(c, {e \in TagsOf(c) : Expired(e)})
        /\ asked' = [asked EXCEPT ![c] = {e \in asked[c] : e.eol = Forever \/ now <= e.eol}]
  BY DEF Begin
<1>2. TagsTypeOK /\ OnlyWhatWasAsked /\ at' = [at EXCEPT ![t] = "chat"] /\ now' = now
  BY DEF Begin, TagsIndInv, TagsInv
<1> DEFINE gone == {e \in TagsOf(c) : Expired(e)}
           left == {e \in TagsOf(c) : ~Expired(e)}
           r == [client |-> c, known |-> known, tags |-> left]
<1>3. \A d \in Addresses : TagsOf(d) \subseteq asked[d] /\ asked[d] \subseteq Tag
  BY <1>2 DEF OnlyWhatWasAsked, TagsTypeOK
<1>4. \A d \in Addresses : \A e : Owns(Without(c, gone), d, e) => e \in asked'[d]
  <2> SUFFICES ASSUME NEW d \in Addresses, NEW e, Owns(Without(c, gone), d, e)
               PROVE  e \in asked'[d]
    OBVIOUS
  <2>1. e \in TagsOf(d) /\ (d = c => e \notin gone)
    <3> HIDE DEF gone
    <3> QED
      BY <1>2, WithoutOwns, OwnsTags
  <2>2. d = c => ~Expired(e)
    BY <2>1
  <2>3. e \in asked[d] /\ e \in Tag
    BY <1>3, <2>1
  <2>4. d = c => e.eol = Forever \/ now <= e.eol
    BY <1>2, <2>2, <2>3 DEF Expired, Tag, TagsTypeOK
  <2> QED
    BY <1>1, <1>2, <2>3, <2>4 DEF TagsTypeOK
<1>5. /\ (requested \in Seq([client: Addresses, tags: Seq(Tag)]))'
      /\ ListWellFormed' /\ OnlyWhatWasAsked'
  <2> HIDE DEF gone
  <2>1. Without(c, gone) \in Seq(Entry) /\ WellFormed(Without(c, gone))
    BY <1>2, WithoutFacts
  <2> QED
    BY <1>1, <1>4, <2>1, ListStep DEF gone
<1>6. r \in [client: Addresses \cup {Nobody}, known: SUBSET Names, tags: SUBSET Tag]
  BY <1>3, TagAssumption
<1>7. /\ req' \in [Threads -> [client: Addresses \cup {Nobody}, known: SUBSET Names,
                              tags: SUBSET Tag]]
      /\ asked' \in [Addresses -> SUBSET Tag]
      /\ at' \in [Threads -> {"idle", "chat"}] /\ now' \in Nat
  <2>1. req' = [req EXCEPT ![t] = r]
    BY <1>1
  <2> HIDE DEF r
  <2> QED
    BY <1>1, <1>2, <1>6, <2>1 DEF TagsTypeOK
<1>8. \A u \in Threads : /\ at'[u] = "idle" => req'[u] = NoRequest
                         /\ at'[u] = "chat" => req'[u].client \in Addresses
  BY <1>1, <1>2 DEF TagsIndInv, TagsTypeOK
<1> QED
  BY <1>5, <1>7, <1>8 DEF TagsIndInv, TagsInv, TagsTypeOK

\* What every other step of a thread does to the rest of the state: its request ends.
LEMMA RequestEnds ==
  ASSUME TagsIndInv, NEW t \in Threads,
         at' = [at EXCEPT ![t] = "idle"], req' = [req EXCEPT ![t] = NoRequest], now' = now
  PROVE  /\ (now \in Nat)' /\ (at \in [Threads -> {"idle", "chat"}])'
         /\ (req \in [Threads -> [client: Addresses \cup {Nobody}, known: SUBSET Names,
                                  tags: SUBSET Tag]])'
         /\ \A u \in Threads : /\ at'[u] = "idle" => req'[u] = NoRequest
                               /\ at'[u] = "chat" => req'[u].client \in Addresses
  BY DEF TagsIndInv, TagsInv, TagsTypeOK, NoRequest

\* A tag is enabled.
LEMMA EnableStep ==
  ASSUME TagsIndInv, NEW t \in Threads, NEW n \in Names, Enable(t, n)
  PROVE  TagsIndInv'
<1> DEFINE c == req[t].client
<1>1. PICK ttl \in {0, Lifetime} :
        LET e == [name |-> n, eol |-> IF ttl = 0 THEN Forever ELSE now + ttl] IN
        /\ requested' = Add(c, e)
        /\ asked' = [asked EXCEPT ![c] = {f \in asked[c] : f.name # n} \cup {e}]
  BY DEF Enable
<1> DEFINE e == [name |-> n, eol |-> IF ttl = 0 THEN Forever ELSE now + ttl]
<1>2. /\ TagsTypeOK /\ OnlyWhatWasAsked /\ ~Has(c, n)
      /\ at' = [at EXCEPT ![t] = "idle"] /\ req' = [req EXCEPT ![t] = NoRequest] /\ now' = now
  BY DEF Enable, TagsIndInv, TagsInv
<1>3. c \in Addresses
  BY DEF Enable, TagsIndInv
<1>4. e \in Tag /\ e.name = n
  BY <1>2, TagAssumption DEF Tag, TagsTypeOK, Forever
<1>5. requested' = Add(c, e) /\ asked' = [asked EXCEPT ![c] = {f \in asked[c] : f.name # n} \cup {e}]
  BY <1>1
<1> HIDE DEF e, c
<1>6. /\ Add(c, e) \in Seq(Entry) /\ WellFormed(Add(c, e))
      /\ \A d, x : Owns(Add(c, e), d, x) => Owns(requested, d, x) \/ (d = c /\ x = e)
  BY <1>2, <1>3, <1>4, AddFacts
<1>7. \A d \in Addresses : \A x : Owns(Add(c, e), d, x) => x \in asked'[d]
  <2> SUFFICES ASSUME NEW d \in Addresses, NEW x, Owns(Add(c, e), d, x)
               PROVE  x \in asked'[d]
    OBVIOUS
  <2>1. CASE d = c /\ x = e
    BY <1>2, <1>5, <2>1 DEF TagsTypeOK
  <2>2. CASE Owns(requested, d, x)
    <3>1. x \in TagsOf(d) /\ x \in asked[d]
      BY <1>2, <2>2, OwnsTags DEF OnlyWhatWasAsked
    <3>2. d = c => x.name # n
      BY <1>2, <3>1 DEF Has
    <3> QED
      BY <1>2, <1>5, <3>1, <3>2 DEF TagsTypeOK
  <2> QED
    BY <1>6, <2>1, <2>2
<1>8. (asked \in [Addresses -> SUBSET Tag])'
  BY <1>2, <1>3, <1>4, <1>5 DEF TagsTypeOK
<1>9. /\ (requested \in Seq([client: Addresses, tags: Seq(Tag)]))'
      /\ ListWellFormed' /\ OnlyWhatWasAsked'
  BY <1>5, <1>6, <1>7, ListStep
<1> QED
  BY <1>2, <1>8, <1>9, RequestEnds DEF TagsIndInv, TagsInv, TagsTypeOK

\* A tag is disabled.
LEMMA DisableStep ==
  ASSUME TagsIndInv, NEW t \in Threads, NEW n \in Names, Disable(t, n)
  PROVE  TagsIndInv'
<1> DEFINE c == req[t].client
           gone == {e \in TagsOf(c) : e.name = n}
<1>1. /\ requested' = Without(c, gone)
      /\ asked' = [asked EXCEPT ![c] = {f \in asked[c] : f.name # n}]
  BY DEF Disable
<1>2. /\ TagsTypeOK /\ OnlyWhatWasAsked
      /\ at' = [at EXCEPT ![t] = "idle"] /\ req' = [req EXCEPT ![t] = NoRequest] /\ now' = now
  BY DEF Disable, TagsIndInv, TagsInv
<1>3. c \in Addresses
  BY DEF Disable, TagsIndInv
<1> HIDE DEF c
<1>4. \A d \in Addresses : \A x : Owns(Without(c, gone), d, x) => x \in asked'[d]
  <2> SUFFICES ASSUME NEW d \in Addresses, NEW x, Owns(Without(c, gone), d, x)
               PROVE  x \in asked'[d]
    OBVIOUS
  <2>1. x \in TagsOf(d) /\ (d = c => x \notin gone)
    <3> HIDE DEF gone
    <3> QED
      BY <1>2, <1>3, WithoutOwns, OwnsTags
  <2>2. x \in asked[d] /\ (d = c => x.name # n)
    BY <1>2, <2>1 DEF OnlyWhatWasAsked
  <2> QED
    BY <1>1, <1>2, <2>2 DEF TagsTypeOK
<1> HIDE DEF gone
<1>5. Without(c, gone) \in Seq(Entry) /\ WellFormed(Without(c, gone))
  BY <1>2, <1>3, WithoutFacts
<1>6. /\ (requested \in Seq([client: Addresses, tags: Seq(Tag)]))'
      /\ ListWellFormed' /\ OnlyWhatWasAsked'
  BY <1>1, <1>4, <1>5, ListStep
<1>7. (asked \in [Addresses -> SUBSET Tag])'
  BY <1>1, <1>2, <1>3 DEF TagsTypeOK
<1> QED
  BY <1>2, <1>6, <1>7, RequestEnds DEF TagsIndInv, TagsInv, TagsTypeOK

\* Steps that leave the list alone.
LEMMA OtherTagSteps ==
  ASSUME TagsIndInv, UNCHANGED <<requested, asked>>
  PROVE  /\ (requested \in Seq([client: Addresses, tags: Seq(Tag)]))'
         /\ (asked \in [Addresses -> SUBSET Tag])' /\ ListWellFormed' /\ OnlyWhatWasAsked'
  BY DEF TagsIndInv, TagsInv, TagsTypeOK, ListWellFormed, OnlyWhatWasAsked, TagsOf, EntryOf

\* The invariant is inductive.
THEOREM TagsInvariant == TagsSpec => []TagsIndInv
<1>1. ASSUME TagsIndInv, [TagsNext]_tagVars PROVE TagsIndInv'
  <2>1. ASSUME NEW t \in Threads, Begin(t) PROVE TagsIndInv'
    BY <1>1, <2>1, BeginStep
  <2>2. ASSUME NEW t \in Threads, NEW n \in Names, Enable(t, n) PROVE TagsIndInv'
    BY <1>1, <2>2, EnableStep
  <2>3. ASSUME NEW t \in Threads, NEW n \in Names, Disable(t, n) PROVE TagsIndInv'
    BY <1>1, <2>3, DisableStep
  <2>4. ASSUME NEW t \in Threads, End(t) PROVE TagsIndInv'
    <3>1. /\ at' = [at EXCEPT ![t] = "idle"] /\ req' = [req EXCEPT ![t] = NoRequest]
          /\ now' = now /\ UNCHANGED <<requested, asked>>
      BY <2>4 DEF End
    <3> QED
      BY <1>1, <3>1, RequestEnds, OtherTagSteps DEF TagsIndInv, TagsInv, TagsTypeOK
  <2>5. CASE Tick
    <3>1. UNCHANGED <<requested, at, req, asked>> /\ now' = now + 1
      BY <2>5 DEF Tick
    <3>2. (now \in Nat)'
      BY <1>1, <3>1 DEF TagsIndInv, TagsInv, TagsTypeOK
    <3> QED
      BY <1>1, <3>1, <3>2, OtherTagSteps DEF TagsIndInv, TagsInv, TagsTypeOK
  <2>6. CASE UNCHANGED tagVars
    <3>1. UNCHANGED <<requested, now, at, req, asked>>
      BY <2>6 DEF tagVars
    <3> QED
      BY <1>1, <3>1, OtherTagSteps DEF TagsIndInv, TagsInv, TagsTypeOK
  <2> QED
    BY <1>1, <2>1, <2>2, <2>3, <2>4, <2>5, <2>6 DEF TagsNext
<1> QED
  BY <1>1, InitTags, PTL DEF TagsSpec

\* The list has no client or tag twice, no client without tags, and nobody's tags but those
\* that were asked for.
THEOREM OnlyTagsAskedFor == TagsSpec => []TagsInv
<1>1. TagsIndInv => TagsInv
  BY DEF TagsIndInv
<1> QED
  BY <1>1, TagsInvariant, PTL

\* No request is given a temporary tag later than its lifetime allows.
THEOREM TagsEndInTime == TagsSpec => AppliedInTime
<1> DEFINE InTime == \A t \in Threads : at[t] = "idle" /\ at'[t] = "chat" =>
                       \A e \in req'[t].tags : e.eol = Forever \/ now <= e.eol
<1>1. ASSUME TagsIndInv, TagsNext PROVE InTime
  <2> SUFFICES ASSUME NEW t \in Threads, at[t] = "idle", at'[t] = "chat", NEW e \in req'[t].tags
               PROVE  e.eol = Forever \/ now <= e.eol
    OBVIOUS
  <2>1. at \in [Threads -> {"idle", "chat"}] /\ now \in Nat
    BY <1>1 DEF TagsIndInv, TagsInv, TagsTypeOK
  <2>2. PICK u \in Threads : Begin(u)
    BY <1>1, <2>1 DEF TagsNext, Enable, Disable, End, Tick
  <2>3. t = u
    BY <2>1, <2>2 DEF Begin
  <2>4. PICK c \in Addresses : req'[t].tags = {x \in TagsOf(c) : ~Expired(x)}
    BY <1>1, <2>2, <2>3 DEF Begin, TagsIndInv, TagsInv, TagsTypeOK
  <2>5. e \in Tag /\ ~Expired(e)
    BY <1>1, <2>4 DEF TagsIndInv, TagsInv, TagsTypeOK, OnlyWhatWasAsked
  <2> QED
    BY <2>1, <2>5 DEF Expired, Tag
<1>2. ASSUME TagsIndInv, [TagsNext]_tagVars PROVE [InTime]_tagVars
  BY <1>1, <1>2
<1> QED
  BY <1>2, TagsInvariant, PTL DEF TagsSpec, AppliedInTime
=============================================================================

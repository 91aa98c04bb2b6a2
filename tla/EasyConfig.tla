------------------------------- MODULE EasyConfig -------------------------------
(***************************************************************************)
(* A remote EasyConfig: it copies a configuration from etcd to local files *)
(* (the version and the data), loads the copy and then the file "local"    *)
(* into the container, and checks every minute whether etcd has a newer    *)
(* version.  LoadAllConfig runs first in the caller and later only in the  *)
(* checking goroutine, whose first tick comes a minute after its start:    *)
(* the two do not overlap, so one label pc says where it stands.           *)
(*                                                                         *)
(* etcd and whoever publishes are external: a new configuration is put     *)
(* under "data" and then announced under "version".  A configuration is    *)
(* its version.  Version 0 is none.                                        *)
(***************************************************************************)
EXTENDS ConfigFile

(* An operator that stands just before the definition it resembles is a bug
   that definition could have, used to test that a property notices it. *)

CONSTANTS
    MaxVersion,  \* bound on the configurations that are published
    MaxFaults,   \* bound on failing calls, failing reads, writes and crashes
    RemoteFile,  \* RemoteFile[v]: the lines of version v
    LocalFile,   \* the lines of the file "local"
    Remote,      \* what the author of version v means: a value for some keys
    Local        \* the same for the file "local"

Lines == UNION {Range(file) : file \in Range(RemoteFile) \cup {LocalFile}}

ASSUME ConfigAssumption ==
    /\ MaxVersion \in Nat /\ MaxFaults \in Nat
    /\ DOMAIN Remote = 0..MaxVersion /\ DOMAIN RemoteFile = 0..MaxVersion
    /\ RemoteFile[0] = <<>>
    /\ LocalFile \in Seq(Lines)
    /\ \A v \in 0..MaxVersion : RemoteFile[v] \in Seq(Lines)

VARIABLES
    etcdData, etcdVersion,  \* the keys data and version in etcd
    dirMade,                \* does the directory of the copies exist?
    versionFile,            \* the file "version", 0 if there is none
    remoteFile,             \* the file "remote", 0 if there is none or an empty one
    faults,                 \* faults that may still happen
    up,                     \* is the process running?
    configVersion, configLoaded, container,  \* the fields of EasyConfig
    pc,                     \* where LoadAllConfig stands
    localNum, remoteNum,    \* localVersionNum and remoteVersionNum
    fetched,                \* remoteConfigData
    lines,                  \* the lines of the file that are still to be read
    localCut                \* auxiliary: did the last load of "local" fail?

etcd == <<etcdData, etcdVersion>>
files == <<dirMade, versionFile, remoteFile>>
config == <<configVersion, configLoaded, container>>
locals == <<localNum, remoteNum, fetched, lines, localCut>>
vars == <<etcd, files, faults, up, config, pc, locals>>

-----------------------------------------------------------------------------
Versions == 0..MaxVersion

\* getKeyValue: what a line puts into the container.
GetKeyValue ==
    [line \in Lines |->
        [k \in IF Defines(line) THEN {Key(line)} ELSE {} |-> Value(line)]]

\* The container with what a line puts into it.
With(line) ==
    LET put == GetKeyValue[line]
    IN [k \in DOMAIN put \cup DOMAIN container |->
           IF k \in DOMAIN put THEN put[k] ELSE container[k]]

Init ==
    /\ etcdData = 0 /\ etcdVersion = 0
    /\ dirMade = FALSE /\ versionFile = 0 /\ remoteFile = 0
    /\ faults = MaxFaults
    /\ up = TRUE
    /\ configVersion = 0 /\ configLoaded = FALSE /\ container = <<>>
    /\ pc = "mkdir"
    /\ localNum = 0 /\ remoteNum = 0 /\ fetched = 0 /\ lines = <<>>
    /\ localCut = FALSE

-----------------------------------------------------------------------------
\* Whoever publishes.
PublishData ==
    /\ etcdData = etcdVersion /\ etcdData < MaxVersion
    /\ etcdData' = etcdData + 1
    /\ UNCHANGED <<etcdVersion, files, faults, up, config, pc, locals>>

PublishVersion ==
    /\ etcdVersion < etcdData
    /\ etcdVersion' = etcdData
    /\ UNCHANGED <<etcdData, files, faults, up, config, pc, locals>>

-----------------------------------------------------------------------------
(***************************************************************************)
(* LoadRemote.  Its errors are logged, apart from that of MkdirAll.        *)
(***************************************************************************)

Fault == faults > 0 /\ faults' = faults - 1

MkDir ==
    /\ pc = "mkdir"
    /\ dirMade' = TRUE
    /\ pc' = "readVersion"
    /\ UNCHANGED <<etcd, versionFile, remoteFile, faults, up, config, locals>>

\* LoadAllConfig returns; if it was the first call nobody checks for versions.
MkDirFails ==
    /\ pc = "mkdir" /\ ~dirMade
    /\ Fault
    /\ pc' = "idle"
    /\ UNCHANGED <<etcd, files, up, config, locals>>

ReadVersion ==
    /\ pc = "readVersion"
    /\ localNum' = versionFile
    /\ pc' = "getVersion"
    /\ UNCHANGED <<etcd, files, faults, up, config, remoteNum, fetched, lines,
                   localCut>>

GetVersion ==
    /\ pc = "getVersion" /\ etcdVersion > 0
    /\ remoteNum' = etcdVersion
    /\ configVersion' = etcdVersion
    /\ pc' = "writeVersion"
    /\ UNCHANGED <<etcd, files, faults, up, configLoaded, container, localNum,
                   fetched, lines, localCut>>

\* etcd fails, or has no version yet.
GetVersionFails ==
    /\ pc = "getVersion"
    /\ \/ etcdVersion = 0 /\ UNCHANGED faults
       \/ Fault
    /\ remoteNum' = 0
    /\ pc' = "compare"
    /\ UNCHANGED <<etcd, files, up, config, localNum, fetched, lines, localCut>>

\* The new version is on file before the new data is.
WriteVersion ==
    /\ pc = "writeVersion"
    /\ \/ versionFile' = remoteNum /\ UNCHANGED faults
       \/ Fault /\ UNCHANGED versionFile
    /\ pc' = "compare"
    /\ UNCHANGED <<etcd, dirMade, remoteFile, up, config, locals>>

CompareFile ==
    /\ pc = "compare"
    /\ pc' = IF versionFile < remoteNum THEN "getData" ELSE "loadRemote"
    /\ UNCHANGED <<etcd, files, faults, up, config, locals>>

CompareConfig ==
    /\ pc = "compare"
    /\ pc' = IF configVersion < remoteNum THEN "getData" ELSE "loadRemote"
    /\ UNCHANGED <<etcd, files, faults, up, config, locals>>

Compare ==
    /\ pc = "compare"
    /\ pc' = IF localNum < remoteNum THEN "getData" ELSE "loadRemote"
    /\ UNCHANGED <<etcd, files, faults, up, config, locals>>

GetData ==
    /\ pc = "getData"
    /\ fetched' = etcdData
    /\ pc' = "truncate"
    /\ UNCHANGED <<etcd, files, faults, up, config, localNum, remoteNum, lines,
                   localCut>>

GetDataFails ==
    /\ pc = "getData"
    /\ Fault
    /\ pc' = "loadRemote"
    /\ UNCHANGED <<etcd, files, up, config, locals>>

\* WriteFile empties the file and fills it.
Truncate ==
    /\ pc = "truncate"
    /\ remoteFile' = 0
    /\ pc' = "writeData"
    /\ UNCHANGED <<etcd, dirMade, versionFile, faults, up, config, locals>>

WriteData ==
    /\ pc = "writeData"
    /\ \/ remoteFile' = fetched /\ UNCHANGED faults
       \/ Fault /\ UNCHANGED remoteFile
    /\ pc' = "loadRemote"
    /\ UNCHANGED <<etcd, dirMade, versionFile, up, config, locals>>

-----------------------------------------------------------------------------
(***************************************************************************)
(* Load, for the file "remote" and then for the file "local": line after   *)
(* line, each put into the container under a lock of its own.  Nothing is  *)
(* ever taken out of the container.  An error of the file is logged.       *)
(***************************************************************************)

LoadRemote ==
    /\ pc = "loadRemote"
    /\ lines' = RemoteFile[remoteFile]
    /\ pc' = "remoteLine"
    /\ UNCHANGED <<etcd, files, faults, up, config, localNum, remoteNum, fetched,
                   localCut>>

\* The file cannot be opened.
OpenFails ==
    /\ pc \in {"loadRemote", "loadLocal"}
    /\ Fault
    /\ lines' = <<>>
    /\ pc' = IF pc = "loadRemote" THEN "remoteLine" ELSE "localLine"
    /\ localCut' = (pc = "loadLocal")
    /\ UNCHANGED <<etcd, files, up, config, localNum, remoteNum, fetched>>

LoadLine ==
    /\ pc \in {"remoteLine", "localLine"} /\ lines # <<>>
    /\ LET line == Head(lines) IN
          IF Complete(line)
          THEN lines' = Tail(lines) /\ container' = With(line)
          ELSE lines' = <<>> /\ UNCHANGED container
    /\ UNCHANGED <<etcd, files, faults, up, configVersion, configLoaded, pc,
                   localNum, remoteNum, fetched, localCut>>

\* The rest of the file cannot be read.
ReadFails ==
    /\ pc \in {"remoteLine", "localLine"} /\ lines # <<>>
    /\ Fault
    /\ lines' = <<>>
    /\ localCut' = (pc = "localLine")
    /\ UNCHANGED <<etcd, files, up, config, pc, localNum, remoteNum, fetched>>

\* The remote part is loaded: the first time the checking goroutine starts.
RemoteLoadedOnce ==
    /\ pc = "remoteLine" /\ lines = <<>>
    /\ configLoaded' = TRUE
    /\ pc' = IF configLoaded THEN "idle" ELSE "loadLocal"
    /\ UNCHANGED <<etcd, files, faults, up, configVersion, container, locals>>

RemoteLoaded ==
    /\ pc = "remoteLine" /\ lines = <<>>
    /\ configLoaded' = TRUE
    /\ pc' = "loadLocal"
    /\ UNCHANGED <<etcd, files, faults, up, configVersion, container, locals>>

LoadLocal ==
    /\ pc = "loadLocal"
    /\ lines' = LocalFile
    /\ pc' = "localLine"
    /\ localCut' = FALSE
    /\ UNCHANGED <<etcd, files, faults, up, config, localNum, remoteNum, fetched>>

LocalLoaded ==
    /\ pc = "localLine" /\ lines = <<>>
    /\ pc' = "idle"
    /\ UNCHANGED <<etcd, files, faults, up, config, locals>>

-----------------------------------------------------------------------------
\* A tick of checkRemoteVersion; an error counts as version 0.
CheckVersion ==
    /\ pc = "idle" /\ configLoaded
    /\ configVersion < etcdVersion
    /\ pc' = "mkdir"
    /\ UNCHANGED <<etcd, files, faults, up, config, locals>>

CheckFails ==
    /\ pc = "idle" /\ configLoaded
    /\ Fault
    /\ UNCHANGED <<etcd, files, up, config, pc, locals>>

\* What is in files survives.
Crash ==
    /\ up /\ Fault
    /\ up' = FALSE /\ pc' = "none"
    /\ configVersion' = 0 /\ configLoaded' = FALSE /\ container' = <<>>
    /\ localNum' = 0 /\ remoteNum' = 0 /\ fetched' = 0 /\ lines' = <<>>
    /\ localCut' = FALSE
    /\ UNCHANGED <<etcd, files>>

Restart ==
    /\ ~up
    /\ up' = TRUE /\ pc' = "mkdir"
    /\ UNCHANGED <<etcd, files, faults, config, locals>>

-----------------------------------------------------------------------------
Load ==
    \/ MkDir \/ MkDirFails \/ ReadVersion \/ GetVersion \/ GetVersionFails
    \/ WriteVersion \/ Compare \/ GetData \/ GetDataFails \/ Truncate \/ WriteData
    \/ LoadRemote \/ OpenFails \/ LoadLine \/ ReadFails \/ RemoteLoaded
    \/ LoadLocal \/ LocalLoaded

Next ==
    \/ PublishData \/ PublishVersion \/ Load \/ CheckVersion \/ CheckFails
    \/ Crash \/ Restart

\* The program runs and its ticker ticks, and what is put is announced.
\* Nothing has to be published, to fail or to be restarted.
Fairness ==
    WF_vars(Load) /\ WF_vars(CheckVersion) /\ WF_vars(PublishVersion)

Spec == Init /\ [][Next]_vars /\ Fairness

-----------------------------------------------------------------------------
\* The lines up to the i-th are read.
Reaches(file, i) == \A j \in 1..i : Complete(file[j])

\* The last line that defines k gives it the value x.
Gives(file, k, x) ==
    \E i \in DOMAIN file :
        /\ Reaches(file, i)
        /\ k \in DOMAIN GetKeyValue[file[i]] /\ GetKeyValue[file[i]][k] = x
        /\ \A j \in i + 1..Len(file) :
              Reaches(file, j) => k \notin DOMAIN GetKeyValue[file[j]]

Confined(file, keys) ==
    \A j \in DOMAIN file :
       Reaches(file, j) => DOMAIN GetKeyValue[file[j]] \subseteq keys

\* What an author means is what the file says.
Means(file, meaning) ==
    /\ \A k \in DOMAIN meaning : Gives(file, k, meaning[k])
    /\ Confined(file, DOMAIN meaning)

AuthorsAreUnderstood ==
    /\ Means(LocalFile, Local)
    /\ \A v \in Versions : Means(RemoteFile[v], Remote[v])

\* The container has what version v defines, where "local" does not differ.
Shows(v) ==
    \A k \in DOMAIN Remote[v] \ DOMAIN Local :
        k \in DOMAIN container /\ container[k] = Remote[v][k]

\* Whenever no load is under way what the lines of the file "local" mean prevails
\* over what was loaded from etcd, however loads, failures and restarts followed
\* each other, if the file could be read to its end the last time: a load of
\* "local" that fails is only logged, and leaves the values from etcd in force.
LocalPrevails ==
    pc = "idle" /\ configLoaded /\ ~localCut =>
        \A k \in DOMAIN Local : k \in DOMAIN container /\ container[k] = Local[k]

\* As long as nothing fails, configVersion does not run ahead of the container,
\* although it is set long before: when a load is over the container shows a
\* version that is at least as new.
VersionIsShown ==
    pc = "idle" /\ faults = MaxFaults =>
        \E v \in configVersion..etcdData : Shows(v)

\* A configuration that is published when the faults are over is loaded, even
\* if a failure has left the files of a former one in disorder.
NextVersionHeals ==
    \A v \in Versions \ {0} :
        /\ etcdVersion = v /\ faults = 0 /\ pc = "idle" /\ configLoaded
        /\ configVersion < v /\ versionFile < v
        ~> \E w \in v..MaxVersion : Shows(w)
=============================================================================

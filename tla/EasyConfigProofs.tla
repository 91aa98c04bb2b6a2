---------------------------- MODULE EasyConfigProofs ----------------------------
(***************************************************************************)
(* Proofs about EasyConfig for all files whose authors are understood, any *)
(* number of versions and of faults.  Nothing is taken out of the          *)
(* container, and the last line that defines a key is read last: while a   *)
(* file is loaded each key either has its value already, and no later line *)
(* defines it, or its line is still to come.  A load of "local" follows    *)
(* every load of "remote".                                                 *)
(***************************************************************************)
EXTENDS EasyConfig, TLAPS

\* No line that is read defines k.
Silent(file, k) ==
    \A j \in DOMAIN file : Reaches(file, j) => k \notin DOMAIN GetKeyValue[file[j]]

Has(k, x) == k \in DOMAIN container /\ container[k] = x

\* The file is loaded but for the lines that are still to be read.
Loading(meaning) ==
    \A k \in DOMAIN meaning :
       \/ Gives(lines, k, meaning[k])
       \/ Silent(lines, k) /\ Has(k, meaning[k])

Labels == {"none", "idle", "mkdir", "readVersion", "getVersion", "writeVersion",
           "compare", "getData", "truncate", "writeData", "loadRemote",
           "remoteLine", "loadLocal", "localLine"}

Numbers ==
    /\ etcdData \in Versions /\ etcdVersion \in 0..etcdData
    /\ remoteFile \in 0..etcdData /\ fetched \in 0..etcdData
    /\ versionFile \in 0..etcdVersion /\ configVersion \in 0..etcdVersion
    /\ localNum \in 0..etcdVersion /\ remoteNum \in 0..etcdVersion
    /\ faults \in 0..MaxFaults
    /\ lines \in Seq(Lines) /\ pc \in Labels

\* Once loaded the directory is there, so that no later LoadAllConfig gives up
\* before it has loaded "local" again.
DirStays ==
    /\ configLoaded \/ pc \notin {"none", "idle", "mkdir"} => dirMade
    /\ ~up => pc = "none" /\ ~configLoaded

LocalIsLoaded ==
    /\ pc = "localLine" /\ ~localCut => Loading(Local)
    /\ LocalPrevails

\* The inductive invariant for LocalPrevails.
LocalInv == Numbers /\ DirStays /\ LocalIsLoaded

\* The copy is not older than its version, but while it is renewed.
CopyIsCurrent ==
    /\ pc \in {"idle", "mkdir", "readVersion", "getVersion", "writeVersion",
               "loadRemote", "remoteLine", "loadLocal", "localLine"}
          => versionFile <= remoteFile
    /\ pc \in {"getVersion", "writeVersion", "compare"} => localNum <= remoteFile
    /\ pc = "writeVersion" => remoteNum = configVersion
    /\ pc = "compare" => IF remoteNum = 0
                         THEN configVersion = 0 /\ versionFile <= remoteFile
                         ELSE versionFile = remoteNum /\ configVersion = remoteNum
    /\ pc \in {"getData", "truncate", "writeData"} =>
          versionFile = remoteNum /\ configVersion = remoteNum
    /\ pc \in {"truncate", "writeData"} => remoteNum <= fetched
    /\ pc \in {"idle", "loadRemote", "remoteLine", "loadLocal", "localLine"} =>
          configVersion <= remoteFile

\* And the container shows the copy as far as it is loaded.
CopyIsShown ==
    /\ pc = "remoteLine" => Loading(Remote[remoteFile])
    /\ pc = "loadLocal" =>
          \A k \in DOMAIN Remote[remoteFile] : Has(k, Remote[remoteFile][k])
    /\ pc = "localLine" => Confined(lines, DOMAIN Local)
    /\ pc \in {"localLine", "idle"} => Shows(remoteFile)

\* The inductive invariant for VersionIsShown.
VersionInv ==
    Numbers /\ (faults = MaxFaults => up /\ pc # "none" /\ CopyIsCurrent /\ CopyIsShown)

-----------------------------------------------------------------------------
(***************************************************************************)
(* Reading a line.                                                         *)
(***************************************************************************)

\* The lines behind a complete one are read as a file of their own would be.
LEMMA Behind ==
    ASSUME NEW file \in Seq(Lines), file # <<>>, Complete(Head(file))
    PROVE  /\ Tail(file) \in Seq(Lines) /\ Len(file) \in Nat \ {0}
           /\ Len(Tail(file)) = Len(file) - 1
           /\ \A j \in 1..Len(file) - 1 : Tail(file)[j] = file[j + 1]
           /\ \A i \in 0..Len(file) - 1 :
                 Reaches(Tail(file), i) <=> Reaches(file, i + 1)
<1>1. /\ Tail(file) \in Seq(Lines) /\ Len(file) \in Nat \ {0}
      /\ Len(Tail(file)) = Len(file) - 1
      /\ \A j \in 1..Len(file) - 1 : Tail(file)[j] = file[j + 1]
    OBVIOUS
<1>2. file[1] = Head(file)
    OBVIOUS
<1>3. ASSUME NEW i \in 0..Len(file) - 1, Reaches(Tail(file), i)
      PROVE  Reaches(file, i + 1)
  <2> SUFFICES ASSUME NEW j \in 1..i + 1 PROVE Complete(file[j])
      BY DEF Reaches
  <2>1. CASE j = 1
      BY <1>2, <2>1
  <2>2. CASE j # 1
    <3>1. j - 1 \in 1..i /\ j - 1 \in 1..Len(file) - 1
        BY <1>1, <2>2
    <3>2. Complete(Tail(file)[j - 1])
        BY <1>3, <3>1 DEF Reaches
    <3>3. Tail(file)[j - 1] = file[j]
        BY <1>1, <3>1
    <3> QED
        BY <3>2, <3>3
  <2> QED
      BY <2>1, <2>2
<1>4. ASSUME NEW i \in 0..Len(file) - 1, Reaches(file, i + 1)
      PROVE  Reaches(Tail(file), i)
  <2> SUFFICES ASSUME NEW j \in 1..i PROVE Complete(Tail(file)[j])
      BY DEF Reaches
  <2>1. j + 1 \in 1..i + 1 /\ j \in 1..Len(file) - 1
      BY <1>1
  <2>2. Complete(file[j + 1])
      BY <1>4, <2>1 DEF Reaches
  <2> QED
      BY <1>1, <2>1, <2>2
<1> QED
    BY <1>1, <1>3, <1>4

\* What a file does not define its tail does not.
LEMMA SilentBehind ==
    ASSUME NEW file \in Seq(Lines), file # <<>>, Complete(Head(file)), NEW k,
           Silent(file, k)
    PROVE  k \notin DOMAIN GetKeyValue[Head(file)] /\ Silent(Tail(file), k)
<1>1. /\ Tail(file) \in Seq(Lines) /\ Len(file) \in Nat \ {0}
      /\ Len(Tail(file)) = Len(file) - 1
      /\ \A j \in 1..Len(file) - 1 : Tail(file)[j] = file[j + 1]
      /\ \A i \in 0..Len(file) - 1 :
            Reaches(Tail(file), i) <=> Reaches(file, i + 1)
    BY Behind
<1>2. k \notin DOMAIN GetKeyValue[Head(file)]
  <2>1. file[1] = Head(file) /\ 1 \in DOMAIN file
      BY <1>1
  <2>2. Reaches(file, 1)
      BY <2>1 DEF Reaches
  <2> QED
      BY <2>1, <2>2 DEF Silent
<1>3. Silent(Tail(file), k)
  <2> SUFFICES ASSUME NEW j \in DOMAIN Tail(file), Reaches(Tail(file), j)
               PROVE  k \notin DOMAIN GetKeyValue[Tail(file)[j]]
      BY DEF Silent
  <2>1. j \in 1..Len(file) - 1 /\ j \in 0..Len(file) - 1 /\ j + 1 \in DOMAIN file
      BY <1>1
  <2>2. Reaches(file, j + 1) /\ Tail(file)[j] = file[j + 1]
      BY <1>1, <2>1
  <2> QED
      BY <2>1, <2>2 DEF Silent
<1> QED
    BY <1>2, <1>3

\* Nor does the tail define more keys.
LEMMA ConfinedBehind ==
    ASSUME NEW file \in Seq(Lines), file # <<>>, Complete(Head(file)), NEW keys,
           Confined(file, keys)
    PROVE  DOMAIN GetKeyValue[Head(file)] \subseteq keys /\ Confined(Tail(file), keys)
<1>1. ASSUME NEW k, k \notin keys
      PROVE  k \notin DOMAIN GetKeyValue[Head(file)] /\ Silent(Tail(file), k)
  <2>1. Silent(file, k)
      BY <1>1 DEF Confined, Silent
  <2> QED
      BY <2>1, SilentBehind
<1>2. Confined(Tail(file), keys)
  <2> SUFFICES ASSUME NEW j \in DOMAIN Tail(file), Reaches(Tail(file), j),
                      NEW k \in DOMAIN GetKeyValue[Tail(file)[j]]
               PROVE  k \in keys
      BY DEF Confined
  <2> QED
      BY <1>1 DEF Silent
<1> QED
    BY <1>1, <1>2

\* The last line that defines k is the one that is read or is still to come.
LEMMA GivesBehind ==
    ASSUME NEW file \in Seq(Lines), file # <<>>, Complete(Head(file)), NEW k, NEW x,
           Gives(file, k, x)
    PROVE  \/ Gives(Tail(file), k, x)
           \/ /\ Silent(Tail(file), k)
              /\ k \in DOMAIN GetKeyValue[Head(file)] /\ GetKeyValue[Head(file)][k] = x
<1>1. /\ Tail(file) \in Seq(Lines) /\ Len(file) \in Nat \ {0}
      /\ Len(Tail(file)) = Len(file) - 1
      /\ \A j \in 1..Len(file) - 1 : Tail(file)[j] = file[j + 1]
      /\ \A i \in 0..Len(file) - 1 :
            Reaches(Tail(file), i) <=> Reaches(file, i + 1)
    BY Behind
<1>2. PICK i \in DOMAIN file :
         /\ Reaches(file, i)
         /\ k \in DOMAIN GetKeyValue[file[i]] /\ GetKeyValue[file[i]][k] = x
         /\ \A j \in i + 1..Len(file) :
               Reaches(file, j) => k \notin DOMAIN GetKeyValue[file[j]]
    BY DEF Gives
<1>3. i \in 1..Len(file) /\ file[1] = Head(file)
    BY <1>1
<1>4. ASSUME NEW j \in 1..Len(file) - 1, j >= i, Reaches(Tail(file), j)
      PROVE  k \notin DOMAIN GetKeyValue[Tail(file)[j]]
  <2>1. j \in 0..Len(file) - 1 /\ j + 1 \in i + 1..Len(file)
      BY <1>1, <1>3, <1>4
  <2>2. Reaches(file, j + 1) /\ Tail(file)[j] = file[j + 1]
      BY <1>1, <1>4, <2>1
  <2> QED
      BY <1>2, <2>1, <2>2
<1>5. CASE i = 1
  <2>1. Silent(Tail(file), k)
    <3> SUFFICES ASSUME NEW j \in DOMAIN Tail(file), Reaches(Tail(file), j)
                 PROVE  k \notin DOMAIN GetKeyValue[Tail(file)[j]]
        BY DEF Silent
    <3>1. j \in 1..Len(file) - 1 /\ j >= i
        BY <1>1, <1>5
    <3> QED
        BY <1>4, <3>1
  <2> QED
      BY <1>2, <1>3, <1>5, <2>1
<1>6. CASE i # 1
  <2> DEFINE h == i - 1
  <2>1. h \in 1..Len(file) - 1 /\ h \in 0..Len(file) - 1 /\ h + 1 = i
        /\ h \in DOMAIN Tail(file)
      BY <1>1, <1>3, <1>6
  <2>2. Reaches(Tail(file), h) /\ Tail(file)[h] = file[i]
      BY <1>1, <1>2, <2>1
  <2>3. \A j \in h + 1..Len(Tail(file)) :
           Reaches(Tail(file), j) => k \notin DOMAIN GetKeyValue[Tail(file)[j]]
    <3> SUFFICES ASSUME NEW j \in h + 1..Len(Tail(file)), Reaches(Tail(file), j)
                 PROVE  k \notin DOMAIN GetKeyValue[Tail(file)[j]]
        OBVIOUS
    <3>1. j \in 1..Len(file) - 1 /\ j >= i
        BY <1>1, <1>3, <2>1
    <3> QED
        BY <1>4, <3>1
  <2> QED
      BY <1>2, <2>1, <2>2, <2>3 DEF Gives
<1> QED
    BY <1>5, <1>6

\* Behind a line without its end, and in a file without lines, nothing is defined.
LEMMA NothingBehind ==
    /\ \A k : Silent(<<>>, k)
    /\ \A k, x : ~Gives(<<>>, k, x)
    /\ \A keys : Confined(<<>>, keys)
    /\ \A file \in Seq(Lines) : \A k, x :
          file # <<>> /\ ~Complete(Head(file)) => ~Gives(file, k, x)
<1>1. DOMAIN <<>> = {}
    OBVIOUS
<1>2. ASSUME NEW file \in Seq(Lines), NEW k, NEW x, file # <<>>,
             ~Complete(Head(file))
      PROVE  ~Gives(file, k, x)
  <2> SUFFICES ASSUME NEW i \in DOMAIN file, Reaches(file, i) PROVE FALSE
      BY DEF Gives
  <2>1. 1 \in 1..i /\ file[1] = Head(file)
      BY <1>2
  <2> QED
      BY <1>2, <2>1 DEF Reaches
<1> QED
    BY <1>1, <1>2 DEF Silent, Gives, Confined

\* To put a line into the container changes its keys and no others.
LEMMA PutLine ==
    ASSUME NEW line \in Lines, container' = With(line), NEW k
    PROVE  /\ k \in DOMAIN GetKeyValue[line]
                 => k \in DOMAIN container' /\ container'[k] = GetKeyValue[line][k]
           /\ k \notin DOMAIN GetKeyValue[line]
                 => /\ k \in DOMAIN container => k \in DOMAIN container'
                    /\ k \in DOMAIN container => container'[k] = container[k]
BY DEF With

\* LoadLine goes on with the loading of a file, whatever it is to mean.
LEMMA LoadingGoesOn ==
    ASSUME NEW meaning, lines \in Seq(Lines), LoadLine, Loading(meaning)
    PROVE  Loading(meaning)'
<1> DEFINE line == Head(lines)
<1>1. lines # <<>> /\ line \in Lines
    BY DEF LoadLine
<1> SUFFICES ASSUME NEW k \in DOMAIN meaning
             PROVE  \/ Gives(lines, k, meaning[k])'
                    \/ Silent(lines, k)' /\ Has(k, meaning[k])'
    BY DEF Loading
<1>2. CASE Complete(line)
  <2>1. lines' = Tail(lines) /\ container' = With(line)
      BY <1>2 DEF LoadLine
  <2>2. CASE Gives(lines, k, meaning[k])
    <3>1. \/ Gives(lines', k, meaning[k])
          \/ /\ Silent(lines', k)
             /\ k \in DOMAIN GetKeyValue[line] /\ GetKeyValue[line][k] = meaning[k]
        BY <1>1, <1>2, <2>1, <2>2, GivesBehind
    <3> HIDE DEF line
    <3> QED
        BY <1>1, <2>1, <3>1, PutLine DEF Has, Gives, Silent
  <2>3. CASE Silent(lines, k) /\ Has(k, meaning[k])
    <3>1. k \notin DOMAIN GetKeyValue[line] /\ Silent(lines', k)
        BY <1>1, <1>2, <2>1, <2>3, SilentBehind
    <3> HIDE DEF line
    <3> QED
        BY <1>1, <2>1, <2>3, <3>1, PutLine DEF Has, Silent
  <2> QED
      BY <2>2, <2>3 DEF Loading
<1>3. CASE ~Complete(line)
  <2>1. lines' = <<>> /\ container' = container
      BY <1>3 DEF LoadLine
  <2>2. ~Gives(lines, k, meaning[k])
      BY <1>1, <1>3, NothingBehind
  <2>3. Has(k, meaning[k])
      BY <2>2 DEF Loading
  <2>4. Silent(lines', k)
      BY <2>1, NothingBehind
  <2> QED
      BY <2>1, <2>3, <2>4 DEF Has, Silent
<1> QED
    BY <1>2, <1>3

\* A file that says what it means can be loaded.
LEMMA LoadingBegins ==
    ASSUME NEW meaning, Means(lines, meaning)'
    PROVE  Loading(meaning)'
BY DEF Loading, Means

\* And is loaded when there is no line left.
LEMMA LoadingEnds ==
    ASSUME NEW meaning, lines = <<>>, Loading(meaning)
    PROVE  \A k \in DOMAIN meaning : Has(k, meaning[k])
BY NothingBehind DEF Loading

\* Keys that are not confined to are left alone.
LEMMA OthersStay ==
    ASSUME NEW keys, lines \in Seq(Lines), LoadLine, Confined(lines, keys)
    PROVE  /\ Confined(lines, keys)'
           /\ \A k, x : k \notin keys /\ Has(k, x) => Has(k, x)'
<1> DEFINE line == Head(lines)
<1>1. lines # <<>> /\ line \in Lines
    BY DEF LoadLine
<1>2. CASE Complete(line)
  <2>1. lines' = Tail(lines) /\ container' = With(line)
      BY <1>2 DEF LoadLine
  <2>2. DOMAIN GetKeyValue[line] \subseteq keys /\ Confined(lines', keys)
      BY <1>1, <1>2, <2>1, ConfinedBehind
  <2> HIDE DEF line
  <2> QED
      BY <1>1, <2>1, <2>2, PutLine DEF Has, Confined
<1>3. CASE ~Complete(line)
  <2>1. lines' = <<>> /\ container' = container
      BY <1>3 DEF LoadLine
  <2>2. Confined(lines', keys)
      BY <2>1, NothingBehind
  <2> QED
      BY <2>1, <2>2 DEF Has, Confined
<1> QED
    BY <1>2, <1>3

-----------------------------------------------------------------------------
(***************************************************************************)
(* LocalPrevails.                                                          *)
(***************************************************************************)

\* The numbers keep their types and their order.
LEMMA NumbersStep == Numbers /\ [Next]_vars => Numbers'
<1> SUFFICES ASSUME Numbers, [Next]_vars PROVE Numbers'
    OBVIOUS
<1> USE ConfigAssumption
        DEF Numbers, Versions, Labels, etcd, files, config, locals
<1>1. CASE PublishData
    BY <1>1 DEF PublishData
<1>2. CASE PublishVersion
    BY <1>2 DEF PublishVersion
<1>3. CASE MkDir
    BY <1>3 DEF MkDir
<1>4. CASE MkDirFails
    BY <1>4 DEF MkDirFails, Fault
<1>5. CASE ReadVersion
    BY <1>5 DEF ReadVersion
<1>6. CASE GetVersion
    BY <1>6 DEF GetVersion
<1>7. CASE GetVersionFails
    BY <1>7 DEF GetVersionFails, Fault
<1>8. CASE WriteVersion
    BY <1>8 DEF WriteVersion, Fault
<1>9. CASE Compare
    BY <1>9 DEF Compare
<1>10. CASE GetData
    BY <1>10 DEF GetData
<1>11. CASE GetDataFails
    BY <1>11 DEF GetDataFails, Fault
<1>12. CASE Truncate
    BY <1>12 DEF Truncate
<1>13. CASE WriteData
    BY <1>13 DEF WriteData, Fault
<1>14. CASE LoadRemote
    BY <1>14 DEF LoadRemote
<1>14o. CASE OpenFails
    BY <1>14o DEF OpenFails, Fault
<1>15. CASE LoadLine
  <2>1. Tail(lines) \in Seq(Lines) /\ <<>> \in Seq(Lines)
      BY <1>15 DEF LoadLine
  <2>2. lines' \in Seq(Lines)
      BY <1>15, <2>1 DEF LoadLine
  <2>3. UNCHANGED <<etcd, files, faults, configVersion, pc, localNum, remoteNum,
                    fetched>>
      BY <1>15 DEF LoadLine
  <2> QED
      BY <2>2, <2>3
<1>15r. CASE ReadFails
    BY <1>15r DEF ReadFails, Fault
<1>16. CASE RemoteLoaded
    BY <1>16 DEF RemoteLoaded
<1>17. CASE LoadLocal
    BY <1>17 DEF LoadLocal
<1>18. CASE LocalLoaded
    BY <1>18 DEF LocalLoaded
<1>19. CASE CheckVersion
    BY <1>19 DEF CheckVersion
<1>20. CASE CheckFails
    BY <1>20 DEF CheckFails, Fault
<1>21. CASE Crash
    BY <1>21 DEF Crash, Fault
<1>22. CASE Restart
    BY <1>22 DEF Restart
<1>23. CASE UNCHANGED vars
    BY <1>23 DEF vars
<1> QED
    BY <1>1, <1>2, <1>3, <1>4, <1>5, <1>6, <1>7, <1>8, <1>9, <1>10, <1>11,
       <1>12, <1>13, <1>14, <1>14o, <1>15, <1>15r, <1>16, <1>17, <1>18, <1>19,
       <1>20, <1>21, <1>22, <1>23 DEF Next, Load

\* The directory stays, and a process that is down has loaded nothing.
LEMMA DirStep == DirStays /\ [Next]_vars => DirStays'
<1> SUFFICES ASSUME DirStays, [Next]_vars PROVE DirStays'
    OBVIOUS
<1> USE DEF DirStays, files, config
<1>1. CASE PublishData
    BY <1>1 DEF PublishData
<1>2. CASE PublishVersion
    BY <1>2 DEF PublishVersion
<1>3. CASE MkDir
    BY <1>3 DEF MkDir
<1>4. CASE MkDirFails
    BY <1>4 DEF MkDirFails
<1>5. CASE ReadVersion
    BY <1>5 DEF ReadVersion
<1>6. CASE GetVersion
    BY <1>6 DEF GetVersion
<1>7. CASE GetVersionFails
    BY <1>7 DEF GetVersionFails
<1>8. CASE WriteVersion
    BY <1>8 DEF WriteVersion
<1>9. CASE Compare
    BY <1>9 DEF Compare
<1>10. CASE GetData
    BY <1>10 DEF GetData
<1>11. CASE GetDataFails
    BY <1>11 DEF GetDataFails
<1>12. CASE Truncate
    BY <1>12 DEF Truncate
<1>13. CASE WriteData
    BY <1>13 DEF WriteData
<1>14. CASE LoadRemote
    BY <1>14 DEF LoadRemote
<1>14o. CASE OpenFails
    BY <1>14o DEF OpenFails, Fault
<1>15. CASE LoadLine
    BY <1>15 DEF LoadLine
<1>15r. CASE ReadFails
    BY <1>15r DEF ReadFails, Fault
<1>16. CASE RemoteLoaded
    BY <1>16 DEF RemoteLoaded
<1>17. CASE LoadLocal
    BY <1>17 DEF LoadLocal
<1>18. CASE LocalLoaded
    BY <1>18 DEF LocalLoaded
<1>19. CASE CheckVersion
    BY <1>19 DEF CheckVersion
<1>20. CASE CheckFails
    BY <1>20 DEF CheckFails
<1>21. CASE Crash
    BY <1>21 DEF Crash
<1>22. CASE Restart
    BY <1>22 DEF Restart
<1>23. CASE UNCHANGED vars
    BY <1>23 DEF vars
<1> QED
    BY <1>1, <1>2, <1>3, <1>4, <1>5, <1>6, <1>7, <1>8, <1>9, <1>10, <1>11,
       <1>12, <1>13, <1>14, <1>14o, <1>15, <1>15r, <1>16, <1>17, <1>18, <1>19,
       <1>20, <1>21, <1>22, <1>23 DEF Next, Load

\* A load of "local" ends with what it means in the container or by an error of the
\* file, and no load ends otherwise once the directory is there.
LEMMA LocalStep ==
    ASSUME AuthorsAreUnderstood
    PROVE  LocalInv /\ [Next]_vars => LocalInv'
<1> SUFFICES ASSUME LocalInv, [Next]_vars PROVE LocalIsLoaded'
    BY NumbersStep, DirStep DEF LocalInv
<1>0. Numbers /\ DirStays /\ LocalIsLoaded
    BY DEF LocalInv
<1>1. CASE LoadLocal
  <2>1. pc' = "localLine" /\ lines' = LocalFile
      BY <1>1 DEF LoadLocal
  <2>2. Means(lines', Local)
      BY <2>1 DEF AuthorsAreUnderstood
  <2>3. Loading(Local)'
      BY <2>2, LoadingBegins DEF Means, Gives, Confined
  <2> QED
      BY <2>1, <2>3 DEF LocalIsLoaded, LocalPrevails
<1>2. CASE LoadLine
  <2>1. pc' = pc /\ pc \in {"remoteLine", "localLine"}
      BY <1>2 DEF LoadLine
  <2>2. lines \in Seq(Lines)
      BY <1>0 DEF Numbers
  <2>3. localCut' = localCut
      BY <1>2 DEF LoadLine
  <2>4. pc = "localLine" /\ ~localCut => Loading(Local)'
      BY <1>0, <1>2, <2>2, LoadingGoesOn DEF LocalIsLoaded
  <2> QED
      BY <2>1, <2>3, <2>4 DEF LocalIsLoaded, LocalPrevails
<1>3. CASE LocalLoaded
  <2>1. /\ pc = "localLine" /\ lines = <<>> /\ pc' = "idle"
        /\ container' = container /\ localCut' = localCut
      BY <1>3 DEF LocalLoaded, config, locals
  <2>2. ~localCut => \A k \in DOMAIN Local : Has(k, Local[k])
      BY <1>0, <2>1, LoadingEnds DEF LocalIsLoaded
  <2> QED
      BY <2>1, <2>2 DEF LocalIsLoaded, LocalPrevails, Has
<1>4. CASE MkDirFails
  <2>1. pc' = "idle" /\ ~configLoaded'
      BY Zenon, <1>0, <1>4 DEF MkDirFails, DirStays, config
  <2> QED
      BY Zenon, <2>1 DEF LocalIsLoaded, LocalPrevails
<1>5. CASE pc' \notin {"idle", "localLine"} \/ (pc' = "localLine" /\ localCut')
    BY <1>5 DEF LocalIsLoaded, LocalPrevails
<1>6. CASE UNCHANGED <<pc, configLoaded, container, lines, localCut>>
  <2>1. Loading(Local)' <=> Loading(Local)
      BY <1>6 DEF Loading, Gives, Silent, Has
  <2>2. LocalPrevails' <=> LocalPrevails
      BY Zenon, <1>6 DEF LocalPrevails
  <2> QED
      BY <1>0, <1>6, <2>1, <2>2 DEF LocalIsLoaded
<1>6f. OpenFails \/ ReadFails => pc' = "remoteLine" \/ (pc' = "localLine" /\ localCut')
  <2>1. ASSUME OpenFails, pc = "loadLocal" PROVE localCut'
    <3>1. localCut' = (pc = "loadLocal")
        BY <2>1 DEF OpenFails
    <3> QED
        BY Zenon, <2>1, <3>1
  <2>2. ASSUME ReadFails, pc = "localLine" PROVE localCut'
    <3>1. localCut' = (pc = "localLine")
        BY <2>2 DEF ReadFails
    <3> QED
        BY Zenon, <2>2, <3>1
  <2> QED
      BY <2>1, <2>2 DEF OpenFails, ReadFails
<1>7. \/ LoadLocal \/ LoadLine \/ LocalLoaded \/ MkDirFails
      \/ pc' \notin {"idle", "localLine"} \/ (pc' = "localLine" /\ localCut')
      \/ UNCHANGED <<pc, configLoaded, container, lines, localCut>>
    BY <1>6f
       DEF Next, Load, PublishData, PublishVersion, MkDir, ReadVersion, GetVersion,
           GetVersionFails, WriteVersion, Compare, GetData, GetDataFails, Truncate,
           WriteData, LoadRemote, RemoteLoaded, CheckVersion, CheckFails, Crash,
           Restart, vars, config, locals
<1> QED
    BY <1>1, <1>2, <1>3, <1>4, <1>5, <1>6, <1>7

\* The first process starts with nothing.
LEMMA LocalInit == Init => LocalInv
<1> SUFFICES ASSUME Init PROVE LocalInv
    OBVIOUS
<1>1. Numbers
    BY ConfigAssumption DEF Init, Numbers, Versions, Labels
<1>2. DirStays
    BY Zenon DEF Init, DirStays
<1>3. LocalIsLoaded
    BY DEF Init, LocalIsLoaded, LocalPrevails
<1> QED
    BY <1>1, <1>2, <1>3 DEF LocalInv

\* Whenever no load is under way and the last load of "local" did not fail, the
\* settings in that file prevail over what was loaded from etcd, for all files
\* whose authors are understood, all sequences of loads, failures, crashes and
\* restarts.
THEOREM LocalAlwaysPrevails ==
    ASSUME AuthorsAreUnderstood
    PROVE  Spec => []LocalPrevails
<1>1. LocalInv => LocalPrevails
    BY DEF LocalInv, LocalIsLoaded
<1>2. LocalInv /\ [Next]_vars => LocalInv'
    BY LocalStep
<1> QED
    BY <1>1, <1>2, LocalInit, PTL DEF Spec

-----------------------------------------------------------------------------
(***************************************************************************)
(* VersionIsShown.                                                         *)
(***************************************************************************)

\* Nothing has failed, and so nothing does in a step after which that holds.
LEMMA NoFault ==
    ASSUME Numbers, [Next]_vars, faults' = MaxFaults
    PROVE  /\ faults = MaxFaults
           /\ ~MkDirFails /\ ~GetDataFails /\ ~OpenFails /\ ~ReadFails
           /\ ~CheckFails /\ ~Crash
<1>1. faults \in 0..MaxFaults /\ MaxFaults \in Nat
    BY ConfigAssumption DEF Numbers
<1>2. faults' = faults \/ faults' = faults - 1
    BY DEF Next, Load, PublishData, PublishVersion, MkDir, MkDirFails, ReadVersion,
           GetVersion, GetVersionFails, WriteVersion, Compare, GetData,
           GetDataFails, Truncate, WriteData, LoadRemote, OpenFails, LoadLine,
           ReadFails, RemoteLoaded, LoadLocal, LocalLoaded, CheckVersion,
           CheckFails, Crash, Restart, Fault, vars
<1>3. faults = MaxFaults
    BY <1>1, <1>2
<1>4. ~Fault
    BY <1>1, <1>3 DEF Fault
<1> QED
    BY <1>3, <1>4 DEF MkDirFails, GetDataFails, OpenFails, ReadFails, CheckFails,
                      Crash

\* The process keeps running.
LEMMA UpStep ==
    ASSUME Numbers, [Next]_vars, faults' = MaxFaults, up, pc # "none"
    PROVE  up' /\ pc' # "none"
<1>1. ~Crash
    BY NoFault
<1>2. up' = up \/ Restart
    BY <1>1 DEF Next, Load, PublishData, PublishVersion, MkDir, MkDirFails,
           ReadVersion, GetVersion, GetVersionFails, WriteVersion, Compare, GetData,
           GetDataFails, Truncate, WriteData, LoadRemote, OpenFails, LoadLine,
           ReadFails, RemoteLoaded, LoadLocal, LocalLoaded, CheckVersion,
           CheckFails, Restart, vars
<1>3. up'
    BY Zenon, <1>2 DEF Restart
<1>4. pc' # "none"
    BY <1>1 DEF Next, Load, PublishData, PublishVersion, MkDir, MkDirFails,
           ReadVersion, GetVersion, GetVersionFails, WriteVersion, Compare, GetData,
           GetDataFails, Truncate, WriteData, LoadRemote, OpenFails, LoadLine,
           ReadFails, RemoteLoaded, LoadLocal, LocalLoaded, CheckVersion,
           CheckFails, Restart, vars
<1> QED
    BY <1>3, <1>4

\* The data that is fetched is at least as new as the version that was read
\* before, and it is fetched whenever the copy is older.
LEMMA CurrentStep ==
    ASSUME Numbers, CopyIsCurrent, [Next]_vars, faults' = MaxFaults, up
    PROVE  CopyIsCurrent'
<1>0. /\ faults = MaxFaults
      /\ ~MkDirFails /\ ~GetDataFails /\ ~OpenFails /\ ~ReadFails
      /\ ~CheckFails /\ ~Crash
    BY NoFault
<1> USE ConfigAssumption
        DEF Numbers, CopyIsCurrent, Versions, etcd, files, config, locals
<1>1. CASE PublishData
    BY <1>1 DEF PublishData
<1>2. CASE PublishVersion
    BY <1>2 DEF PublishVersion
<1>3. CASE MkDir
    BY <1>3 DEF MkDir
<1>4. CASE ReadVersion
    BY <1>4 DEF ReadVersion
<1>5. CASE GetVersion
    BY <1>5 DEF GetVersion
<1>6. CASE GetVersionFails
    BY <1>6 DEF GetVersionFails, Fault
<1>7. CASE WriteVersion
    BY <1>7 DEF WriteVersion, Fault
<1>8. CASE Compare
    BY <1>8 DEF Compare
<1>9. CASE GetData
    BY <1>9 DEF GetData
<1>10. CASE Truncate
    BY <1>10 DEF Truncate
<1>11. CASE WriteData
    BY <1>11 DEF WriteData, Fault
<1>12. CASE LoadRemote
    BY <1>12 DEF LoadRemote
<1>13. CASE LoadLine
    BY <1>13 DEF LoadLine
<1>14. CASE RemoteLoaded
    BY <1>14 DEF RemoteLoaded
<1>15. CASE LoadLocal
    BY <1>15 DEF LoadLocal
<1>16. CASE LocalLoaded
    BY <1>16 DEF LocalLoaded
<1>17. CASE CheckVersion
    BY <1>17 DEF CheckVersion
<1>18. CASE Restart
    BY <1>18 DEF Restart
<1>19. CASE UNCHANGED vars
    BY <1>19 DEF vars
<1> QED
    BY <1>0, <1>1, <1>2, <1>3, <1>4, <1>5, <1>6, <1>7, <1>8, <1>9, <1>10,
       <1>11, <1>12, <1>13, <1>14, <1>15, <1>16, <1>17, <1>18, <1>19 DEF Next,
       Load

\* The copy is loaded line after line, and then "local", whose lines touch no key
\* that only the copy defines.
LEMMA ShownStep ==
    ASSUME AuthorsAreUnderstood, Numbers, CopyIsShown, [Next]_vars,
           faults' = MaxFaults
    PROVE  CopyIsShown'
<1>0. /\ remoteFile \in Versions /\ lines \in Seq(Lines)
      /\ ~MkDirFails /\ ~GetDataFails /\ ~OpenFails /\ ~ReadFails
      /\ ~CheckFails /\ ~Crash
  <2>1. etcdData \in 0..MaxVersion /\ remoteFile \in 0..etcdData /\ lines \in Seq(Lines)
      BY DEF Numbers, Versions
  <2> QED
      BY <2>1, NoFault, ConfigAssumption DEF Versions
<1>1. CASE LoadRemote
  <2>1. /\ pc' = "remoteLine" /\ lines' = RemoteFile[remoteFile]
        /\ remoteFile' = remoteFile
      BY <1>1 DEF LoadRemote, files
  <2>2. PICK w \in Versions : w = remoteFile
      BY <1>0
  <2>3. Means(lines, Remote[w])'
      BY <2>1, <2>2 DEF AuthorsAreUnderstood, Means, Gives, Confined
  <2>4. Loading(Remote[w])'
      BY <2>3, LoadingBegins
  <2> QED
      BY <2>1, <2>2, <2>4 DEF CopyIsShown, Loading
<1>2. CASE LoadLine /\ pc = "remoteLine"
  <2>1. pc' = pc /\ remoteFile' = remoteFile
      BY <1>2 DEF LoadLine, files
  <2>2. PICK w \in Versions : w = remoteFile
      BY <1>0
  <2>3. Loading(Remote[w])
      BY <1>2, <2>2 DEF CopyIsShown
  <2>4. Loading(Remote[w])'
      BY <1>0, <1>2, <2>3, LoadingGoesOn
  <2> QED
      BY <1>2, <2>1, <2>2, <2>4 DEF CopyIsShown, Loading
<1>3. CASE LoadLine /\ pc = "localLine"
  <2>1. pc' = pc /\ remoteFile' = remoteFile
      BY <1>3 DEF LoadLine, files
  <2>2. /\ Confined(lines, DOMAIN Local)'
        /\ \A k, x : k \notin DOMAIN Local /\ Has(k, x) => Has(k, x)'
      BY <1>0, <1>3, OthersStay DEF CopyIsShown
  <2>3. Shows(remoteFile)
      BY <1>3 DEF CopyIsShown
  <2>4. \A k \in DOMAIN Remote[remoteFile] \ DOMAIN Local :
           k \in DOMAIN container' /\ container'[k] = Remote[remoteFile][k]
      BY <2>2, <2>3 DEF Shows, Has
  <2>5. Shows(remoteFile)'
      BY <2>1, <2>4 DEF Shows, Has
  <2> QED
      BY <1>3, <2>1, <2>2, <2>5 DEF CopyIsShown
<1>4. CASE RemoteLoaded
  <2>1. /\ pc = "remoteLine" /\ lines = <<>> /\ pc' = "loadLocal"
        /\ remoteFile' = remoteFile /\ container' = container
      BY <1>4 DEF RemoteLoaded, files
  <2>2. PICK w \in Versions : w = remoteFile
      BY <1>0
  <2>3. Loading(Remote[w])
      BY <2>1, <2>2 DEF CopyIsShown
  <2>4. \A k \in DOMAIN Remote[w] : Has(k, Remote[w][k])
      BY <2>1, <2>3, LoadingEnds
  <2> QED
      BY <2>1, <2>2, <2>4 DEF CopyIsShown, Has
<1>5. CASE LoadLocal
  <2>1. /\ pc = "loadLocal" /\ lines' = LocalFile /\ pc' = "localLine"
        /\ remoteFile' = remoteFile /\ container' = container
      BY <1>5 DEF LoadLocal, files, config
  <2>2. Confined(lines, DOMAIN Local)'
      BY <2>1 DEF AuthorsAreUnderstood, Means, Confined
  <2>3. Shows(remoteFile)'
      BY <2>1 DEF CopyIsShown, Shows, Has
  <2> QED
      BY <2>1, <2>2, <2>3 DEF CopyIsShown
<1>6. CASE LocalLoaded
  <2>1. /\ pc = "localLine" /\ pc' = "idle"
        /\ remoteFile' = remoteFile /\ container' = container
      BY <1>6 DEF LocalLoaded, files, config
  <2>2. Shows(remoteFile)'
      BY <2>1 DEF CopyIsShown, Shows
  <2> QED
      BY <2>1, <2>2 DEF CopyIsShown
<1>7. CASE pc' \notin {"remoteLine", "loadLocal", "localLine", "idle"}
    BY <1>7 DEF CopyIsShown
<1>8. CASE UNCHANGED <<pc, remoteFile, container, lines>>
  <2>1. Loading(Remote[remoteFile])' <=> Loading(Remote[remoteFile])
      BY <1>8 DEF Loading, Gives, Silent, Has
  <2>2. Confined(lines, DOMAIN Local)' <=> Confined(lines, DOMAIN Local)
      BY <1>8 DEF Confined
  <2>3. Shows(remoteFile)' <=> Shows(remoteFile)
      BY <1>8 DEF Shows
  <2> QED
      BY <1>8, <2>1, <2>2, <2>3 DEF CopyIsShown, Has
<1>9. \/ LoadRemote \/ LoadLine \/ RemoteLoaded \/ LoadLocal \/ LocalLoaded
      \/ pc' \notin {"remoteLine", "loadLocal", "localLine", "idle"}
      \/ UNCHANGED <<pc, remoteFile, container, lines>>
    BY <1>0 DEF Next, Load, PublishData, PublishVersion, MkDir, ReadVersion,
           GetVersion, GetVersionFails, WriteVersion, Compare, GetData, Truncate,
           WriteData, CheckVersion, Restart, vars, config, locals, files
<1>10. LoadLine => pc \in {"remoteLine", "localLine"}
    BY DEF LoadLine
<1> QED
    BY <1>1, <1>2, <1>3, <1>4, <1>5, <1>6, <1>7, <1>8, <1>9, <1>10

\* Every step keeps the invariant.
LEMMA VersionStep ==
    ASSUME AuthorsAreUnderstood
    PROVE  VersionInv /\ [Next]_vars => VersionInv'
<1> SUFFICES ASSUME VersionInv, [Next]_vars, faults' = MaxFaults
             PROVE  up' /\ pc' # "none" /\ CopyIsCurrent' /\ CopyIsShown'
    BY NumbersStep DEF VersionInv
<1>1. Numbers
    BY DEF VersionInv
<1>2. up /\ pc # "none" /\ CopyIsCurrent /\ CopyIsShown
    BY <1>1, NoFault DEF VersionInv
<1>3. up' /\ pc' # "none"
    BY <1>1, <1>2, UpStep
<1>4. CopyIsCurrent'
    BY <1>1, <1>2, CurrentStep
<1>5. CopyIsShown'
    BY <1>1, <1>2, ShownStep
<1> QED
    BY <1>3, <1>4, <1>5

\* The first load begins with a copy that is not there, like its version.
LEMMA VersionInit == Init => VersionInv
<1> SUFFICES ASSUME Init PROVE VersionInv
    OBVIOUS
<1>1. Numbers
    BY LocalInit DEF LocalInv
<1>2. up /\ pc # "none"
    BY Zenon DEF Init
<1>3. CopyIsCurrent /\ CopyIsShown
    BY DEF Init, CopyIsCurrent, CopyIsShown
<1> QED
    BY <1>1, <1>2, <1>3 DEF VersionInv

\* As long as nothing fails, configVersion does not run ahead of the container,
\* although it is set before the data is fetched: whenever no load is under way the
\* container shows a version that is at least as new, for all files whose authors
\* are understood and however versions are published meanwhile.
THEOREM VersionAlwaysShown ==
    ASSUME AuthorsAreUnderstood
    PROVE  Spec => []VersionIsShown
<1>1. VersionInv => VersionIsShown
  <2> SUFFICES ASSUME VersionInv, pc = "idle", faults = MaxFaults
               PROVE  \E v \in configVersion..etcdData : Shows(v)
      BY DEF VersionIsShown
  <2>1. Shows(remoteFile) /\ configVersion <= remoteFile
      BY DEF VersionInv, CopyIsCurrent, CopyIsShown
  <2>2. etcdData \in 0..MaxVersion /\ remoteFile \in 0..etcdData
      BY DEF VersionInv, Numbers, Versions
  <2>3. etcdVersion \in 0..etcdData /\ configVersion \in 0..etcdVersion
      BY DEF VersionInv, Numbers
  <2>4. remoteFile \in configVersion..etcdData
      BY <2>1, <2>2, <2>3, ConfigAssumption
  <2> QED
      BY <2>1, <2>4
<1>2. VersionInv /\ [Next]_vars => VersionInv'
    BY VersionStep
<1> QED
    BY <1>1, <1>2, VersionInit, PTL DEF Spec
=============================================================================

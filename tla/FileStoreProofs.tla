-------------------------- MODULE FileStoreProofs --------------------------
(***************************************************************************)
(* For any names, documents and number of mutations: the store keeps its   *)
(* types, and no mutation, import, merge or restart leaves a reference     *)
(* dangling; what was acknowledged is read back at the next start, through *)
(* decompile, the YAML files of the directory and compile; a merge import  *)
(* nothing came between keeps what it was not given, and one that is sent  *)
(* again changes nothing more.                                             *)
(***************************************************************************)
EXTENDS FileStore, TLAPS

(***************************************************************************)
(* Partial functions                                                       *)
(***************************************************************************)

\* A member of Partial(S, T) is a function from part of S to T.
LEMMA PartialFunction ==
    ASSUME NEW S, NEW T, NEW f
    PROVE  f \in Partial(S, T) <=> DOMAIN f \subseteq S /\ f \in [DOMAIN f -> T]
BY DEF Partial

\* Functions from part of S to T are partial.
LEMMA PartialIntro ==
    ASSUME NEW S, NEW T, NEW D \in SUBSET S, NEW f \in [D -> T]
    PROVE  f \in Partial(S, T) /\ DOMAIN f = D
BY DEF Partial

\* Overlay, what every creation and merge uses.
LEMMA OverlayType ==
    ASSUME NEW S, NEW T, NEW f \in Partial(S, T), NEW g \in Partial(S, T)
    PROVE  /\ Overlay(f, g) \in Partial(S, T)
           /\ DOMAIN Overlay(f, g) = DOMAIN f \cup DOMAIN g
<1>1. DOMAIN f \subseteq S /\ f \in [DOMAIN f -> T]
  BY PartialFunction
<1>2. DOMAIN g \subseteq S /\ g \in [DOMAIN g -> T]
  BY PartialFunction
<1>3. Overlay(f, g) \in [DOMAIN f \cup DOMAIN g -> T]
  BY <1>1, <1>2 DEF Overlay
<1>4. QED
  BY <1>1, <1>2, <1>3, PartialIntro

\* One more entry.
LEMMA AddType ==
    ASSUME NEW S, NEW T, NEW f \in Partial(S, T), NEW k \in S, NEW v \in T
    PROVE  With(f, k, v) \in Partial(S, T)
<1>1. DOMAIN f \subseteq S /\ f \in [DOMAIN f -> T]
  BY PartialFunction
<1>2. With(f, k, v) \in [DOMAIN f \cup {k} -> T]
  BY <1>1 DEF With
<1>3. QED
  BY <1>1, <1>2, PartialIntro

\* Without, what every deletion uses.
LEMMA WithoutType ==
    ASSUME NEW S, NEW T, NEW f \in Partial(S, T), NEW D
    PROVE  Without(f, D) \in Partial(S, T)
<1>1. DOMAIN f \subseteq S /\ f \in [DOMAIN f -> T]
  BY PartialFunction
<1>2. Without(f, D) \in [DOMAIN f \ D -> T]
  BY <1>1 DEF Without
<1>3. QED
  BY <1>1, <1>2, PartialIntro

\* An entry replaced.
LEMMA UpdateType ==
    ASSUME NEW S, NEW T, NEW f \in Partial(S, T), NEW k \in DOMAIN f, NEW v \in T
    PROVE  [f EXCEPT ![k] = v] \in Partial(S, T)
<1>1. DOMAIN f \subseteq S /\ f \in [DOMAIN f -> T]
  BY PartialFunction
<1>2. [f EXCEPT ![k] = v] \in [DOMAIN f -> T]
  BY <1>1
<1>3. QED
  BY <1>1, <1>2, PartialIntro

(***************************************************************************)
(* Documents and snapshots                                                 *)
(***************************************************************************)

ServerRows == [cred : Names \cup {None, Unknown}, enabled : BOOLEAN]
ImportRows == [data : Secrets \cup {None}, enabled : BOOLEAN]
FileRows   == [data : Secrets \cup {None}, name : Names \cup {None}, enabled : BOOLEAN]
ObjectKeys == Objects \X ServerNames

\* The empty document.
LEMMA EmptyType == Empty \in Snapshots /\ Empty \in ImporterDocs /\ Resolved(Empty)
<1>1. \A S, T : Nothing \in Partial(S, T)
  <2> SUFFICES ASSUME NEW S, NEW T PROVE Nothing \in Partial(S, T)
    OBVIOUS
  <2>1. {} \in SUBSET S /\ Nothing \in [{} -> T]
    BY DEF Nothing
  <2>2. QED
    BY <2>1, PartialIntro
<1>2. DOMAIN Nothing = {}
  BY DEF Nothing
<1>3. Resolved(Empty)
  BY <1>2 DEF Resolved, Empty
<1>4. QED
  BY <1>1, <1>3 DEF Empty, Snapshots, ImporterDocs

\* declarativeToImporter returns an importer document.
LEMMA ToImporterType ==
    ASSUME NEW doc \in Documents
    PROVE  ToImporter(doc) \in ImporterDocs
<1>1. doc.creds \in Partial(Names, Secrets) /\ doc.servers \in Partial(ServerNames, FileRows)
      /\ doc.objs \in Partial(ObjectKeys, Bodies)
  BY DEF Documents, FileRows, ObjectKeys
<1>2. DOMAIN doc.servers \subseteq ServerNames /\ doc.servers \in [DOMAIN doc.servers -> FileRows]
  BY <1>1, PartialFunction
<1>3. [s \in DOMAIN doc.servers |-> [data |-> doc.servers[s].data,
                                     enabled |-> doc.servers[s].enabled]]
        \in [DOMAIN doc.servers -> ImportRows]
  BY <1>2 DEF FileRows, ImportRows
<1>4. ToImporter(doc).servers \in Partial(ServerNames, ImportRows)
  BY <1>2, <1>3, PartialIntro DEF ToImporter
<1>5. QED
  BY <1>1, <1>4 DEF ToImporter, ImporterDocs, ImportRows, ObjectKeys

\* MergeDeclarativeDocs returns an importer document.
LEMMA MergeType ==
    ASSUME NEW doc1 \in ImporterDocs, NEW doc2 \in ImporterDocs
    PROVE  Merge(doc1, doc2) \in ImporterDocs
<1>1. /\ Overlay(doc1.creds, doc2.creds) \in Partial(Names, Secrets)
      /\ Overlay(doc1.servers, doc2.servers) \in Partial(ServerNames, ImportRows)
      /\ Overlay(doc1.objs, doc2.objs) \in Partial(ObjectKeys, Bodies)
  BY OverlayType DEF ImporterDocs, ImportRows, ObjectKeys
<1>2. QED
  BY <1>1 DEF Merge, ImporterDocs, ImportRows, ObjectKeys

\* decompileDeclarative returns a document.
LEMMA DecompileType ==
    ASSUME NEW snap \in Snapshots
    PROVE  Decompile(snap) \in Documents
<1>1. snap.creds \in Partial(Names, Secrets) /\ snap.servers \in Partial(ServerNames, ServerRows)
      /\ snap.objs \in Partial(ObjectKeys, Bodies)
  BY DEF Snapshots, ServerRows, ObjectKeys
<1>2. DOMAIN snap.servers \subseteq ServerNames /\ DOMAIN snap.creds \subseteq Names
      /\ snap.creds \in [DOMAIN snap.creds -> Secrets]
      /\ snap.servers \in [DOMAIN snap.servers -> ServerRows]
  BY <1>1, PartialFunction
<1>3. Decompile(snap).creds \in Partial(Names, Secrets)
  <2> DEFINE D == {c \in DOMAIN snap.creds : Shared(snap, c)}
  <2>1. D \in SUBSET Names /\ [c \in D |-> snap.creds[c]] \in [D -> Secrets]
    BY <1>2
  <2>2. [c \in D |-> snap.creds[c]] \in Partial(Names, Secrets)
    BY ONLY <2>1, PartialIntro
  <2>3. QED
    BY <2>2 DEF Decompile
<1>4. Decompile(snap).servers \in Partial(ServerNames, FileRows)
  <2> DEFINE Row(s) ==
        LET c == snap.servers[s].cred IN
        [data    |-> IF c \in DOMAIN snap.creds /\ Private(snap, c) THEN snap.creds[c] ELSE None,
         name    |-> IF c \in DOMAIN snap.creds /\ Shared(snap, c) THEN c ELSE None,
         enabled |-> snap.servers[s].enabled]
  <2>1. \A s \in DOMAIN snap.servers : Row(s) \in FileRows
    BY <1>2 DEF FileRows, ServerRows
  <2>2. Decompile(snap).servers = [s \in DOMAIN snap.servers |-> Row(s)]
    BY DEF Decompile
  <2> HIDE DEF Row
  <2>3. Decompile(snap).servers \in [DOMAIN snap.servers -> FileRows]
    BY <2>1, <2>2
  <2>4. QED
    BY <1>2, <2>3, PartialIntro
<1>5. Decompile(snap).objs \in Partial(ObjectKeys, Bodies)
  BY <1>1, WithoutType DEF Decompile
<1>6. QED
  BY <1>3, <1>4, <1>5 DEF Decompile, Documents, FileRows, ObjectKeys

\* compileDeclarative returns a snapshot, and one without a dangling reference
\* when it returns no error.
LEMMA CompileType ==
    ASSUME NEW doc \in ImporterDocs
    PROVE  /\ Compile(doc) \in Snapshots
           /\ Compiles(doc) => Resolved(Compile(doc))
<1> DEFINE inline == {s \in DOMAIN doc.servers : doc.servers[s].data # None}
<1>1. doc.creds \in Partial(Names, Secrets) /\ doc.servers \in Partial(ServerNames, ImportRows)
      /\ doc.objs \in Partial(ObjectKeys, Bodies)
  BY DEF ImporterDocs, ImportRows, ObjectKeys
<1>2. DOMAIN doc.servers \subseteq ServerNames /\ DOMAIN doc.creds \subseteq Names
      /\ doc.creds \in [DOMAIN doc.creds -> Secrets]
      /\ doc.servers \in [DOMAIN doc.servers -> ImportRows]
  BY <1>1, PartialFunction
<1>3. Compile(doc).creds \in Partial(Names, Secrets)
      /\ DOMAIN Compile(doc).creds = inline \cup DOMAIN doc.creds
  <2> DEFINE D == inline \cup DOMAIN doc.creds
             Data(c) == IF c \in DOMAIN doc.creds THEN doc.creds[c] ELSE doc.servers[c].data
  <2>1. D \in SUBSET Names
    BY <1>2 DEF Names
  <2>2. \A c \in D : Data(c) \in Secrets
    BY <1>2 DEF ImportRows
  <2>3. \A c \in D : Expand[Data(c)] \in Secrets
    BY <2>2, DeclarativeAssumption
  <2>4. Compile(doc).creds = [c \in D |-> Expand[Data(c)]]
    BY DEF Compile
  <2> HIDE DEF D, Data
  <2>5. Compile(doc).creds \in [D -> Secrets]
    BY <2>3, <2>4
  <2>6. QED
    BY <2>1, <2>5, PartialIntro DEF D
<1>4. Compile(doc).servers = [s \in DOMAIN doc.servers |->
            [cred |-> IF s \in inline THEN s ELSE None, enabled |-> doc.servers[s].enabled]]
  BY DEF Compile
<1>5. Compile(doc).servers \in [DOMAIN doc.servers -> ServerRows]
  BY <1>2, <1>4 DEF ServerRows, ImportRows, Names
<1>6. Compile(doc).servers \in Partial(ServerNames, ServerRows)
      /\ DOMAIN Compile(doc).servers = DOMAIN doc.servers
  BY <1>2, <1>5, PartialIntro
<1>7. Compile(doc).objs = doc.objs
  BY DEF Compile
<1>8. Compile(doc) \in Snapshots
  BY <1>1, <1>3, <1>6, <1>7 DEF Compile, Snapshots, ServerRows, ObjectKeys
<1>9. ASSUME Compiles(doc) PROVE Resolved(Compile(doc))
  <2>1. \A s \in DOMAIN Compile(doc).servers :
            Compile(doc).servers[s].cred \in DOMAIN Compile(doc).creds \cup {None, Unknown}
    BY <1>3, <1>4
  <2>2. \A k \in DOMAIN Compile(doc).objs : k[2] \in DOMAIN Compile(doc).servers
    BY <1>6, <1>7, <1>9 DEF Compiles
  <2>3. QED
    BY <2>1, <2>2 DEF Resolved
<1>10. QED
  BY <1>8, <1>9

(***************************************************************************)
(* The inductive invariant: a merge that waits to install has a snapshot   *)
(* without dangling references too, for it replaces data whatever happened *)
(* in between.                                                             *)
(***************************************************************************)

FileInv ==
    /\ FileTypeOK
    /\ RefsResolve
    /\ \A p \in Importers : merging[p].step = "install" => Resolved(merging[p].snap)

\* load returns a snapshot without a dangling reference, whatever is in the files.
LEMMA LoadedType ==
    ASSUME main \in Documents \cup {Absent}, other \in Documents \cup {Absent},
           left \in Documents \cup {Absent}
    PROVE  /\ Loaded \in Snapshots
           /\ Loads => Resolved(Loaded)
<1>1. \A file \in Documents \cup {Absent} : Read(file) \in ImporterDocs
  BY EmptyType, ToImporterType DEF Read
<1>2. left \in Documents \cup {Absent} /\ First \in Documents \cup {Absent}
      /\ Second \in Documents \cup {Absent}
  BY DEF First, Second
<1>3. Merge(Read(left), Read(First)) \in ImporterDocs
  BY <1>1, <1>2, MergeType
<1>4. Sources \in ImporterDocs
  BY <1>1, <1>2, <1>3, MergeType DEF Sources
<1>5. Compile(Sources) \in Snapshots /\ (Compiles(Sources) => Resolved(Compile(Sources)))
  BY <1>4, CompileType
<1>6. QED
  BY <1>5, EmptyType DEF Loaded, Loads

\* withLock, whether it persists or not, leaves the state typed and new as data.
LEMMA MutateType ==
    ASSUME FileTypeOK, NEW new \in Snapshots, Resolved(new), Mutate(new),
           merging' \in [Importers -> Merges]
    PROVE  FileTypeOK' /\ RefsResolve'
<1>1. Decompile(new) \in Documents
  BY DecompileType
<1>2. data' \in Snapshots /\ data' = new
  BY DEF Mutate
<1>3. main' \in Documents \cup {Absent} /\ other' \in Documents \cup {Absent}
      /\ left' \in Documents \cup {Absent} /\ acked' \in Snapshots
  BY <1>1 DEF Mutate, FileTypeOK
<1>4. ops' \in 0..MaxOps
  BY FileStoreAssumption DEF Mutate, FileTypeOK
<1>5. QED
  BY <1>2, <1>3, <1>4 DEF FileTypeOK, RefsResolve

\* The same for a mutation that is not the end of a merge.
LEMMA MutateKeeps ==
    ASSUME FileInv, NEW new \in Snapshots, Resolved(new), Mutate(new), UNCHANGED merging
    PROVE  FileInv'
<1>1. merging' \in [Importers -> Merges]
  BY DEF FileInv, FileTypeOK
<1>2. FileTypeOK' /\ RefsResolve'
  BY <1>1, MutateType DEF FileInv
<1>3. QED
  BY <1>2 DEF FileInv

\* What the parts of data are.
LEMMA DataParts ==
    ASSUME FileInv
    PROVE  /\ data \in Snapshots
           /\ data.creds \in Partial(Names, Secrets)
           /\ data.servers \in Partial(ServerNames, ServerRows)
           /\ data.objs \in Partial(ObjectKeys, Bodies)
           /\ Resolved(data)
BY DEF FileInv, FileTypeOK, RefsResolve, Snapshots, ServerRows, ObjectKeys

\* CreateCredential, and CreateServer with an inline credential.
LEMMA CreateCredentialKeeps ==
    ASSUME FileInv, NEW c \in CredNames, NEW x \in Secrets, CreateCredential(c, x)
    PROVE  FileInv'
<1> DEFINE creds == With(data.creds, c, x)
           new   == [data EXCEPT !.creds = creds]
<1>1. data.creds \in Partial(Names, Secrets) /\ c \in Names
  BY DataParts DEF Names
<1>2. creds \in Partial(Names, Secrets)
  BY <1>1, AddType
<1>3. DOMAIN creds = DOMAIN data.creds \cup {c}
  BY DEF With
<1>4. Mutate(new) /\ UNCHANGED merging
  BY DEF CreateCredential
<1> HIDE DEF creds
<1>5. new \in Snapshots /\ new.creds = creds /\ new.servers = data.servers
      /\ new.objs = data.objs
  BY <1>2, DataParts DEF Snapshots
<1>6. Resolved(new)
  BY <1>3, <1>5, DataParts DEF Resolved
<1> HIDE DEF new
<1>7. QED
  BY <1>4, <1>5, <1>6, MutateKeeps

\* DeleteCredential, which refuses while a server uses the credential.
LEMMA DeleteCredentialKeeps ==
    ASSUME FileInv, NEW c \in DOMAIN data.creds, DeleteCredential(c)
    PROVE  FileInv'
<1> DEFINE creds == Without(data.creds, {c})
           new   == [data EXCEPT !.creds = creds]
<1>1. data.creds \in Partial(Names, Secrets)
  BY DataParts
<1>2. creds \in Partial(Names, Secrets)
  BY <1>1, WithoutType
<1>3. DOMAIN creds = DOMAIN data.creds \ {c}
  BY DEF Without
<1>4. Mutate(new) /\ UNCHANGED merging
  BY DEF DeleteCredential
<1>5. \A s \in DOMAIN data.servers : data.servers[s].cred # c
  BY DEF DeleteCredential, Users
<1> HIDE DEF creds
<1>6. new \in Snapshots /\ new.creds = creds /\ new.servers = data.servers
      /\ new.objs = data.objs
  BY <1>2, DataParts DEF Snapshots
<1>7. Resolved(new)
  BY <1>3, <1>5, <1>6, DataParts DEF Resolved
<1> HIDE DEF new
<1>8. QED
  BY <1>4, <1>6, <1>7, MutateKeeps

\* CreateServer: its credentialRef is none, a credential, or no credential's.
LEMMA CreateServerKeeps ==
    ASSUME FileInv, NEW s \in ServerNames, NEW c \in Refs, NEW e \in BOOLEAN,
           CreateServer(s, c, e)
    PROVE  FileInv'
<1> DEFINE row     == [cred |-> c, enabled |-> e]
           servers == With(data.servers, s, row)
           new     == [data EXCEPT !.servers = servers]
<1>1. data.creds \in Partial(Names, Secrets) /\ data.servers \in Partial(ServerNames, ServerRows)
  BY DataParts
<1>2. DOMAIN data.creds \subseteq Names
  BY <1>1, PartialFunction
<1>3. row \in ServerRows
  BY <1>2 DEF Refs, ServerRows
<1>4. Mutate(new) /\ UNCHANGED merging
  BY DEF CreateServer
<1>5. DOMAIN servers = DOMAIN data.servers \cup {s}
      /\ \A n \in DOMAIN servers :
            servers[n].cred = IF n = s THEN c ELSE data.servers[n].cred
  BY DEF With
<1> HIDE DEF row
<1>6. servers \in Partial(ServerNames, ServerRows)
  BY <1>1, <1>3, AddType
<1> HIDE DEF servers
<1>7. new \in Snapshots /\ new.servers = servers /\ new.creds = data.creds
      /\ new.objs = data.objs
  BY <1>6, DataParts DEF Snapshots, ServerRows
<1>8. Resolved(new)
  BY <1>5, <1>7, DataParts DEF Resolved, Refs
<1> HIDE DEF new
<1>9. QED
  BY <1>4, <1>7, <1>8, MutateKeeps

\* UpdateServer keeps the credential when no other is given.
LEMMA UpdateServerKeeps ==
    ASSUME FileInv, NEW s \in ServerNames, NEW c \in Refs, NEW e \in BOOLEAN,
           UpdateServer(s, c, e)
    PROVE  FileInv'
<1> DEFINE row     == [cred |-> IF c = None THEN data.servers[s].cred ELSE c, enabled |-> e]
           servers == [data.servers EXCEPT ![s] = row]
           new     == [data EXCEPT !.servers = servers]
<1>1. data.creds \in Partial(Names, Secrets) /\ data.servers \in Partial(ServerNames, ServerRows)
      /\ s \in DOMAIN data.servers
  BY DataParts DEF UpdateServer
<1>2. DOMAIN data.creds \subseteq Names /\ data.servers[s] \in ServerRows
  BY <1>1, PartialFunction
<1>3. row \in ServerRows
  BY <1>2 DEF Refs, ServerRows
<1>4. Mutate(new) /\ UNCHANGED merging
  BY DEF UpdateServer
<1>5. row.cred \in DOMAIN data.creds \cup {None, Unknown}
  BY <1>1, DataParts DEF Resolved, Refs
<1> HIDE DEF row
<1>6. servers \in Partial(ServerNames, ServerRows)
  BY <1>1, <1>3, UpdateType
<1>7. DOMAIN servers = DOMAIN data.servers
      /\ \A n \in DOMAIN servers : servers[n] = IF n = s THEN row ELSE data.servers[n]
  BY <1>1
<1> HIDE DEF servers
<1>8. new \in Snapshots /\ new.servers = servers /\ new.creds = data.creds
      /\ new.objs = data.objs
  BY <1>6, DataParts DEF Snapshots, ServerRows
<1>9. Resolved(new)
  BY <1>5, <1>7, <1>8, DataParts DEF Resolved
<1> HIDE DEF new
<1>10. QED
  BY <1>4, <1>8, <1>9, MutateKeeps

\* DeleteServer takes the objects of the server with it.
LEMMA DeleteServerKeeps ==
    ASSUME FileInv, NEW s \in ServerNames, DeleteServer(s)
    PROVE  FileInv'
<1> DEFINE servers == Without(data.servers, {s})
           objs    == Without(data.objs, {o \in DOMAIN data.objs : o[2] = s})
           new     == [data EXCEPT !.servers = servers, !.objs = objs]
<1>1. data.servers \in Partial(ServerNames, ServerRows) /\ data.objs \in Partial(ObjectKeys, Bodies)
  BY DataParts
<1>2. servers \in Partial(ServerNames, ServerRows)
  BY <1>1, WithoutType
<1>3. objs \in Partial(ObjectKeys, Bodies)
  BY <1>1, WithoutType
<1>4. DOMAIN servers = DOMAIN data.servers \ {s}
      /\ \A n \in DOMAIN servers : servers[n] = data.servers[n]
  BY DEF Without
<1>5. \A k \in DOMAIN objs : k \in DOMAIN data.objs /\ k[2] # s
  BY DEF Without
<1>6. Mutate(new) /\ UNCHANGED merging
  BY DEF DeleteServer
<1> HIDE DEF servers, objs
<1>7. new \in Snapshots /\ new.servers = servers /\ new.creds = data.creds /\ new.objs = objs
  BY <1>2, <1>3, DataParts DEF Snapshots, ServerRows, ObjectKeys
<1>8. Resolved(new)
  BY <1>4, <1>5, <1>7, DataParts DEF Resolved
<1> HIDE DEF new
<1>9. QED
  BY <1>6, <1>7, <1>8, MutateKeeps

\* A change of the objects alone, of which each is on a server.
LEMMA ObjectsKeep ==
    ASSUME FileInv, NEW objs \in Partial(ObjectKeys, Bodies),
           \A k \in DOMAIN objs : k[2] \in DOMAIN data.servers,
           Mutate([data EXCEPT !.objs = objs]), UNCHANGED merging
    PROVE  FileInv'
<1> DEFINE new == [data EXCEPT !.objs = objs]
<1>1. new \in Snapshots /\ new.servers = data.servers /\ new.creds = data.creds
      /\ new.objs = objs
  BY DataParts DEF Snapshots, ObjectKeys
<1>2. Resolved(new)
  BY <1>1, DataParts DEF Resolved
<1>3. Mutate(new)
  OBVIOUS
<1> HIDE DEF new
<1>4. QED
  BY <1>1, <1>2, <1>3, MutateKeeps

\* CreateTable and CreateFunction.
LEMMA CreateObjectKeeps ==
    ASSUME FileInv, NEW o \in Objects, NEW s \in ServerNames, NEW b \in Bodies,
           CreateObject(o, s, b)
    PROVE  FileInv'
<1> DEFINE objs == With(data.objs, <<o, s>>, b)
<1>1. data.objs \in Partial(ObjectKeys, Bodies) /\ <<o, s>> \in ObjectKeys
  BY DataParts DEF ObjectKeys
<1>2. objs \in Partial(ObjectKeys, Bodies)
  BY <1>1, AddType
<1>3. DOMAIN objs = DOMAIN data.objs \cup {<<o, s>>}
  BY DEF With
<1>4. Mutate([data EXCEPT !.objs = objs]) /\ UNCHANGED merging /\ s \in DOMAIN data.servers
  BY DEF CreateObject
<1> HIDE DEF objs
<1>5. \A k \in DOMAIN objs : k[2] \in DOMAIN data.servers
  BY <1>3, <1>4, DataParts DEF Resolved
<1>6. QED
  BY <1>2, <1>4, <1>5, ObjectsKeep

\* UpdateTable, UpdateFunction and the column operations.
LEMMA UpdateObjectKeeps ==
    ASSUME FileInv, NEW k \in DOMAIN data.objs, NEW b \in Bodies, UpdateObject(k, b)
    PROVE  FileInv'
<1> DEFINE objs == [data.objs EXCEPT ![k] = b]
<1>1. data.objs \in Partial(ObjectKeys, Bodies)
  BY DataParts
<1>2. objs \in Partial(ObjectKeys, Bodies)
  BY <1>1, UpdateType
<1>3. DOMAIN objs = DOMAIN data.objs
  OBVIOUS
<1>4. Mutate([data EXCEPT !.objs = objs]) /\ UNCHANGED merging
  BY DEF UpdateObject
<1> HIDE DEF objs
<1>5. \A n \in DOMAIN objs : n[2] \in DOMAIN data.servers
  BY <1>3, DataParts DEF Resolved
<1>6. QED
  BY <1>2, <1>4, <1>5, ObjectsKeep

\* DeleteTable and DeleteFunction.
LEMMA DeleteObjectKeeps ==
    ASSUME FileInv, NEW k \in DOMAIN data.objs, DeleteObject(k)
    PROVE  FileInv'
<1> DEFINE objs == Without(data.objs, {k})
<1>1. data.objs \in Partial(ObjectKeys, Bodies)
  BY DataParts
<1>2. objs \in Partial(ObjectKeys, Bodies)
  BY <1>1, WithoutType
<1>3. DOMAIN objs = DOMAIN data.objs \ {k}
  BY DEF Without
<1>4. Mutate([data EXCEPT !.objs = objs]) /\ UNCHANGED merging
  BY DEF DeleteObject
<1> HIDE DEF objs
<1>5. \A n \in DOMAIN objs : n[2] \in DOMAIN data.servers
  BY <1>3, DataParts DEF Resolved
<1>6. QED
  BY <1>2, <1>4, <1>5, ObjectsKeep

(***************************************************************************)
(* Imports and restarts                                                    *)
(***************************************************************************)

\* ImportDeclarative that replaces.
LEMMA ImportReplaceKeeps ==
    ASSUME FileInv, NEW doc \in Imports, ImportReplace(doc)
    PROVE  FileInv'
<1>1. doc \in ImporterDocs
  BY FileStoreAssumption
<1>2. Compile(doc) \in Snapshots /\ Resolved(Compile(doc))
  BY <1>1, CompileType DEF ImportReplace
<1>3. QED
  BY <1>2, MutateKeeps DEF ImportReplace

\* The unlocked read of a merge.
LEMMA MergeReadKeeps ==
    ASSUME FileInv, NEW p \in Importers, NEW doc \in Imports, MergeRead(p, doc)
    PROVE  FileInv'
<1> DEFINE m == [step |-> "objects", doc |-> doc, base |-> data, snap |-> Empty]
<1>1. doc \in ImporterDocs
  BY FileStoreAssumption
<1>2. m \in Merges /\ m.step = "objects"
  BY <1>1, EmptyType, DataParts DEF Merges
<1>3. merging' = [merging EXCEPT ![p] = m]
  BY DEF MergeRead
<1> HIDE DEF m
<1>4. merging' \in [Importers -> Merges]
      /\ \A q \in Importers : merging'[q] = IF q = p THEN m ELSE merging[q]
  BY <1>2, <1>3 DEF FileInv, FileTypeOK
<1>5. FileTypeOK' /\ RefsResolve'
  BY <1>4 DEF FileInv, FileTypeOK, MergeRead, RefsResolve
<1>6. QED
  BY <1>2, <1>4, <1>5 DEF FileInv

\* What a merge compiled waits without the mutex.
LEMMA MergeCompileKeeps ==
    ASSUME FileInv, NEW p \in Importers, MergeCompile(p)
    PROVE  FileInv'
<1> DEFINE read   == [merging[p].base EXCEPT !.objs = data.objs]
           merged == Merge(ToImporter(Decompile(read)), merging[p].doc)
           m      == IF Compiles(merged)
                     THEN [merging[p] EXCEPT !.step = "install", !.base = read,
                                             !.snap = Compile(merged)]
                     ELSE Idle
<1>1. merging[p] \in Merges
  BY DEF FileInv, FileTypeOK
<1>2. read \in Snapshots
  BY <1>1, DataParts DEF Merges, Snapshots
<1> HIDE DEF read
<1>3. Decompile(read) \in Documents
  BY <1>2, DecompileType
<1>4. ToImporter(Decompile(read)) \in ImporterDocs
  BY <1>3, ToImporterType
<1>5. merged \in ImporterDocs
  BY <1>1, <1>4, MergeType DEF Merges
<1>6. merging' = [merging EXCEPT ![p] = m]
  BY DEF MergeCompile, read
<1> HIDE DEF merged
<1>7. Compile(merged) \in Snapshots /\ (Compiles(merged) => Resolved(Compile(merged)))
  BY <1>5, CompileType
<1>8. m \in Merges /\ (m.step = "install" => Resolved(m.snap))
  <2>1. CASE Compiles(merged)
    BY <2>1, <1>1, <1>2, <1>7 DEF Merges
  <2>2. CASE ~Compiles(merged)
    BY <2>2, EmptyType DEF Merges, Idle
  <2>3. QED
    BY <2>1, <2>2
<1> HIDE DEF m
<1>9. merging' \in [Importers -> Merges]
      /\ \A q \in Importers : merging'[q] = IF q = p THEN m ELSE merging[q]
  BY <1>6, <1>8 DEF FileInv, FileTypeOK
<1>10. FileTypeOK' /\ RefsResolve'
  BY <1>9 DEF FileInv, FileTypeOK, MergeCompile, RefsResolve
<1>11. QED
  BY <1>8, <1>9, <1>10 DEF FileInv

\* The end of a merge, whatever happened to data since it was read.
LEMMA MergeInstallKeeps ==
    ASSUME FileInv, NEW p \in Importers, MergeInstall(p)
    PROVE  FileInv'
<1>1. merging[p].snap \in Snapshots /\ Resolved(merging[p].snap)
  BY DEF FileInv, FileTypeOK, Merges, MergeInstall
<1>2. Idle \in Merges /\ Idle.step = "idle"
  BY EmptyType DEF Merges, Idle
<1>3. merging' = [merging EXCEPT ![p] = Idle] /\ Mutate(merging[p].snap)
  BY DEF MergeInstall
<1>4. merging' \in [Importers -> Merges]
      /\ \A q \in Importers : merging'[q] = IF q = p THEN Idle ELSE merging[q]
  BY <1>2, <1>3 DEF FileInv, FileTypeOK
<1>5. FileTypeOK' /\ RefsResolve'
  BY <1>1, <1>3, <1>4, MutateType DEF FileInv
<1>6. QED
  BY <1>2, <1>4, <1>5 DEF FileInv

\* New, at the start and after a crash.
LEMMA RestartKeeps ==
    ASSUME FileInv, Restart
    PROVE  FileInv'
<1>1. Loaded \in Snapshots /\ Resolved(Loaded)
  BY LoadedType DEF FileInv, FileTypeOK, Restart
<1>2. Idle \in Merges /\ Idle.step = "idle"
  BY EmptyType DEF Merges, Idle
<1>3. merging' \in [Importers -> Merges] /\ \A p \in Importers : merging'[p].step = "idle"
  BY <1>2 DEF Restart
<1>4. FileTypeOK' /\ RefsResolve'
  BY <1>1, <1>3 DEF FileInv, FileTypeOK, RefsResolve, Restart
<1>5. QED
  BY <1>3, <1>4 DEF FileInv

LEMMA EmptyDocument == Empty \in Documents
<1>1. Empty.creds = Nothing /\ Empty.servers = Nothing /\ Empty.objs = Nothing
      /\ DOMAIN Nothing = {}
  BY DEF Empty, Nothing
<1>2. \A S, T : Nothing \in Partial(S, T)
  BY <1>1 DEF Partial, Nothing
<1>3. QED
  BY <1>2 DEF Empty, Documents

\* New on the files of an initial state.
LEMMA InitInv == Init => FileInv
<1> SUFFICES ASSUME Init PROVE FileInv
  OBVIOUS
<1>1. Idle \in Merges /\ Idle.step = "idle"
  BY EmptyType DEF Merges, Idle
<1>2. merging \in [Importers -> Merges] /\ \A p \in Importers : merging[p].step = "idle"
  BY <1>1 DEF Init
<1>3. Loaded \in Snapshots /\ Resolved(Loaded)
  <2>1. main \in Documents \cup {Absent} /\ other \in Documents \cup {Absent}
        /\ left \in Documents \cup {Absent}
    BY FileStoreAssumption, EmptyDocument DEF Init
  <2>2. QED
    BY <2>1, LoadedType DEF Init
<1>4. FileTypeOK
  BY <1>2, <1>3, FileStoreAssumption, EmptyDocument DEF Init, FileTypeOK
<1>5. QED
  BY <1>2, <1>3, <1>4 DEF FileInv, RefsResolve, Init

\* FileInv is inductive.
LEMMA StepInv == FileInv /\ [Next]_vars => FileInv'
<1> SUFFICES ASSUME FileInv, [Next]_vars PROVE FileInv'
  OBVIOUS
<1>1. CASE Restart
  BY <1>1, RestartKeeps
<1>2. ASSUME NEW c \in CredNames, NEW x \in Secrets,
             CreateCredential(c, x) \/ CreateServerInline(c, x)
      PROVE  FileInv'
  BY <1>2, CreateCredentialKeeps DEF CreateServerInline
<1>3. ASSUME NEW c \in DOMAIN data.creds, DeleteCredential(c) PROVE FileInv'
  BY <1>3, DeleteCredentialKeeps
<1>4. ASSUME NEW s \in ServerNames, NEW c \in Refs, NEW e \in BOOLEAN,
             CreateServer(s, c, e) \/ UpdateServer(s, c, e)
      PROVE  FileInv'
  BY <1>4, CreateServerKeeps, UpdateServerKeeps
<1>5. ASSUME NEW s \in ServerNames, DeleteServer(s) PROVE FileInv'
  BY <1>5, DeleteServerKeeps
<1>6. ASSUME NEW o \in Objects, NEW s \in ServerNames, NEW b \in Bodies, CreateObject(o, s, b)
      PROVE  FileInv'
  BY <1>6, CreateObjectKeeps
<1>7. ASSUME NEW k \in DOMAIN data.objs,
             DeleteObject(k) \/ \E b \in Bodies : UpdateObject(k, b)
      PROVE  FileInv'
  BY <1>7, DeleteObjectKeeps, UpdateObjectKeeps
<1>8. ASSUME NEW doc \in Imports,
             ImportReplace(doc) \/ \E p \in Importers : MergeRead(p, doc)
      PROVE  FileInv'
  BY <1>8, ImportReplaceKeeps, MergeReadKeeps
<1>9. ASSUME NEW p \in Importers, MergeCompile(p) \/ MergeInstall(p) PROVE FileInv'
  BY <1>9, MergeCompileKeeps, MergeInstallKeeps
<1>10. CASE UNCHANGED vars
  BY <1>10 DEF vars, FileInv, FileTypeOK, RefsResolve
<1>11. QED
  BY <1>1, <1>2, <1>3, <1>4, <1>5, <1>6, <1>7, <1>8, <1>9, <1>10 DEF Next

(***************************************************************************)
(* Theorems                                                                *)
(***************************************************************************)

\* Every snapshot the store ever has is of the type its readers expect, and
\* every file it writes is a document New can read.
THEOREM FileTypeCorrect == Spec => []FileTypeOK
BY InitInv, StepInv, PTL DEF Spec, FileInv

\* No sequence of mutations, failed writes, racing merges and restarts leaves an
\* object without its server or a server without the credential it names.
THEOREM ReferencesResolve == Spec => []RefsResolve
BY InitInv, StepInv, PTL DEF Spec, FileInv

(***************************************************************************)
(* What writing a snapshot and reading it again makes of it                *)
(***************************************************************************)

\* The parts of a snapshot and of an importer document.
LEMMA SnapshotParts ==
    ASSUME NEW snap \in Snapshots
    PROVE  /\ DOMAIN snap.creds \subseteq Names /\ snap.creds \in [DOMAIN snap.creds -> Secrets]
           /\ DOMAIN snap.servers \subseteq ServerNames
           /\ snap.servers \in [DOMAIN snap.servers -> ServerRows]
           /\ snap.objs \in [DOMAIN snap.objs -> Bodies]
<1>1. snap.creds \in Partial(Names, Secrets) /\ snap.servers \in Partial(ServerNames, ServerRows)
      /\ snap.objs \in Partial(ObjectKeys, Bodies)
  BY DEF Snapshots, ServerRows, ObjectKeys
<1>2. QED
  BY <1>1, PartialFunction

LEMMA ImporterParts ==
    ASSUME NEW doc \in ImporterDocs
    PROVE  /\ doc = [creds |-> doc.creds, servers |-> doc.servers, objs |-> doc.objs]
           /\ DOMAIN doc.creds \subseteq Names /\ doc.creds \in [DOMAIN doc.creds -> Secrets]
           /\ DOMAIN doc.servers \subseteq ServerNames
           /\ doc.servers \in [DOMAIN doc.servers -> ImportRows]
           /\ doc.objs \in [DOMAIN doc.objs -> Bodies]
<1>1. doc.creds \in Partial(Names, Secrets) /\ doc.servers \in Partial(ServerNames, ImportRows)
      /\ doc.objs \in Partial(ObjectKeys, Bodies)
  BY DEF ImporterDocs, ImportRows, ObjectKeys
<1>2. QED
  BY <1>1, PartialFunction DEF ImporterDocs

\* What compileDeclarative keeps of a document.
LEMMA CompileKeeps ==
    ASSUME NEW doc \in ImporterDocs
    PROVE  /\ Compile(doc).objs = doc.objs
           /\ DOMAIN Compile(doc).servers = DOMAIN doc.servers
           /\ \A s \in DOMAIN doc.servers :
                Compile(doc).servers[s].enabled = doc.servers[s].enabled
BY DEF Compile

\* The secret a server has is its inline one, or that of the top-level credential of
\* its name, expanded; without an inline secret it has none.
LEMMA CompiledEntry ==
    ASSUME NEW doc \in ImporterDocs, NEW s \in DOMAIN doc.servers
    PROVE  SecretOf(Compile(doc), s) =
             IF doc.servers[s].data = None THEN None
             ELSE Expand[IF s \in DOMAIN doc.creds THEN doc.creds[s] ELSE doc.servers[s].data]
<1> DEFINE inline == {n \in DOMAIN doc.servers : doc.servers[n].data # None}
<1>1. DOMAIN Compile(doc).creds = inline \cup DOMAIN doc.creds
  BY DEF Compile
<1>2. CASE s \in inline
  <2>1. Compile(doc).servers[s].cred = s
    BY <1>2 DEF Compile
  <2>2. Compile(doc).creds[s] =
          Expand[IF s \in DOMAIN doc.creds THEN doc.creds[s] ELSE doc.servers[s].data]
    BY <1>2 DEF Compile
  <2>3. QED
    BY <1>1, <1>2, <2>1, <2>2 DEF SecretOf
<1>3. CASE s \notin inline
  <2>1. Compile(doc).servers[s].cred = None
    BY <1>3 DEF Compile
  <2>2. None \notin DOMAIN Compile(doc).creds
    BY <1>1, ImporterParts, DeclarativeAssumption DEF Names
  <2>3. QED
    BY <1>3, <2>1, <2>2 DEF SecretOf
<1>4. QED
  BY <1>2, <1>3

LEMMA CompiledSecret ==
    ASSUME NEW doc \in ImporterDocs, NEW s \in DOMAIN doc.servers \ DOMAIN doc.creds
    PROVE  SecretOf(Compile(doc), s) = Stored(doc, s)
BY CompiledEntry DEF Stored

\* What decompileDeclarative keeps of a snapshot whose objects are on servers.
LEMMA DecompileKeeps ==
    ASSUME NEW snap \in Snapshots, Resolved(snap)
    PROVE  LET doc == ToImporter(Decompile(snap)) IN
           /\ doc \in ImporterDocs /\ Compiles(doc)
           /\ doc.objs = snap.objs
           /\ DOMAIN doc.servers = DOMAIN snap.servers
           /\ \A s \in DOMAIN snap.servers : doc.servers[s].enabled = snap.servers[s].enabled
<1> DEFINE doc == ToImporter(Decompile(snap))
<1>1. doc \in ImporterDocs
  BY DecompileType, ToImporterType
<1>2. doc.objs = Without(snap.objs, {o \in DOMAIN snap.objs : o[2] \notin DOMAIN snap.servers})
  BY DEF ToImporter, Decompile
<1>3. {o \in DOMAIN snap.objs : o[2] \notin DOMAIN snap.servers} = {}
  BY DEF Resolved
<1>4. doc.objs = snap.objs
  BY <1>2, <1>3, SnapshotParts DEF Without
<1>5. DOMAIN doc.servers = DOMAIN snap.servers
      /\ \A s \in DOMAIN snap.servers : doc.servers[s].enabled = snap.servers[s].enabled
  BY DEF ToImporter, Decompile
<1>6. Compiles(doc)
  BY <1>4, <1>5 DEF Compiles, Resolved
<1>7. QED
  BY <1>1, <1>4, <1>5, <1>6

\* Where no two servers share a credential, each secret is written inline.
LEMMA DecompiledSecret ==
    ASSUME NEW snap \in Snapshots, NoneShared(snap), NEW s \in DOMAIN snap.servers
    PROVE  LET doc == ToImporter(Decompile(snap)) IN
           /\ DOMAIN doc.creds = {}
           /\ doc.servers[s].data = SecretOf(snap, s)
           /\ Stored(doc, s) = Reloaded(snap, s)
<1> DEFINE doc == ToImporter(Decompile(snap))
           c   == snap.servers[s].cred
<1>1. DOMAIN doc.creds = {}
  BY DEF ToImporter, Decompile, NoneShared
<1>2. doc.servers[s].data = IF c \in DOMAIN snap.creds /\ Private(snap, c)
                            THEN snap.creds[c] ELSE None
  BY DEF ToImporter, Decompile
<1>3. c \in DOMAIN snap.creds => Private(snap, c)
  <2>1. SUFFICES ASSUME c \in DOMAIN snap.creds PROVE Users(snap, c) = {s}
    BY DEF Private, Users
  <2>2. s \in Users(snap, c)
    BY DEF Users
  <2>3. QED
    BY <2>1, <2>2 DEF NoneShared, Shared
<1>4. doc.servers[s].data = SecretOf(snap, s)
  BY <1>2, <1>3 DEF SecretOf
<1>5. QED
  BY <1>1, <1>4 DEF Stored, Reloaded

(***************************************************************************)
(* What decompileDeclarative writes compiles, to a snapshot with the same  *)
(* servers, enabled as they were, and the same objects; each server has    *)
(* its secret, expanded once more, where no two servers share one.         *)
(***************************************************************************)
THEOREM RoundTrip ==
    ASSUME NEW snap \in Snapshots, Resolved(snap)
    PROVE  LET doc == ToImporter(Decompile(snap))
               d   == Compile(doc) IN
           /\ Compiles(doc)
           /\ d.objs = snap.objs
           /\ DOMAIN d.servers = DOMAIN snap.servers
           /\ \A s \in DOMAIN d.servers : SameServer(snap, d, s)
           /\ NoneShared(snap) => \A s \in DOMAIN d.servers : SecretOf(d, s) = Reloaded(snap, s)
<1>1. PICK doc : doc = ToImporter(Decompile(snap))
  OBVIOUS
<1>2. /\ doc \in ImporterDocs /\ Compiles(doc) /\ doc.objs = snap.objs
      /\ DOMAIN doc.servers = DOMAIN snap.servers
      /\ \A s \in DOMAIN snap.servers : doc.servers[s].enabled = snap.servers[s].enabled
  BY <1>1, DecompileKeeps
<1>3. /\ Compile(doc).objs = doc.objs /\ DOMAIN Compile(doc).servers = DOMAIN doc.servers
      /\ \A s \in DOMAIN doc.servers : Compile(doc).servers[s].enabled = doc.servers[s].enabled
  BY <1>2, CompileKeeps
<1>4. \A s \in DOMAIN snap.servers : SameServer(snap, Compile(doc), s)
  BY <1>2, <1>3 DEF SameServer
<1>5. ASSUME NoneShared(snap), NEW s \in DOMAIN snap.servers
      PROVE  SecretOf(Compile(doc), s) = Reloaded(snap, s)
  <2>1. DOMAIN doc.creds = {} /\ Stored(doc, s) = Reloaded(snap, s)
    BY <1>1, <1>5, DecompiledSecret
  <2>2. SecretOf(Compile(doc), s) = Stored(doc, s)
    BY <1>2, <2>1, CompiledSecret
  <2>3. QED
    BY <2>1, <2>2
<1>6. QED
  BY <1>1, <1>2, <1>3, <1>4, <1>5


(***************************************************************************)
(* Acknowledged mutations                                                  *)
(***************************************************************************)

\* The empty document compiles, and merging it changes nothing.
LEMMA MergeEmpty ==
    ASSUME NEW doc \in ImporterDocs
    PROVE  Merge(Empty, doc) = doc /\ Merge(doc, Empty) = doc /\ Compiles(Empty)
<1>1. DOMAIN Nothing = {}
  BY DEF Nothing
<1>2. ASSUME NEW T, NEW D, NEW f \in [D -> T]
      PROVE  Overlay(Nothing, f) = f /\ Overlay(f, Nothing) = f
  BY <1>1, <1>2 DEF Overlay
<1>3. QED
  BY <1>1, <1>2, ImporterParts DEF Merge, Empty, Compiles

\* What load makes of the files when l is the temporary file.
SourcesOf(l) == Merge(Merge(Read(l), Read(First)), Read(Second))
EndsOf(l)    == \E file \in {main, other, l} \ {Absent} : ~IsDeclarative(file)
LoadsOf(l)   == EndsOf(l) \/ Compiles(SourcesOf(l))
LoadedOf(l)  == IF EndsOf(l) THEN Empty ELSE Compile(SourcesOf(l))

\* Written: main is the last acknowledged snapshot.  Read: it was loaded, perhaps
\* before the temporary file was left.
Settled ==
    \/ main = Decompile(acked)
    \/ \E l \in {Absent, left} : LoadsOf(l) /\ acked = LoadedOf(l)

LeftCompiles == left # Absent => Compiles(left)

AckedInv == Resolved(acked) /\ Settled /\ LeftCompiles

\* What a step does to the files: nothing, a mutation that is persisted or fails
\* with its temporary file left behind, or a load.
Persists == acked' = data' /\ main' = Decompile(data') /\ UNCHANGED <<other, left>>
Leaves   == left = Absent /\ Compiles(left') /\ UNCHANGED <<main, other, acked>>
Loading  == Loads /\ acked' = Loaded /\ UNCHANGED <<main, other, left>>

LEMMA LoadOfLeft == Loads = LoadsOf(left) /\ Loaded = LoadedOf(left)
BY DEF Loads, Loaded, Ends, Sources, LoadsOf, LoadedOf, EndsOf, SourcesOf

\* Of decompileDeclarative's documents every object is on a server.
LEMMA DecompiledCompiles == \A snap : Compiles(Decompile(snap))
BY DEF Compiles, Decompile, Without

LEMMA FileSteps ==
    ASSUME [Next]_vars
    PROVE  \/ UNCHANGED <<main, other, left, acked>>
           \/ Persists
           \/ Leaves
           \/ Loading /\ acked' = data'
<1>1. ASSUME NEW new, Mutate(new)
      PROVE  UNCHANGED <<main, other, left, acked>> \/ Persists \/ Leaves
  <2>1. data' = new /\ UNCHANGED other
    BY <1>1 DEF Mutate
  <2>2. Compiles(Decompile(new))
    BY DecompiledCompiles
  <2>3. QED
    BY <1>1, <2>1, <2>2 DEF Mutate, Persists, Leaves
<1>2. CASE \E new : Mutate(new)
  BY <1>1, <1>2
<1>3. CASE Restart
  BY <1>3 DEF Restart, Loading
<1>4. CASE \E p \in Importers : MergeCompile(p) \/ \E doc \in Imports : MergeRead(p, doc)
  BY <1>4 DEF MergeRead, MergeCompile
<1>5. CASE UNCHANGED vars
  BY <1>5 DEF vars
<1>6. QED
  BY <1>2, <1>3, <1>4, <1>5
     DEF Next, CreateCredential, CreateServerInline, DeleteCredential, CreateServer, UpdateServer,
         DeleteServer, CreateObject, UpdateObject, DeleteObject, ImportReplace, MergeInstall

LEMMA AckedInit == Init => AckedInv
<1> SUFFICES ASSUME Init PROVE AckedInv
  OBVIOUS
<1>1. Resolved(data)
  BY InitInv DEF FileInv, RefsResolve
<1>2. Compiles(Empty)
  BY MergeEmpty, EmptyType
<1>3. QED
  BY <1>1, <1>2, LoadOfLeft DEF Init, AckedInv, Settled, LeftCompiles

LEMMA AckedStep == FileInv /\ AckedInv /\ [Next]_vars => AckedInv'
<1> SUFFICES ASSUME FileInv, AckedInv, [Next]_vars PROVE AckedInv'
  OBVIOUS
<1>1. Resolved(data)'
  BY StepInv DEF FileInv, RefsResolve
<1>2. ASSUME UNCHANGED <<main, other>>, NEW l
      PROVE  LoadsOf(l)' = LoadsOf(l) /\ LoadedOf(l)' = LoadedOf(l)
  BY <1>2 DEF LoadsOf, LoadedOf, EndsOf, SourcesOf, First, Second
<1>3. CASE UNCHANGED <<main, other, left, acked>>
  <2>1. Settled'
    BY <1>2, <1>3 DEF AckedInv, Settled
  <2>2. QED
    BY <1>3, <2>1 DEF AckedInv, LeftCompiles, Resolved
<1>4. CASE Persists
  BY <1>1, <1>4 DEF Persists, AckedInv, Settled, LeftCompiles, Resolved
<1>5. CASE Leaves
  <2>1. Settled'
    BY <1>2, <1>5 DEF Leaves, AckedInv, Settled
  <2>2. QED
    BY <1>5, <2>1 DEF Leaves, AckedInv, LeftCompiles, Resolved
<1>6. CASE Loading /\ acked' = data'
  <2>1. LoadsOf(left) /\ acked' = LoadedOf(left) /\ UNCHANGED <<main, other, left>>
    BY <1>6, LoadOfLeft DEF Loading
  <2>2. Settled'
    BY <1>2, <2>1 DEF Settled
  <2>3. QED
    BY <1>1, <1>6, <2>1, <2>2 DEF AckedInv, LeftCompiles, Resolved
<1>7. QED
  BY <1>3, <1>4, <1>5, <1>6, FileSteps

\* f has the entries of base, but for those of after, and else only what beside has.
Keeps(f, base, after, beside) ==
    /\ \A x \in DOMAIN base \ DOMAIN after : x \in DOMAIN f /\ f[x] = base[x]
    /\ DOMAIN f \subseteq DOMAIN base \cup DOMAIN beside

Extends(src, base, after, beside) ==
    /\ Keeps(src.objs, base.objs, after.objs, beside.objs)
    /\ Keeps(src.servers, base.servers, after.servers, beside.servers)
    /\ Keeps(src.creds, base.creds, after.creds, beside.creds)
    /\ DOMAIN after.creds \subseteq DOMAIN beside.creds

\* What compiles to snap still does, but for what is after and beside.
LEMMA ExtendedCompiles ==
    ASSUME NEW src \in ImporterDocs, NEW base \in ImporterDocs, NEW after, NEW beside,
           Extends(src, base, after, beside)
    PROVE  LET d == Compile(src)
               snap == Compile(base) IN
           /\ \A k \in DOMAIN snap.objs \ DOMAIN after.objs :
                k \in DOMAIN d.objs /\ d.objs[k] = snap.objs[k]
           /\ \A s \in DOMAIN snap.servers \ DOMAIN after.servers :
                /\ SameServer(snap, d, s)
                /\ s \notin DOMAIN beside.creds => SecretOf(d, s) = SecretOf(snap, s)
           /\ DOMAIN d.objs \subseteq DOMAIN snap.objs \cup DOMAIN beside.objs
           /\ DOMAIN d.servers \subseteq DOMAIN snap.servers \cup DOMAIN beside.servers
<1>1. PICK d, snap : d = Compile(src) /\ snap = Compile(base)
  OBVIOUS
<1>2. /\ d.objs = src.objs /\ DOMAIN d.servers = DOMAIN src.servers
      /\ \A s \in DOMAIN src.servers : d.servers[s].enabled = src.servers[s].enabled
      /\ snap.objs = base.objs /\ DOMAIN snap.servers = DOMAIN base.servers
      /\ \A s \in DOMAIN base.servers : snap.servers[s].enabled = base.servers[s].enabled
  BY <1>1, CompileKeeps
<1>3. ASSUME NEW s \in DOMAIN snap.servers \ DOMAIN after.servers
      PROVE  /\ SameServer(snap, d, s)
             /\ s \notin DOMAIN beside.creds => SecretOf(d, s) = SecretOf(snap, s)
  <2>1. s \in DOMAIN base.servers /\ s \in DOMAIN src.servers /\ src.servers[s] = base.servers[s]
    BY <1>2, <1>3 DEF Extends, Keeps
  <2>2. SameServer(snap, d, s)
    BY <1>2, <2>1 DEF SameServer
  <2>3. ASSUME s \notin DOMAIN beside.creds
        PROVE  SecretOf(d, s) = SecretOf(snap, s)
    <3>1. /\ s \in DOMAIN src.creds <=> s \in DOMAIN base.creds
          /\ s \in DOMAIN src.creds => src.creds[s] = base.creds[s]
      BY <2>3 DEF Extends, Keeps
    <3>2. QED
      BY <1>1, <2>1, <3>1, CompiledEntry
  <2>4. QED
    BY <2>2, <2>3
<1>4. QED
  BY <1>1, <1>2, <1>3 DEF Extends, Keeps

\* Of three functions overlaid the later ones win.
LEMMA OverlayThree ==
    \A l, m, o :
        /\ Keeps(Overlay(Overlay(l, m), o), m, o, Overlay(l, o))
        /\ Keeps(Overlay(Overlay(l, m), o), o, Nothing, Overlay(l, m))
        /\ Keeps(Overlay(Overlay(l, m), o), Overlay(m, o), Nothing, Overlay(l, o))
        /\ Keeps(Overlay(Overlay(l, m), o), Overlay(m, o), Nothing, Overlay(l, m))
        /\ DOMAIN o \subseteq DOMAIN Overlay(l, o)
<1> SUFFICES ASSUME NEW l, NEW m, NEW o
             PROVE  LET all == Overlay(Overlay(l, m), o) IN
                    /\ Keeps(all, m, o, Overlay(l, o)) /\ Keeps(all, o, Nothing, Overlay(l, m))
                    /\ Keeps(all, Overlay(m, o), Nothing, Overlay(l, o))
                    /\ Keeps(all, Overlay(m, o), Nothing, Overlay(l, m))
                    /\ DOMAIN o \subseteq DOMAIN Overlay(l, o)
  OBVIOUS
<1>1. PICK lm, lo, mo, all : /\ lm = Overlay(l, m) /\ lo = Overlay(l, o) /\ mo = Overlay(m, o)
                             /\ all = Overlay(Overlay(l, m), o)
  OBVIOUS
<1>2. /\ DOMAIN lm = DOMAIN l \cup DOMAIN m /\ DOMAIN lo = DOMAIN l \cup DOMAIN o
      /\ DOMAIN mo = DOMAIN m \cup DOMAIN o
      /\ \A x \in DOMAIN lm : lm[x] = IF x \in DOMAIN m THEN m[x] ELSE l[x]
      /\ \A x \in DOMAIN mo : mo[x] = IF x \in DOMAIN o THEN o[x] ELSE m[x]
  BY <1>1 DEF Overlay
<1>3. /\ DOMAIN all = DOMAIN lm \cup DOMAIN o
      /\ \A x \in DOMAIN all : all[x] = IF x \in DOMAIN o THEN o[x] ELSE lm[x]
  BY <1>1 DEF Overlay
<1>4. QED
  BY <1>1, <1>2, <1>3 DEF Keeps

\* Three documents merged extend the second, but for what the third has, the third,
\* and the merge of both.
LEMMA MergeExtends ==
    ASSUME NEW l, NEW m, NEW o
    PROVE  /\ Extends(Merge(Merge(l, m), o), m, o, Merge(l, o))
           /\ Extends(Merge(Merge(l, m), o), o, Empty, Merge(l, m))
           /\ Extends(Merge(Merge(l, m), o), Merge(m, o), Empty, Merge(l, o))
           /\ Extends(Merge(Merge(l, m), o), Merge(m, o), Empty, Merge(l, m))
<1>1. \A a, b : /\ Merge(a, b).creds = Overlay(a.creds, b.creds)
                /\ Merge(a, b).servers = Overlay(a.servers, b.servers)
                /\ Merge(a, b).objs = Overlay(a.objs, b.objs)
  BY DEF Merge
<1>2. /\ Empty.creds = Nothing /\ Empty.servers = Nothing /\ Empty.objs = Nothing
      /\ DOMAIN Nothing = {}
  BY DEF Empty, Nothing
<1>3. Extends(Merge(Merge(l, m), o), m, o, Merge(l, o))
  BY <1>1, OverlayThree DEF Extends
<1>4. Extends(Merge(Merge(l, m), o), o, Empty, Merge(l, m))
  BY <1>1, <1>2, OverlayThree DEF Extends
<1>5. Extends(Merge(Merge(l, m), o), Merge(m, o), Empty, Merge(l, o))
  BY <1>1, <1>2, OverlayThree DEF Extends
<1>6. Extends(Merge(Merge(l, m), o), Merge(m, o), Empty, Merge(l, m))
  BY <1>1, <1>2, OverlayThree DEF Extends
<1>7. QED
  BY <1>3, <1>4, <1>5, <1>6

LEMMA MergeCompiles ==
    ASSUME NEW l, NEW m, NEW o, Compiles(l),
           (Compiles(m) /\ Compiles(o)) \/ Compiles(Merge(m, o))
    PROVE  Compiles(Merge(Merge(l, m), o))
BY DEF Compiles, Merge, Overlay

\* What AckedSurvives asks of the snapshot d that is loaded.
Survives(d, snap, after, beside) ==
    /\ \A k \in DOMAIN snap.objs \ DOMAIN after.objs :
         k \in DOMAIN d.objs /\ d.objs[k] = snap.objs[k]
    /\ \A s \in DOMAIN snap.servers \ DOMAIN after.servers :
         /\ SameServer(snap, d, s)
         /\ NoneShared(snap) /\ s \notin DOMAIN beside.creds =>
              SecretOf(d, s) = IF main = Decompile(snap) THEN Reloaded(snap, s)
                               ELSE SecretOf(snap, s)
    /\ DOMAIN d.objs \subseteq DOMAIN snap.objs \cup DOMAIN beside.objs
    /\ DOMAIN d.servers \subseteq DOMAIN snap.servers \cup DOMAIN beside.servers

\* After a mutation that was persisted.
LEMMA WrittenSurvives ==
    ASSUME NEW snap \in Snapshots, Resolved(snap), main = Decompile(snap),
           NEW src \in ImporterDocs, NEW after, NEW beside,
           Extends(src, ToImporter(main), after, beside)
    PROVE  Survives(Compile(src), snap, after, beside)
<1>1. PICK base, d, d0 : base = ToImporter(main) /\ d = Compile(src) /\ d0 = Compile(base)
  OBVIOUS
<1>2. /\ base \in ImporterDocs /\ d0.objs = snap.objs
      /\ DOMAIN d0.servers = DOMAIN snap.servers
      /\ \A s \in DOMAIN d0.servers : SameServer(snap, d0, s)
      /\ NoneShared(snap) => \A s \in DOMAIN d0.servers : SecretOf(d0, s) = Reloaded(snap, s)
  BY <1>1, RoundTrip, DecompileKeeps
<1>3. /\ \A k \in DOMAIN d0.objs \ DOMAIN after.objs :
           k \in DOMAIN d.objs /\ d.objs[k] = d0.objs[k]
      /\ \A s \in DOMAIN d0.servers \ DOMAIN after.servers :
           /\ SameServer(d0, d, s)
           /\ s \notin DOMAIN beside.creds => SecretOf(d, s) = SecretOf(d0, s)
      /\ DOMAIN d.objs \subseteq DOMAIN d0.objs \cup DOMAIN beside.objs
      /\ DOMAIN d.servers \subseteq DOMAIN d0.servers \cup DOMAIN beside.servers
  BY <1>1, <1>2, ExtendedCompiles
<1>4. \A s \in DOMAIN snap.servers \ DOMAIN after.servers : SameServer(snap, d, s)
  BY <1>2, <1>3 DEF SameServer
<1>5. QED
  BY <1>1, <1>2, <1>3, <1>4 DEF Survives

\* After a load, though a temporary file was left since.
LEMMA ReadSurvives ==
    ASSUME NEW base \in ImporterDocs, NEW src \in ImporterDocs, NEW after, NEW beside,
           Extends(src, base, Empty, beside), main # Decompile(Compile(base))
    PROVE  Survives(Compile(src), Compile(base), after, beside)
<1>1. PICK d, d0 : d = Compile(src) /\ d0 = Compile(base)
  OBVIOUS
<1>2. DOMAIN Empty.objs = {} /\ DOMAIN Empty.servers = {}
  BY DEF Empty, Nothing
<1>3. /\ \A k \in DOMAIN d0.objs : k \in DOMAIN d.objs /\ d.objs[k] = d0.objs[k]
      /\ \A s \in DOMAIN d0.servers :
           /\ SameServer(d0, d, s)
           /\ s \notin DOMAIN beside.creds => SecretOf(d, s) = SecretOf(d0, s)
      /\ DOMAIN d.objs \subseteq DOMAIN d0.objs \cup DOMAIN beside.objs
      /\ DOMAIN d.servers \subseteq DOMAIN d0.servers \cup DOMAIN beside.servers
  BY <1>1, <1>2, ExtendedCompiles
<1>4. QED
  BY <1>1, <1>3 DEF Survives

\* Of itself everything survives.
LEMMA SameSurvives ==
    ASSUME NEW snap, NEW after, NEW beside, main # Decompile(snap)
    PROVE  Survives(snap, snap, after, beside)
BY DEF Survives, SameServer

\* What the files are merged to extends drivers.yaml and what was read before a
\* temporary file was left, and compiles if they did.
LEMMA SourcesExtend ==
    ASSUME main \in Documents \cup {Absent}, other \in Documents \cup {Absent},
           left \in Documents \cup {Absent}, LeftCompiles
    PROVE  LET after  == IF OtherLast THEN Read(other) ELSE Empty
               beside == Merge(Read(left), Read(other)) IN
           /\ Sources \in ImporterDocs /\ SourcesOf(Absent) \in ImporterDocs
           /\ Extends(Sources, Read(main), after, beside)
           /\ Extends(Sources, SourcesOf(Absent), Empty, beside)
           /\ (Compiles(Read(main)) /\ Compiles(Read(other))) \/ Compiles(SourcesOf(Absent)) =>
                Compiles(Sources)
<1>1. \A file \in Documents \cup {Absent} :
        Read(file) \in ImporterDocs /\ (file = Absent \/ Compiles(file) => Compiles(Read(file)))
  <2>1. ASSUME NEW file \in Documents
        PROVE  ToImporter(file) \in ImporterDocs /\ (Compiles(file) => Compiles(ToImporter(file)))
    BY ToImporterType DEF Compiles, ToImporter
  <2>2. QED
    BY <2>1, EmptyType, MergeEmpty DEF Read
<1>2. PICK l, m, o : l = Read(left) /\ m = Read(main) /\ o = Read(other)
  OBVIOUS
<1>3. /\ l \in ImporterDocs /\ m \in ImporterDocs /\ o \in ImporterDocs
      /\ Compiles(l) /\ Read(Absent) = Empty
  BY <1>1, <1>2 DEF LeftCompiles, Read
<1>4. CASE OtherLast
  <2>1. Sources = Merge(Merge(l, m), o)
    BY <1>2, <1>4 DEF Sources, First, Second
  <2>2. SourcesOf(Absent) = Merge(m, o)
    BY <1>2, <1>3, <1>4, MergeEmpty DEF SourcesOf, First, Second
  <2>3. Sources \in ImporterDocs /\ SourcesOf(Absent) \in ImporterDocs
    BY <1>3, <2>1, <2>2, MergeType
  <2>4. (Compiles(m) /\ Compiles(o)) \/ Compiles(SourcesOf(Absent)) => Compiles(Sources)
    BY <1>3, <2>1, <2>2, MergeCompiles
  <2>5. QED
    BY <1>2, <1>3, <1>4, <2>1, <2>2, <2>3, <2>4, MergeExtends
<1>5. CASE ~OtherLast
  <2>1. Sources = Merge(Merge(l, o), m)
    BY <1>2, <1>5 DEF Sources, First, Second
  <2>2. SourcesOf(Absent) = Merge(o, m)
    BY <1>2, <1>3, <1>5, MergeEmpty DEF SourcesOf, First, Second
  <2>3. Sources \in ImporterDocs /\ SourcesOf(Absent) \in ImporterDocs
    BY <1>3, <2>1, <2>2, MergeType
  <2>4. (Compiles(m) /\ Compiles(o)) \/ Compiles(SourcesOf(Absent)) => Compiles(Sources)
    BY <1>3, <2>1, <2>2, MergeCompiles
  <2>5. QED
    BY <1>2, <1>3, <1>5, <2>1, <2>2, <2>3, <2>4, MergeExtends
<1>6. QED
  BY <1>4, <1>5

(***************************************************************************)
(* Any crash, whatever mutations, failed writes and merges came before it, *)
(* leaves files that load to the servers, objects and secrets that were    *)
(* last acknowledged: decompile, merge and compile lose nothing but what   *)
(* servers share.  A file beside drivers.yaml, the operator's or one a     *)
(* failed write left, adds what it has, and overrides if it comes after;   *)
(* one without entries, Hidden, is the exception: it takes everything.     *)
(***************************************************************************)
THEOREM AcknowledgedSurvives == Spec => []AckedSurvives
<1>1. ASSUME FileInv, AckedInv
      PROVE  AckedSurvives
  <2> DEFINE after  == IF OtherLast THEN Read(other) ELSE Empty
             beside == Merge(Read(left), Read(other))
  <2>0. Ends => Loads /\ Loaded = Empty
    BY DEF Loads, Loaded
  <2>1. SUFFICES ASSUME ~Hidden
        PROVE  /\ Loads \/ ~Compiles(Read(other))
               /\ Loads => Survives(Loaded, acked, after, beside)
    BY <2>0 DEF AckedSurvives, Survives, Hidden, Ends
  <2>2. /\ acked \in Snapshots /\ Resolved(acked) /\ Settled /\ LeftCompiles
        /\ main \in Documents \cup {Absent} /\ other \in Documents \cup {Absent}
        /\ left \in Documents \cup {Absent}
    BY <1>1 DEF FileInv, FileTypeOK, AckedInv
  <2>3. CASE main = Decompile(acked) /\ ~Ends
    <3>1. /\ Loads => Compiles(Sources)
          /\ Loaded = Compile(Sources) /\ (Compiles(Sources) => Loads)
      BY <2>3 DEF Loaded, Loads
    <3>2. Read(main) = ToImporter(main) /\ Compiles(Read(main))
      <4>1. main # Absent /\ Compiles(main)
        BY <2>2, <2>3, DecompileType, DecompiledCompiles, FileStoreAssumption
      <4>2. QED
        BY <4>1 DEF Read, Compiles, ToImporter
    <3>3. QED
      BY <2>2, <2>3, <3>1, <3>2, SourcesExtend, WrittenSurvives
  <2>4. CASE main = Decompile(acked) /\ Ends
    <3>1. DOMAIN main.servers = {} /\ DOMAIN main.objs = {}
      BY <2>1, <2>4 DEF Ends, Hidden, IsDeclarative
    <3>2. ToImporter(main).objs = acked.objs
          /\ DOMAIN ToImporter(main).servers = DOMAIN acked.servers
      BY <2>2, <2>4, DecompileKeeps
    <3>3. DOMAIN acked.servers = {} /\ DOMAIN acked.objs = {}
      BY <3>1, <3>2 DEF ToImporter
    <3>4. Loads /\ Loaded = Empty /\ DOMAIN Empty.objs = {} /\ DOMAIN Empty.servers = {}
      BY <2>4, <2>0 DEF Empty, Nothing
    <3>5. QED
      BY <3>3, <3>4 DEF Survives
  <2>5. CASE main # Decompile(acked)
    <3>1. PICK l \in {Absent, left} : LoadsOf(l) /\ acked = LoadedOf(l)
      BY <2>2, <2>5 DEF Settled
    <3>2. CASE l = left
      BY <2>5, <3>1, <3>2, LoadOfLeft, SameSurvives
    <3>3. CASE l = Absent /\ EndsOf(Absent)
      <4>1. Loads /\ Loaded = acked
        BY <2>0, <3>1, <3>3 DEF Ends, EndsOf, LoadedOf
      <4>2. QED
        BY <2>5, <4>1, SameSurvives
    <3>4. CASE l = Absent /\ ~EndsOf(Absent)
      <4>1. ~Ends
        BY <2>1, <3>4 DEF Ends, EndsOf, Hidden
      <4>2. acked = Compile(SourcesOf(Absent)) /\ Compiles(SourcesOf(Absent))
        BY <3>1, <3>4 DEF LoadsOf, LoadedOf
      <4>3. Loaded = Compile(Sources) /\ (Compiles(Sources) => Loads)
        BY <4>1 DEF Loaded, Loads
      <4>4. QED
        BY <2>2, <2>5, <4>2, <4>3, SourcesExtend, ReadSurvives
    <3>5. QED
      BY <3>1, <3>2, <3>3, <3>4
  <2>6. QED
    BY <2>3, <2>4, <2>5
<1>2. QED
  BY <1>1, InitInv, StepInv, AckedInit, AckedStep, PTL DEF Spec


(***************************************************************************)
(* Merges                                                                  *)
(***************************************************************************)

\* A merge that waits to install has the document merged into what it read.
Waiting(m) ==
    m.step = "install" => m.snap = Compile(Merge(ToImporter(Decompile(m.base)), m.doc))

MergeInv == \A p \in Importers : Waiting(merging[p])

LEMMA IdleWaits == Waiting(Idle)
BY DEF Waiting, Idle

LEMMA MergeStep == FileInv /\ MergeInv /\ [Next]_vars => MergeInv'
<1> SUFFICES ASSUME FileInv, MergeInv, [Next]_vars PROVE MergeInv'
  OBVIOUS
<1>1. merging \in [Importers -> Merges]
  BY DEF FileInv, FileTypeOK
<1>2. CASE UNCHANGED merging
  BY <1>2 DEF MergeInv
<1>3. CASE merging' = [p \in Importers |-> Idle]
  BY <1>3, IdleWaits DEF MergeInv
<1>4. ASSUME NEW p \in Importers, NEW m, Waiting(m), merging' = [merging EXCEPT ![p] = m]
      PROVE  MergeInv'
  <2>1. \A q \in Importers : merging'[q] = m \/ merging'[q] = merging[q]
    BY <1>1, <1>4
  <2>2. QED
    BY <1>4, <2>1 DEF MergeInv
<1>5. ASSUME NEW p \in Importers, NEW doc \in Imports, MergeRead(p, doc)
      PROVE  MergeInv'
  <2> DEFINE m == [step |-> "objects", doc |-> doc, base |-> data, snap |-> Empty]
  <2>1. merging' = [merging EXCEPT ![p] = m] /\ m.step # "install"
    BY <1>5 DEF MergeRead
  <2> HIDE DEF m
  <2>2. QED
    BY <1>4, <2>1 DEF Waiting
<1>6. ASSUME NEW p \in Importers, MergeCompile(p)
      PROVE  MergeInv'
  <2>1. PICK read : read = [merging[p].base EXCEPT !.objs = data.objs]
    OBVIOUS
  <2>2. PICK merged : merged = Merge(ToImporter(Decompile(read)), merging[p].doc)
    OBVIOUS
  <2>3. PICK m : m = IF Compiles(merged)
                     THEN [merging[p] EXCEPT !.step = "install", !.base = read,
                                             !.snap = Compile(merged)]
                     ELSE Idle
    OBVIOUS
  <2>4. merging' = [merging EXCEPT ![p] = m]
    BY <1>6, <2>1, <2>2, <2>3 DEF MergeCompile
  <2>5. CASE Compiles(merged)
    <3>1. merging[p] \in Merges
      BY <1>1
    <3>2. m.base = read /\ m.snap = Compile(merged) /\ m.doc = merging[p].doc
      BY <2>3, <2>5, <3>1 DEF Merges
    <3>3. QED
      BY <1>4, <2>2, <2>4, <3>2 DEF Waiting
  <2>6. CASE ~Compiles(merged)
    BY <1>4, <2>3, <2>4, <2>6, IdleWaits
  <2>7. QED
    BY <2>5, <2>6
<1>7. ASSUME NEW p \in Importers, MergeInstall(p)
      PROVE  MergeInv'
  BY <1>4, <1>7, IdleWaits DEF MergeInstall
<1>8. CASE Restart
  BY <1>3, <1>8 DEF Restart
<1>9. QED
  BY <1>2, <1>5, <1>6, <1>7, <1>8
     DEF Next, CreateCredential, CreateServerInline, DeleteCredential, CreateServer, UpdateServer,
         DeleteServer, CreateObject, UpdateObject, DeleteObject, ImportReplace, vars

\* What MergeKeepsTheRest says of a merge of doc into old that leaves new.
Merged(old, doc, new) ==
    /\ \A s \in DOMAIN doc.servers : SameServer(doc, new, s)
    /\ \A s \in DOMAIN old.servers \ DOMAIN doc.servers : SameServer(old, new, s)
    /\ NoneShared(old) => \A s \in DOMAIN new.servers \ DOMAIN doc.creds :
         SecretOf(new, s) = IF s \in DOMAIN doc.servers THEN Stored(doc, s)
                            ELSE Reloaded(old, s)
    /\ \A k \in DOMAIN old.objs \cup DOMAIN doc.objs :
         k \in DOMAIN new.objs
         /\ new.objs[k] = IF k \in DOMAIN doc.objs THEN doc.objs[k] ELSE old.objs[k]

LEMMA MergeAddsOnly ==
    ASSUME NEW old \in Snapshots, Resolved(old), NEW doc \in ImporterDocs
    PROVE  Merged(old, doc, Compile(Merge(ToImporter(Decompile(old)), doc)))
<1>1. PICK base : base = ToImporter(Decompile(old))
  OBVIOUS
<1>2. /\ base \in ImporterDocs /\ base.objs = old.objs
      /\ DOMAIN base.servers = DOMAIN old.servers
      /\ \A s \in DOMAIN old.servers : base.servers[s].enabled = old.servers[s].enabled
  BY <1>1, DecompileKeeps
<1>3. PICK merged : merged = Merge(base, doc)
  OBVIOUS
<1>4. /\ merged \in ImporterDocs
      /\ merged.creds = Overlay(base.creds, doc.creds)
      /\ merged.servers = Overlay(base.servers, doc.servers)
      /\ merged.objs = Overlay(base.objs, doc.objs)
  BY <1>2, <1>3, MergeType DEF Merge
<1>5. PICK new : new = Compile(merged)
  OBVIOUS
<1>6. /\ new.objs = merged.objs /\ DOMAIN new.servers = DOMAIN merged.servers
      /\ \A s \in DOMAIN merged.servers : new.servers[s].enabled = merged.servers[s].enabled
  BY <1>4, <1>5, CompileKeeps
<1>7. /\ DOMAIN merged.servers = DOMAIN old.servers \cup DOMAIN doc.servers
      /\ \A s \in DOMAIN merged.servers :
           merged.servers[s] = IF s \in DOMAIN doc.servers THEN doc.servers[s] ELSE base.servers[s]
  BY <1>2, <1>4 DEF Overlay
<1>8. \A s \in DOMAIN doc.servers : SameServer(doc, new, s)
  BY <1>6, <1>7 DEF SameServer
<1>9. \A s \in DOMAIN old.servers \ DOMAIN doc.servers : SameServer(old, new, s)
  BY <1>2, <1>6, <1>7 DEF SameServer
<1>10. ASSUME NoneShared(old), NEW s \in DOMAIN new.servers \ DOMAIN doc.creds
       PROVE  SecretOf(new, s) = IF s \in DOMAIN doc.servers THEN Stored(doc, s)
                                 ELSE Reloaded(old, s)
  <2>1. base.creds = ToImporter(Decompile(old)).creds
    BY <1>1
  <2>2. \A n \in DOMAIN old.servers : DOMAIN base.creds = {} /\ Stored(base, n) = Reloaded(old, n)
    BY <1>1, <1>10, DecompiledSecret
  <2>3. DOMAIN base.creds = {}
    BY <1>10, <2>1 DEF ToImporter, Decompile, NoneShared
  <2>4. DOMAIN merged.creds = DOMAIN doc.creds
    BY <1>4, <2>3 DEF Overlay
  <2>5. s \in DOMAIN merged.servers \ DOMAIN merged.creds
    BY <1>6, <1>10, <2>4
  <2>6. SecretOf(new, s) = Stored(merged, s)
    BY <1>4, <1>5, <2>5, CompiledSecret
  <2>7. s \in DOMAIN doc.servers => Stored(merged, s) = Stored(doc, s)
    BY <1>7, <2>5 DEF Stored
  <2>8. s \notin DOMAIN doc.servers => s \in DOMAIN old.servers /\ Stored(merged, s) = Stored(base, s)
    BY <1>7, <2>5 DEF Stored
  <2>9. QED
    BY <2>2, <2>6, <2>7, <2>8
<1>11. \A k \in DOMAIN old.objs \cup DOMAIN doc.objs :
         k \in DOMAIN new.objs
         /\ new.objs[k] = IF k \in DOMAIN doc.objs THEN doc.objs[k] ELSE old.objs[k]
  BY <1>2, <1>4, <1>6 DEF Overlay
<1>12. Merged(old, doc, new)
  BY <1>8, <1>9, <1>10, <1>11 DEF Merged
<1>13. QED
  BY <1>1, <1>3, <1>5, <1>12

(***************************************************************************)
(* A merge that nothing changes the metadata under gives the document's    *)
(* servers and objects what the document says and keeps every other one,   *)
(* with its secret: the way through Decompile, Merge and Compile, for any  *)
(* snapshot, any document and any number of merges that race.              *)
(***************************************************************************)
THEOREM MergesKeepTheRest == Spec => MergeKeepsTheRest
<1>1. ASSUME FileInv, MergeInv, NEW p \in Importers, MergeInstall(p), data = merging[p].base
      PROVE  Merged(data, merging[p].doc, data')
  <2>1. data \in Snapshots /\ Resolved(data) /\ merging[p] \in Merges
    BY <1>1 DEF FileInv, FileTypeOK, RefsResolve
  <2>2. merging[p].doc \in ImporterDocs
    BY <2>1 DEF Merges
  <2>3. data' = Compile(Merge(ToImporter(Decompile(data)), merging[p].doc))
    BY <1>1 DEF MergeInstall, Mutate, MergeInv, Waiting
  <2>4. QED
    BY <2>1, <2>2, <2>3, MergeAddsOnly
<1>2. Init => MergeInv
  BY IdleWaits DEF Init, MergeInv
<1>3. FileInv /\ MergeInv =>
        [\A p \in Importers : (MergeInstall(p) /\ data = merging[p].base) =>
            Merged(data, merging[p].doc, data')]_vars
  BY <1>1
<1>4. Spec => [][\A p \in Importers : (MergeInstall(p) /\ data = merging[p].base) =>
                    Merged(data, merging[p].doc, data')]_vars
  BY <1>2, <1>3, InitInv, StepInv, MergeStep, PTL DEF Spec
<1>5. QED
  BY <1>4 DEF MergeKeepsTheRest, Merged

\* compileDeclarative gives every server a credential of its own.
LEMMA CompiledUnshared ==
    ASSUME NEW doc \in ImporterDocs
    PROVE  NoneShared(Compile(doc))
<1>1. SUFFICES ASSUME NEW c \in DOMAIN Compile(doc).creds PROVE ~Shared(Compile(doc), c)
  BY DEF NoneShared
<1>2. c # None
  BY ImporterParts, DeclarativeAssumption DEF Compile, Names
<1>3. \A s \in Users(Compile(doc), c) : c = s
  BY <1>2 DEF Users, Compile
<1>4. QED
  BY <1>3 DEF Shared

(***************************************************************************)
(* A merge import that is sent again, because its answer was lost, changes *)
(* no server and no object, and no secret the document or a credential of  *)
(* it gives; the others are expanded once more, as after a restart.        *)
(***************************************************************************)
THEOREM RetriedMergeSettles ==
    ASSUME NEW snap \in Snapshots, Resolved(snap), NEW doc \in ImporterDocs,
           Compiles(Merge(ToImporter(Decompile(snap)), doc))
    PROVE  LET merged(old) == Merge(ToImporter(Decompile(old)), doc)
               once  == Compile(merged(snap))
               twice == Compile(merged(once)) IN
           /\ Compiles(merged(once))
           /\ twice.objs = once.objs
           /\ DOMAIN twice.servers = DOMAIN once.servers
           /\ \A s \in DOMAIN once.servers : SameServer(once, twice, s)
           /\ NoneShared(snap) => \A s \in DOMAIN once.servers :
                SecretOf(twice, s) = IF s \in DOMAIN doc.servers \cup DOMAIN doc.creds
                                     THEN SecretOf(once, s) ELSE Reloaded(once, s)
<1>1. PICK old1, m1, once, old2, m2, twice :
        /\ old1 = ToImporter(Decompile(snap)) /\ m1 = Merge(old1, doc) /\ once = Compile(m1)
        /\ old2 = ToImporter(Decompile(once)) /\ m2 = Merge(old2, doc) /\ twice = Compile(m2)
  OBVIOUS
<1>2. old1 \in ImporterDocs /\ m1 \in ImporterDocs /\ Compiles(m1)
  BY <1>1, DecompileKeeps, MergeType
<1>3. once \in Snapshots /\ Resolved(once) /\ NoneShared(once)
  BY <1>1, <1>2, CompileType, CompiledUnshared
<1>4. /\ old2 \in ImporterDocs /\ Compiles(old2) /\ old2.objs = once.objs
      /\ DOMAIN old2.servers = DOMAIN once.servers
      /\ \A s \in DOMAIN once.servers : old2.servers[s].enabled = once.servers[s].enabled
  BY <1>1, <1>3, DecompileKeeps
<1>5. m2 \in ImporterDocs
  BY <1>1, <1>4, MergeType
<1>6. /\ once.objs = m1.objs /\ DOMAIN once.servers = DOMAIN m1.servers
      /\ \A s \in DOMAIN m1.servers : once.servers[s].enabled = m1.servers[s].enabled
      /\ twice.objs = m2.objs /\ DOMAIN twice.servers = DOMAIN m2.servers
      /\ \A s \in DOMAIN m2.servers : twice.servers[s].enabled = m2.servers[s].enabled
  BY <1>1, <1>2, <1>5, CompileKeeps
<1>7. /\ m1.objs = Overlay(old1.objs, doc.objs) /\ m2.objs = Overlay(old2.objs, doc.objs)
      /\ m1.servers = Overlay(old1.servers, doc.servers)
      /\ m2.servers = Overlay(old2.servers, doc.servers)
      /\ m1.creds = Overlay(old1.creds, doc.creds) /\ m2.creds = Overlay(old2.creds, doc.creds)
  BY <1>1 DEF Merge
<1>8. \A f, g : Overlay(Overlay(f, g), g) = Overlay(f, g)
  BY DEF Overlay
<1>9. m2.objs = m1.objs
  BY <1>4, <1>6, <1>7, <1>8
<1>10. DOMAIN m2.servers = DOMAIN m1.servers
       /\ \A s \in DOMAIN m1.servers : m2.servers[s].enabled = m1.servers[s].enabled
  <2>1. DOMAIN m2.servers = DOMAIN m1.servers
    <3>1. DOMAIN m1.servers = DOMAIN old1.servers \cup DOMAIN doc.servers
      BY <1>7 DEF Overlay
    <3>2. DOMAIN m2.servers = DOMAIN old2.servers \cup DOMAIN doc.servers
      BY <1>7 DEF Overlay
    <3>3. QED
      BY <1>4, <1>6, <3>1, <3>2
  <2>2. ASSUME NEW s \in DOMAIN m1.servers
        PROVE  m2.servers[s].enabled = m1.servers[s].enabled
    <3>1. CASE s \in DOMAIN doc.servers
      BY <1>7, <3>1 DEF Overlay
    <3>2. CASE s \notin DOMAIN doc.servers
      <4>1. m2.servers[s] = old2.servers[s]
        BY <1>4, <1>6, <1>7, <3>2 DEF Overlay
      <4>2. QED
        BY <1>4, <1>6, <4>1
    <3>3. QED
      BY <3>1, <3>2
  <2>3. QED
    BY <2>1, <2>2
<1>11. Compiles(m2)
  BY <1>2, <1>9, <1>10 DEF Compiles
<1>12. \A s \in DOMAIN once.servers : SameServer(once, twice, s)
  BY <1>6, <1>10 DEF SameServer
<1>13. ASSUME NoneShared(snap), NEW s \in DOMAIN once.servers
       PROVE  SecretOf(twice, s) = IF s \in DOMAIN doc.servers \cup DOMAIN doc.creds
                                   THEN SecretOf(once, s) ELSE Reloaded(once, s)
  <2>1. DOMAIN old1.creds = {} /\ DOMAIN old2.creds = {} /\ old2.servers[s].data = SecretOf(once, s)
    <3>1. DOMAIN old1.creds = {}
      BY <1>1, <1>13 DEF ToImporter, Decompile, NoneShared
    <3>2. QED
      BY <1>1, <1>3, <3>1, DecompiledSecret
  <2>2. /\ DOMAIN m1.creds = DOMAIN doc.creds /\ DOMAIN m2.creds = DOMAIN doc.creds
        /\ s \in DOMAIN doc.creds => m1.creds[s] = doc.creds[s] /\ m2.creds[s] = doc.creds[s]
    BY <1>7, <2>1 DEF Overlay
  <2>3. /\ s \in DOMAIN m1.servers /\ s \in DOMAIN m2.servers
        /\ s \in DOMAIN doc.servers => m1.servers[s] = doc.servers[s] /\ m2.servers[s] = doc.servers[s]
        /\ s \notin DOMAIN doc.servers => m2.servers[s] = old2.servers[s]
    BY <1>6, <1>7, <1>10 DEF Overlay
  <2>4. SecretOf(once, s) =
          IF m1.servers[s].data = None THEN None
          ELSE Expand[IF s \in DOMAIN m1.creds THEN m1.creds[s] ELSE m1.servers[s].data]
    BY <1>1, <1>2, <2>3, CompiledEntry
  <2>5. SecretOf(twice, s) =
          IF m2.servers[s].data = None THEN None
          ELSE Expand[IF s \in DOMAIN m2.creds THEN m2.creds[s] ELSE m2.servers[s].data]
    BY <1>1, <1>5, <2>3, CompiledEntry
  <2>6. CASE s \in DOMAIN doc.servers
    BY <2>2, <2>3, <2>4, <2>5, <2>6
  <2>7. CASE s \notin DOMAIN doc.servers /\ s \in DOMAIN doc.creds
    <3>1. SecretOf(once, s) = None <=> m1.servers[s].data = None
      <4>1. doc.creds[s] \in Secrets /\ s \in DOMAIN m1.creds /\ m1.creds[s] \in Secrets
        BY <2>2, <2>7, ImporterParts
      <4>2. Expand[m1.creds[s]] \in Secrets
        BY <4>1, DeclarativeAssumption
      <4>3. QED
        BY <2>4, <4>1, <4>2, DeclarativeAssumption
    <3>2. QED
      BY <2>1, <2>2, <2>3, <2>4, <2>5, <2>7, <3>1
  <2>8. CASE s \notin DOMAIN doc.servers /\ s \notin DOMAIN doc.creds
    BY <2>1, <2>2, <2>3, <2>5, <2>8 DEF Reloaded
  <2>9. QED
    BY <2>6, <2>7, <2>8
<1>14. QED
  BY <1>1, <1>6, <1>9, <1>10, <1>11, <1>12, <1>13

=============================================================================

----------------------------- MODULE FileStore -----------------------------
(***************************************************************************)
(* internal/store/file: the metadata store behind drivers.yaml.  A         *)
(* mutation changes the snapshot in memory under the mutex and then        *)
(* rewrites the file (temporary file and rename); when that fails the      *)
(* caller gets the error but the snapshot keeps the change.  A restart     *)
(* reads the file, or every YAML file of the directory, merges them and    *)
(* compiles the result.                                                    *)
(***************************************************************************)
EXTENDS Declarative, Integers

CONSTANTS
    Importers,    \* goroutines that run ImportDeclarative
    Imports,      \* documents they import
    Files,        \* contents drivers.yaml may have when it is first read, or Absent
    OtherFiles,   \* contents of the other file of the directory, {Absent} for a file
    OtherLast,    \* the other file sorts after drivers.yaml
    Directory,    \* the store is opened on a directory, not on a file
    MaxOps,       \* bound on mutations
    Absent        \* no such file

ASSUME FileStoreAssumption ==
    /\ Imports \subseteq ImporterDocs
    /\ Files \subseteq Documents \cup {Absent}
    /\ OtherFiles \subseteq Documents \cup {Absent}
    /\ Absent \notin Documents
    /\ OtherLast \in BOOLEAN /\ Directory \in BOOLEAN
    /\ MaxOps \in Nat

VARIABLES
    data,     \* Store.data
    main,     \* content of persistPath
    other,    \* content of the other YAML file
    left,     \* content of a temporary file a failed write left behind
    ops,      \* mutations so far
    merging,  \* merging[p]: the merge p is computing outside the mutex
    acked     \* data at the last load or mutation that returned no error (history)

vars == <<data, main, other, left, ops, merging, acked>>

Idle == [step |-> "idle", doc |-> Empty, base |-> Empty, snap |-> Empty]

Merges == [step : {"idle", "objects", "install"}, doc : ImporterDocs,
           base : Snapshots, snap : Snapshots]

FileTypeOK ==
    /\ data \in Snapshots
    /\ main \in Documents \cup {Absent} /\ other \in Documents \cup {Absent}
    /\ left \in Documents \cup {Absent} /\ ops \in 0..MaxOps
    /\ merging \in [Importers -> Merges]
    /\ acked \in Snapshots

(***************************************************************************)
(* Faults a change to this code could introduce; no action uses them.      *)
(***************************************************************************)

DeleteCredentialUnchecked(c) ==
    /\ c \in DOMAIN data.creds
    /\ ops < MaxOps /\ ops' = ops + 1
    /\ data' = [data EXCEPT !.creds = Without(@, {c})]
    /\ main' = Decompile(data') /\ acked' = data'
    /\ UNCHANGED <<other, left, merging>>

(***************************************************************************)
(* New and load                                                            *)
(***************************************************************************)

\* readDeclarativeSources: the files in the order of their names; that of a
\* temporary file, .meta-*.yaml, comes first.
First  == IF OtherLast THEN main ELSE other
Second == IF OtherLast THEN other ELSE main

Read(file) == IF file = Absent THEN Empty ELSE ToImporter(file)

Sources == Merge(Merge(Read(left), Read(First)), Read(Second))

\* A file that does not look declarative is taken for a stored snapshot and
\* ends load: what was read before it or would come after is dropped.  A
\* document without any entry is such a file.
Ends == \E file \in {main, other, left} \ {Absent} : ~IsDeclarative(file)

Loads == Ends \/ Compiles(Sources)

Loaded == IF Ends THEN Empty ELSE Compile(Sources)

\* New.  Where it finds no file it writes one without entries; an earlier New
\* that died at the rename of that write has left it under its temporary name.
Init ==
    /\ main \in Files /\ other \in OtherFiles
    /\ left = Absent \/ (Directory /\ left = Empty)
    /\ \E file \in {main, other, left} : file # Absent
    /\ Loads
    /\ data = Loaded /\ acked = Loaded
    /\ ops = 0
    /\ merging = [p \in Importers |-> Idle]

\* The process dies at any moment and New runs again.
Restart ==
    /\ Loads
    /\ data' = Loaded /\ acked' = Loaded
    /\ merging' = [p \in Importers |-> Idle]
    /\ UNCHANGED <<main, other, left, ops>>

(***************************************************************************)
(* Mutations                                                               *)
(***************************************************************************)

\* withLock: the mutation, then persistLocked.  That may fail before the
\* temporary file is complete, which is then removed, or at the rename, or the
\* process dies there; then the temporary file stays (bound: one such file, and
\* none where only drivers.yaml is read).  A process that dies in the middle of
\* writing it, and leaves a part, is left out.
Mutate(new) ==
    /\ ops < MaxOps /\ ops' = ops + 1
    /\ data' = new
    /\ \/ main' = Decompile(new) /\ acked' = new /\ UNCHANGED left
       \/ UNCHANGED <<main, acked, left>>
       \/ /\ Directory /\ left = Absent
          /\ left' = Decompile(new)
          /\ UNCHANGED <<main, acked>>
    /\ UNCHANGED other

CreateCredential(c, x) ==
    /\ c \notin DOMAIN data.creds
    /\ Mutate([data EXCEPT !.creds = With(@, c, x)])
    /\ UNCHANGED merging

DeleteCredential(c) ==
    /\ c \in DOMAIN data.creds
    /\ Users(data, c) = {}
    /\ Mutate([data EXCEPT !.creds = Without(@, {c})])
    /\ UNCHANGED merging

\* A credentialRef is stored as it comes.
Refs == DOMAIN data.creds \cup {None, Unknown}

CreateServer(s, c, e) ==
    /\ s \notin DOMAIN data.servers
    /\ Mutate([data EXCEPT !.servers = With(@, s, [cred |-> c, enabled |-> e])])
    /\ UNCHANGED merging

\* With an inline credential CreateServer stores that, finds that it now has
\* both a reference and a credential, and returns an error.
CreateServerInline(c, x) == CreateCredential(c, x)

UpdateServer(s, c, e) ==
    /\ s \in DOMAIN data.servers
    /\ Mutate([data EXCEPT !.servers[s] = [cred |-> IF c = None THEN @.cred ELSE c,
                                           enabled |-> e]])
    /\ UNCHANGED merging

\* The tables, columns and functions of the server go too, not its credential.
DeleteServer(s) ==
    /\ s \in DOMAIN data.servers
    /\ Mutate([data EXCEPT !.servers = Without(@, {s}),
                           !.objs = Without(@, {o \in DOMAIN @ : o[2] = s})])
    /\ UNCHANGED merging

\* CreateTable, CreateFunction: the name is free on every server.
CreateObject(o, s, b) ==
    /\ s \in DOMAIN data.servers
    /\ \A k \in DOMAIN data.objs : k[1] # o
    /\ Mutate([data EXCEPT !.objs = With(@, <<o, s>>, b)])
    /\ UNCHANGED merging

\* UpdateTable, UpdateFunction, and the column operations.
UpdateObject(k, b) ==
    /\ k \in DOMAIN data.objs
    /\ Mutate([data EXCEPT !.objs[k] = b])
    /\ UNCHANGED merging

DeleteObject(k) ==
    /\ k \in DOMAIN data.objs
    /\ Mutate([data EXCEPT !.objs = Without(@, {k})])
    /\ UNCHANGED merging

(***************************************************************************)
(* ImportDeclarative                                                       *)
(***************************************************************************)

ImportReplace(doc) ==
    /\ Compiles(doc)
    /\ Mutate(Compile(doc))
    /\ UNCHANGED merging

\* Merge mode reads s.data without the mutex.  That races with the mutations, so
\* the parts of what it reads may come from before and after another one's; the
\* tables and functions, read last, stand for them here.
MergeRead(p, doc) ==
    /\ merging[p].step = "idle" /\ ops < MaxOps
    /\ merging' = [merging EXCEPT ![p] =
                     [step |-> "objects", doc |-> doc, base |-> data, snap |-> Empty]]
    /\ UNCHANGED <<data, main, other, left, ops, acked>>

MergeCompile(p) ==
    LET read == [merging[p].base EXCEPT !.objs = data.objs]
        merged == Merge(ToImporter(Decompile(read)), merging[p].doc) IN
    /\ merging[p].step = "objects" /\ ops < MaxOps
    /\ merging' = [merging EXCEPT ![p] =
                     IF Compiles(merged)
                     THEN [@ EXCEPT !.step = "install", !.base = read, !.snap = Compile(merged)]
                     ELSE Idle]
    /\ UNCHANGED <<data, main, other, left, ops, acked>>

MergeInstall(p) ==
    /\ merging[p].step = "install"
    /\ Mutate(merging[p].snap)
    /\ merging' = [merging EXCEPT ![p] = Idle]

Next ==
    \/ Restart
    \/ \E c \in CredNames, x \in Secrets : CreateCredential(c, x) \/ CreateServerInline(c, x)
    \/ \E c \in DOMAIN data.creds : DeleteCredential(c)
    \/ \E s \in ServerNames, c \in Refs, e \in BOOLEAN :
        CreateServer(s, c, e) \/ UpdateServer(s, c, e)
    \/ \E s \in ServerNames : DeleteServer(s)
    \/ \E o \in Objects, s \in ServerNames, b \in Bodies : CreateObject(o, s, b)
    \/ \E k \in DOMAIN data.objs : DeleteObject(k) \/ \E b \in Bodies : UpdateObject(k, b)
    \/ \E doc \in Imports : ImportReplace(doc) \/ \E p \in Importers : MergeRead(p, doc)
    \/ \E p \in Importers : MergeCompile(p) \/ MergeInstall(p)

Spec == Init /\ [][Next]_vars

(***************************************************************************)
(* Properties                                                              *)
(***************************************************************************)

\* The secret server s has after snap was written and loaded.
Reloaded(snap, s) ==
    IF SecretOf(snap, s) = None THEN None ELSE Expand[SecretOf(snap, s)]

\* The secret a document gives server s.
Stored(doc, s) ==
    IF doc.servers[s].data = None THEN None ELSE Expand[doc.servers[s].data]

SameServer(old, new, s) ==
    s \in DOMAIN new.servers /\ new.servers[s].enabled = old.servers[s].enabled

NoneShared(snap) == \A c \in DOMAIN snap.creds : ~Shared(snap, c)

\* References hold after every mutation, import and restart: an object is on a
\* server that exists, and a credentialRef that ever resolved resolves.
Resolved(snap) ==
    /\ \A k \in DOMAIN snap.objs : k[2] \in DOMAIN snap.servers
    /\ \A s \in DOMAIN snap.servers :
        snap.servers[s].cred \in DOMAIN snap.creds \cup {None, Unknown}

RefsResolve == Resolved(data)

\* A file beside drivers.yaml that has no entry.  The operator may have put it
\* there; or the write of a snapshot without servers, objects and shared credentials
\* was cut off at its rename, in New or after the first credential or the last server.
Hidden == \E file \in {left, other} \ {Absent} : ~IsDeclarative(file)

\* What a crash keeps.  While a file without entries is beside drivers.yaml it keeps
\* nothing: that file ends load, whatever else was acknowledged.  Otherwise what
\* there is loads, but for another file with an object on a server that is in none
\* any more.  Then every server and object of the last mutation that returned no
\* error, or of the last load when there was none since, loads as it was, unless a
\* file after drivers.yaml has one of that name; and what comes back otherwise is in
\* a file beside drivers.yaml, the operator's or one a failed write left.  The
\* secrets are as they were too, unless servers share one or a credential beside has
\* the server's name; the load after a write expands them.
AckedSurvives ==
    LET d      == Loaded
        after  == IF OtherLast THEN Read(other) ELSE Empty
        beside == Merge(Read(left), Read(other)) IN
    /\ Hidden => d = Empty
    /\ ~Hidden => Loads \/ ~Compiles(Read(other))
    /\ ~Hidden /\ Loads =>
        /\ \A k \in DOMAIN acked.objs \ DOMAIN after.objs :
            k \in DOMAIN d.objs /\ d.objs[k] = acked.objs[k]
        /\ \A s \in DOMAIN acked.servers \ DOMAIN after.servers :
            /\ SameServer(acked, d, s)
            /\ NoneShared(acked) /\ s \notin DOMAIN beside.creds =>
                 SecretOf(d, s) = IF main = Decompile(acked) THEN Reloaded(acked, s)
                                  ELSE SecretOf(acked, s)
        /\ DOMAIN d.objs \subseteq DOMAIN acked.objs \cup DOMAIN beside.objs
        /\ DOMAIN d.servers \subseteq DOMAIN acked.servers \cup DOMAIN beside.servers

\* internal/store/file/import.go:10: ImportDeclarative "replaces or merges declarative
\* metadata and persists it".  The servers of a document whose import succeeded are
\* among those the next load finds.
ImportsPersist ==
    [][\A doc \in Imports : ImportReplace(doc) /\ main' = Decompile(data') =>
        DOMAIN doc.servers \subseteq DOMAIN Loaded'.servers]_vars

\* A merge of a snapshot that is still there when it installs gives the servers
\* and objects of the document what the document says and keeps every other server,
\* object and secret.  Secrets are promised only when no two servers share one, for
\* Decompile loses a shared one, and for servers without a namesake among the
\* credentials of the document, which would hide theirs.
MergeKeepsTheRest ==
    [][\A p \in Importers : (MergeInstall(p) /\ data = merging[p].base) =>
        LET doc == merging[p].doc IN
        /\ \A s \in DOMAIN doc.servers : SameServer(doc, data', s)
        /\ \A s \in DOMAIN data.servers \ DOMAIN doc.servers : SameServer(data, data', s)
        /\ NoneShared(data) => \A s \in DOMAIN data'.servers \ DOMAIN doc.creds :
            SecretOf(data', s) = IF s \in DOMAIN doc.servers THEN Stored(doc, s)
                                 ELSE Reloaded(data, s)
        /\ \A k \in DOMAIN data.objs \cup DOMAIN doc.objs :
            k \in DOMAIN data'.objs
            /\ data'.objs[k] = IF k \in DOMAIN doc.objs THEN doc.objs[k] ELSE data.objs[k]
      ]_vars

\* docs/store.md:89: servers that name a top-level credential get its secret.
SharedCredentialsLoad ==
    ops = 0 /\ main # Absent => \A s \in DOMAIN main.servers :
        main.servers[s].name \in DOMAIN main.creds =>
            SecretOf(data, s) = Expand[main.creds[main.servers[s].name]]

=============================================================================

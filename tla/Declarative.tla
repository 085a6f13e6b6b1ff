---------------------------- MODULE Declarative ----------------------------
(***************************************************************************)
(* The declarative document (drivers.yaml) and the snapshot it compiles    *)
(* to: internal/store/file/declarative.go, bridge.go and                   *)
(* internal/importer/merge.go.                                             *)
(*                                                                         *)
(* Rows are known by their names, which are unique; the UUIDs a snapshot   *)
(* gives them are new at every compilation.  A table or function is an     *)
(* object of a server, everything else about it its body.  A credential    *)
(* field of a document is declCredentialField: an inline secret, the name  *)
(* of a top-level credential, or neither.                                  *)
(***************************************************************************)

CONSTANTS
    ServerNames, CredNames,  \* names clients give servers and credentials
    Objects,                 \* schema-qualified table and function names
    Bodies,                  \* columns, options, remote name of an object
    Secrets,                 \* credential data
    Expand,                  \* credential data with each ${VAR} replaced
    None,                    \* no credential, no secret
    Unknown                  \* a credentialRef that is no credential's ID

\* compileDeclarative names an inline credential after its server.
Names == ServerNames \cup CredNames

ASSUME DeclarativeAssumption ==
    /\ None \notin Names \cup Secrets
    /\ Unknown \notin Names \cup {None}
    /\ Expand \in [Secrets -> Secrets]

Partial(S, T) == UNION {[D -> T] : D \in SUBSET S}

Snapshots ==
    [creds   : Partial(Names, Secrets),
     servers : Partial(ServerNames, [cred : Names \cup {None, Unknown}, enabled : BOOLEAN]),
     objs    : Partial(Objects \X ServerNames, Bodies)]

\* importer.DeclarativeDoc: a server has an inline secret or none.
ImporterDocs ==
    [creds   : Partial(Names, Secrets),
     servers : Partial(ServerNames, [data : Secrets \cup {None}, enabled : BOOLEAN]),
     objs    : Partial(Objects \X ServerNames, Bodies)]

\* declarativeDoc, what a file holds: or it names a top-level credential.
Documents ==
    [creds   : Partial(Names, Secrets),
     servers : Partial(ServerNames, [data : Secrets \cup {None}, name : Names \cup {None},
                                     enabled : BOOLEAN]),
     objs    : Partial(Objects \X ServerNames, Bodies)]

With(f, k, v) == [x \in DOMAIN f \cup {k} |-> IF x = k THEN v ELSE f[x]]

Without(f, D) == [x \in DOMAIN f \ D |-> f[x]]

Nothing == [x \in {} |-> None]
Empty   == [creds |-> Nothing, servers |-> Nothing, objs |-> Nothing]

(***************************************************************************)
(* Snapshots                                                               *)
(***************************************************************************)

Users(snap, c) == {s \in DOMAIN snap.servers : snap.servers[s].cred = c}

\* refCount[c] == 1, refCount[c] > 1
Private(snap, c) == \E s \in Users(snap, c) : Users(snap, c) = {s}
Shared(snap, c)  == \E s, t \in Users(snap, c) : s # t

\* What ServerCredential returns for server s.
SecretOf(snap, s) ==
    LET c == snap.servers[s].cred IN
    IF c \in DOMAIN snap.creds THEN snap.creds[c] ELSE None

(***************************************************************************)
(* Faults a change to this code could introduce; nothing uses them.        *)
(***************************************************************************)

\* earlier entries win
OverlayKeepsFirst(f, g) ==
    [x \in DOMAIN f \cup DOMAIN g |-> IF x \in DOMAIN f THEN f[x] ELSE g[x]]

\* every credential is written at the top level and named by its servers
DecompileByName(snap) ==
    [creds   |-> snap.creds,
     servers |-> [s \in DOMAIN snap.servers |->
                    [data    |-> None,
                     name    |-> IF snap.servers[s].cred \in DOMAIN snap.creds
                                 THEN snap.servers[s].cred ELSE None,
                     enabled |-> snap.servers[s].enabled]],
     objs    |-> snap.objs]

\* the secret is stored where the reference belongs
CompileStoresSecret(doc) ==
    [creds   |-> doc.creds,
     servers |-> [s \in DOMAIN doc.servers |->
                    [cred    |-> doc.servers[s].data,
                     enabled |-> doc.servers[s].enabled]],
     objs    |-> doc.objs]

(***************************************************************************)
(* Documents                                                               *)
(***************************************************************************)

\* decompileDeclarative: a credential of one server is written inline, one of
\* several at the top level; one of none is not written.  An object of no server
\* is written with an empty server name and no merge takes it.
Decompile(snap) ==
    [creds   |-> [c \in {c \in DOMAIN snap.creds : Shared(snap, c)} |-> snap.creds[c]],
     servers |-> [s \in DOMAIN snap.servers |->
                    LET c == snap.servers[s].cred IN
                    [data    |-> IF c \in DOMAIN snap.creds /\ Private(snap, c)
                                 THEN snap.creds[c] ELSE None,
                     name    |-> IF c \in DOMAIN snap.creds /\ Shared(snap, c)
                                 THEN c ELSE None,
                     enabled |-> snap.servers[s].enabled]],
     objs    |-> Without(snap.objs, {o \in DOMAIN snap.objs : o[2] \notin DOMAIN snap.servers})]

\* declarativeToImporter: the name of a credential is not carried over.
ToImporter(doc) ==
    [creds   |-> doc.creds,
     servers |-> [s \in DOMAIN doc.servers |->
                    [data    |-> doc.servers[s].data,
                     enabled |-> doc.servers[s].enabled]],
     objs    |-> doc.objs]

Overlay(f, g) ==
    [x \in DOMAIN f \cup DOMAIN g |-> IF x \in DOMAIN g THEN g[x] ELSE f[x]]

\* MergeDeclarativeDocs of two documents.
Merge(doc1, doc2) ==
    [creds   |-> Overlay(doc1.creds, doc2.creds),
     servers |-> Overlay(doc1.servers, doc2.servers),
     objs    |-> Overlay(doc1.objs, doc2.objs)]

\* isDeclarativeYAML of a file this program or an operator wrote.
IsDeclarative(doc) ==
    \/ DOMAIN doc.creds # {}
    \/ DOMAIN doc.servers # {}
    \/ DOMAIN doc.objs # {}

\* compileDeclarative returns no error.
Compiles(doc) == \A o \in DOMAIN doc.objs : o[2] \in DOMAIN doc.servers

\* compileDeclarative of what declarativeFromImporter makes of doc; that never
\* sets the name of a credential, so the branch for it is not reached.
\* registerCred returns the credential that already has the name: a top-level
\* credential wins over an inline secret.  It stores the data expanded.
Compile(doc) ==
    LET inline == {s \in DOMAIN doc.servers : doc.servers[s].data # None} IN
    [creds   |-> [c \in inline \cup DOMAIN doc.creds |->
                    Expand[IF c \in DOMAIN doc.creds THEN doc.creds[c]
                           ELSE doc.servers[c].data]],
     servers |-> [s \in DOMAIN doc.servers |->
                    [cred    |-> IF s \in inline THEN s ELSE None,
                     enabled |-> doc.servers[s].enabled]],
     objs    |-> doc.objs]

=============================================================================

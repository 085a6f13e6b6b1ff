------------------------------- MODULE DbStore -------------------------------
(***************************************************************************)
(* internal/store/db behind the admin API (internal/api/admin): the meta   *)
(* database shared by every replica of the server.  A step is one query or *)
(* one transaction, but for the export of a merge, five steps for more     *)
(* queries: see Listed, ExportSecrets and ExportColumns.  The handlers of  *)
(* several admin clients interleave between the steps, and nothing but the *)
(* database orders them.                                                   *)
(*                                                                         *)
(* A definition marked Fault is a mutation of one below it: a change to    *)
(* the code that could pass unnoticed.  No action uses it.                 *)
(*                                                                         *)
(* Rows are kept by their unique name.  Their IDs are UUIDs: here the name *)
(* with a generation, which no two writes share.  In file mode             *)
(* adminWriteDenied refuses every write: this module is database mode.     *)
(***************************************************************************)
EXTENDS Integers, FiniteSets, Functions

CONSTANTS
    Procs,      \* admin requests in flight
    Servers,    \* server names
    Tables,     \* table names, of one schema
    Funcs,      \* function names, of one schema
    Columns,    \* column names
    Secrets,    \* what a credential decrypts to
    Values,     \* values of options, remote names and paths
    None,       \* no row, no credential, no secret
    Docs,       \* documents clients import
    MaxWrites   \* bound on committed writes

Objects == Tables \cup Funcs

\* Names of credentials; an import calls those it makes after their server.
CredNames == Servers

ASSUME DbAssumption ==
    /\ Tables \cap Funcs = {} /\ Servers \cap Objects = {}
    /\ None \notin Secrets \cup Servers
    /\ MaxWrites \in Nat

VARIABLES
    fk,         \* the database enforces foreign keys (SQLite does not); constant
    creds,      \* [CredNames -> [gen, secret]]
    servers,    \* [Servers -> [gen, opt, cred, on]]
    objs,       \* tables and functions: [Objects -> [gen, srv, remote, opt]]
    cols,       \* column rows: set of [table, name]
    pc, local,  \* where a request is, and what it holds
    quiet,      \* history: no other request's write committed since p began
    acked,      \* history: servers, tables and functions created and not deleted since
    overlapped, \* history: a merge was applied that was not quiet
    writes

rows    == <<creds, servers, objs, cols>>
history == <<quiet, acked, overlapped, writes>>
vars    == <<fk, creds, servers, objs, cols, pc, local, quiet, acked, overlapped, writes>>

Gens == 1..MaxWrites + 1
Ids(names) == names \X Gens

CredRow   == [gen : Gens, secret : Secrets]
ServerRow == [gen : Gens, opt : Values, cred : Ids(CredNames) \cup {None}, on : BOOLEAN]
ObjectRow == [gen : Gens, srv : Ids(Servers), remote : Values, opt : Values]
ColumnRow == [table : Ids(Tables), name : Columns]

\* The entries of a document (see ImportDeclarative below).
DocServer == [opt : Values, on : BOOLEAN, secret : Secrets \cup {None}]
DocObject == [remote : Values, opt : Values, cols : SUBSET Columns]

ServersFit(ss) == DOMAIN ss \subseteq Servers /\ \A s \in DOMAIN ss : ss[s] \in DocServer

ObjectsFit(os, owners) ==
    /\ DOMAIN os \subseteq Objects \X owners
    /\ \A k \in DOMAIN os : os[k] \in DocObject /\ (k[1] \in Funcs => os[k].cols = {})

ASSUME DocAssumption ==
    /\ None \notin CredRow /\ None \notin ServerRow /\ None \notin ObjectRow
    /\ None \notin Ids(CredNames)
    /\ \A doc \in Docs : ServersFit(doc.servers) /\ ObjectsFit(doc.objs, Servers)

\* f, and what g adds to it.
Overlay(f, g) == [x \in DOMAIN f \cup DOMAIN g |-> IF x \in DOMAIN f THEN f[x] ELSE g[x]]

Steps == {"idle", "inline", "patch", "patchObj", "insertObj", "insertCol",
          "tables", "functions", "secrets", "columns", "apply"}

DbTypeOK ==
    /\ fk \in BOOLEAN
    /\ creds \in [CredNames -> CredRow \cup {None}]
    /\ servers \in [Servers -> ServerRow \cup {None}]
    /\ objs \in [Objects -> ObjectRow \cup {None}]
    /\ cols \subseteq ColumnRow
    /\ pc \in [Procs -> Steps]
    /\ quiet \in [Procs -> BOOLEAN] /\ overlapped \in BOOLEAN
    /\ acked \subseteq Servers \cup Objects /\ writes \in 0..MaxWrites

\* IDs of the rows of a table, and whether the row with an ID is there.
Living(t)  == {n \in DOMAIN t : t[n] # None}
Has(t, id) == t[id[1]] # None /\ t[id[1]].gen = id[2]

\* newUUID: the generation of the rows the next write creates.
NewGen == writes + 2

\* A request between two of its steps holds a record; Idle is none.
Idle == None

\* A database that requests can have left: a server s with its credential and
\* a table t of at most one column, perhaps other servers that share the
\* credential, enabled or not, and functions on s.
Init ==
    /\ fk \in BOOLEAN
    /\ \E s \in Servers, t \in Tables, v \in Values, x \in Secrets,
         others \in SUBSET Servers, fs \in SUBSET Funcs, b \in BOOLEAN :
         /\ creds = [n \in CredNames |-> IF n = s THEN [gen |-> 1, secret |-> x] ELSE None]
         /\ servers = [n \in Servers |->
                         IF n \in others \cup {s}
                         THEN [gen |-> 1, opt |-> v, cred |-> <<s, 1>>, on |-> n = s \/ b]
                         ELSE None]
         /\ objs = [o \in Objects |->
                      IF o \in fs \cup {t}
                      THEN [gen |-> 1, srv |-> <<s, 1>>, remote |-> v, opt |-> v]
                      ELSE None]
         /\ cols \in {{}} \cup {{[table |-> <<t, 1>>, name |-> c]} : c \in Columns}
         /\ acked = others \cup fs \cup {s, t}
    /\ pc = [p \in Procs |-> "idle"] /\ local = [p \in Procs |-> Idle]
    /\ quiet = [p \in Procs |-> TRUE]
    /\ overlapped = FALSE /\ writes = 0

(***************************************************************************)
(* Requests and writes                                                     *)
(***************************************************************************)

Goto(p, step, what) ==
    /\ pc' = [pc EXCEPT ![p] = step]
    /\ local' = [local EXCEPT ![p] = what]

End(p) == Goto(p, "idle", Idle)

\* The first query of a request of several; it finds nothing or reads what.
Begin(p, step, what) ==
    /\ pc[p] = "idle" /\ writes < MaxWrites
    /\ Goto(p, step, what)
    /\ UNCHANGED <<fk, rows, history>>

\* A query that only reads, or a write that finds its row gone or hits a
\* unique index or a foreign key: the database is as before.
NoWrite(p) ==
    /\ quiet' = [quiet EXCEPT ![p] = @ \/ pc'[p] = "idle"]
    /\ UNCHANGED <<fk, rows, acked, overlapped, writes>>

\* A committed write by p: the requests of others are not quiet any more.
Wrote(p) ==
    /\ writes < MaxWrites /\ writes' = writes + 1
    /\ quiet' = [q \in Procs |-> q = p \/ pc[q] = "idle"]
    /\ UNCHANGED fk

One(p) == pc[p] = "idle" /\ UNCHANGED <<pc, local>>

\* Fault: AutoMigrate without the constraints.
ParentUnchecked(t, id) == TRUE

\* The foreign key of a row to insert.
ParentThere(t, id) == fk => Has(t, id)

\* Deleting a server takes its tables and functions, deleting a table its
\* columns along, where foreign keys are enforced (constraint:OnDelete:CASCADE).
ObjectsOf(gone) == {o \in Living(objs) : objs[o].srv \in gone}
ColumnsOf(gone) == {c \in cols : c.table \in gone}

RemoveObjects(os) ==
    /\ objs' = [o \in Objects |-> IF o \in os THEN None ELSE objs[o]]
    /\ cols' = IF fk THEN cols \ ColumnsOf({<<o, objs[o].gen>> : o \in os}) ELSE cols

(***************************************************************************)
(* Credentials and servers                                                 *)
(***************************************************************************)

InsertCredential(p, n, x) ==
    /\ creds[n] = None
    /\ creds' = [creds EXCEPT ![n] = [gen |-> NewGen, secret |-> x]]
    /\ Wrote(p)

CreateCredential(p, n, x) ==
    /\ One(p) /\ InsertCredential(p, n, x)
    /\ UNCHANGED <<servers, objs, cols, acked, overlapped>>

\* No check that no server refers to it.
DeleteCredential(p, n) ==
    /\ One(p) /\ creds[n] # None
    /\ creds' = [creds EXCEPT ![n] = None]
    /\ Wrote(p)
    /\ UNCHANGED <<servers, objs, cols, acked, overlapped>>

\* MetaServer.Enabled has a default: GORM stores true for the zero value.
StoredEnabled(on) == TRUE

\* The reference is not checked either; clients send one that is there.
CreateServer(p, s, v, ref, on) ==
    /\ One(p) /\ servers[s] = None
    /\ servers' = [servers EXCEPT ![s] = [gen |-> NewGen, opt |-> v,
                                         cred |-> ref, on |-> StoredEnabled(on)]]
    /\ acked' = acked \cup {s}
    /\ Wrote(p)
    /\ UNCHANGED <<creds, objs, cols, overlapped>>

\* CreateServer with an inline credential first creates the credential, under a
\* name of the client's or one made from the server's ...
CreateServerInline(p, s, n, x) ==
    /\ pc[p] = "idle" /\ Goto(p, "inline", [name |-> s])
    /\ InsertCredential(p, n, x)
    /\ UNCHANGED <<servers, objs, cols, acked, overlapped>>

\* ... sets the reference in the request to it, and then takes that reference
\* for one the client sent beside the credential: the request ends with an error.
RefuseInline(p) == pc[p] = "inline" /\ End(p) /\ NoWrite(p)

\* UpdateServer reads the row ...
ReadServer(p, s, change) ==
    /\ servers[s] # None
    /\ Begin(p, "patch", [id |-> <<s, servers[s].gen>>,
                          row |-> Overlay(change, servers[s])])

\* Fault: Save instead of Updates inserts the row again if it is gone.
WriteServerSaving(p) ==
    LET l == local[p]
    IN  /\ pc[p] = "patch" /\ End(p)
        /\ servers' = [servers EXCEPT ![l.id[1]] = l.row]
        /\ Wrote(p)
        /\ UNCHANGED <<creds, objs, cols, acked, overlapped>>

\* ... and writes options, reference and flag, all three, WHERE id = ...
WriteServer(p) ==
    LET l == local[p]
    IN  /\ pc[p] = "patch" /\ End(p)
        /\ IF Has(servers, l.id)
           THEN /\ servers' = [servers EXCEPT ![l.id[1]] = l.row]
                /\ Wrote(p)
                /\ UNCHANGED <<creds, objs, cols, acked, overlapped>>
           ELSE NoWrite(p)

DeleteServer(p, s) ==
    /\ One(p) /\ servers[s] # None
    /\ servers' = [servers EXCEPT ![s] = None]
    /\ LET gone == ObjectsOf({<<s, servers[s].gen>>})
       IN  /\ IF fk THEN RemoveObjects(gone) ELSE UNCHANGED <<objs, cols>>
           /\ acked' = acked \ (gone \cup {s})
    /\ Wrote(p)
    /\ UNCHANGED <<creds, overlapped>>

(***************************************************************************)
(* Tables, columns and functions                                           *)
(***************************************************************************)

\* The unique index of columns is on their name alone (entities.go:49).
ColumnsFree(names) == \A c \in cols : c.name \notin names

\* CreateTable and CreateFunction look the server up by its name ...
LookupServer(p, o, s, v, names) ==
    /\ servers[s] # None
    /\ Begin(p, "insertObj", [name |-> o, srv |-> <<s, servers[s].gen>>, val |-> v, cols |-> names])

\* ... and insert, a table with its columns in one transaction.
InsertObject(p) ==
    LET l == local[p]
    IN  /\ pc[p] = "insertObj" /\ End(p)
        /\ IF /\ objs[l.name] = None /\ ColumnsFree(l.cols)
              /\ ParentThere(servers, l.srv)
           THEN /\ objs' = [objs EXCEPT ![l.name] =
                              [gen |-> NewGen, srv |-> l.srv, remote |-> l.val, opt |-> l.val]]
                /\ cols' = cols \cup {[table |-> <<l.name, NewGen>>, name |-> c] : c \in l.cols}
                /\ acked' = acked \cup {l.name}
                /\ Wrote(p)
                /\ UNCHANGED <<creds, servers, overlapped>>
           ELSE NoWrite(p)

\* UpdateTable and UpdateFunction read the row ...
ReadObject(p, o, change) ==
    /\ objs[o] # None
    /\ Begin(p, "patchObj", [id |-> <<o, objs[o].gen>>, row |-> objs[o], change |-> change])

\* Fault: the row is written back as it was read, like a server.
WriteObjectWhole(p) ==
    LET l == local[p]
    IN  /\ pc[p] = "patchObj" /\ End(p)
        /\ Has(objs, l.id)
        /\ objs' = [objs EXCEPT ![l.id[1]] = Overlay(l.change, l.row)]
        /\ Wrote(p)
        /\ UNCHANGED <<creds, servers, cols, acked, overlapped>>

\* ... and write the columns the request names.
WriteObject(p) ==
    LET l == local[p]
    IN  /\ pc[p] = "patchObj" /\ End(p)
        /\ IF Has(objs, l.id)
           THEN /\ objs' = [objs EXCEPT ![l.id[1]] = Overlay(l.change, @)]
                /\ Wrote(p)
                /\ UNCHANGED <<creds, servers, cols, acked, overlapped>>
           ELSE NoWrite(p)

\* DeleteTable, DeleteFunction.
DeleteObject(p, o) ==
    /\ One(p) /\ objs[o] # None
    /\ RemoveObjects({o})
    /\ acked' = acked \ {o}
    /\ Wrote(p)
    /\ UNCHANGED <<creds, servers, overlapped>>

\* CreateColumn reads the table by its ID ...
CheckTable(p, t, c) ==
    /\ objs[t] # None
    /\ Begin(p, "insertCol", [col |-> [table |-> <<t, objs[t].gen>>, name |-> c]])

\* ... and inserts.  What else a column has, and UpdateColumn, are left out.
InsertColumn(p) ==
    LET c == local[p].col
    IN  /\ pc[p] = "insertCol" /\ End(p)
        /\ IF ColumnsFree({c.name}) /\ ParentThere(objs, c.table)
           THEN /\ cols' = cols \cup {c}
                /\ Wrote(p)
                /\ UNCHANGED <<creds, servers, objs, acked, overlapped>>
           ELSE NoWrite(p)

DeleteColumn(p, c) ==
    /\ One(p) /\ c \in cols
    /\ cols' = cols \ {c}
    /\ Wrote(p)
    /\ UNCHANGED <<creds, servers, objs, acked, overlapped>>

(***************************************************************************)
(* ImportDeclarative                                                       *)
(*                                                                         *)
(* A document: servers maps names to [opt, on, secret]; objs maps pairs of *)
(* an object name and a server name, the key of MergeDeclarativeDocs, to   *)
(* [remote, opt, cols].  Documents with top-level credentials are those of *)
(* module Declarative.                                                     *)
(***************************************************************************)

\* compileDeclarative and the unique indexes: every object on a server of the
\* document, one object of a name, one column of a name.
Importable(doc) ==
    /\ \A k \in DOMAIN doc.objs : k[2] \in DOMAIN doc.servers
    /\ \A k, l \in DOMAIN doc.objs :
         k # l => k[1] # l[1] /\ doc.objs[k].cols \cap doc.objs[l].cols = {}

ObjectNames(doc) == {k[1] : k \in DOMAIN doc.objs}

\* replaceSnapshot: one transaction deletes every row and creates those of the
\* document, with new IDs.
Install(p, doc) ==
    LET cred(s)   == doc.servers[s].secret # None
        key(o)    == CHOOSE k \in DOMAIN doc.objs : k[1] = o
        serverRow(s) == [gen |-> NewGen, opt |-> doc.servers[s].opt,
                         cred |-> IF cred(s) THEN <<s, NewGen>> ELSE None,
                         on |-> StoredEnabled(doc.servers[s].on)]
        objectRow(o) == [gen |-> NewGen,
                         srv |-> <<key(o)[2], NewGen>>,
                         remote |-> doc.objs[key(o)].remote, opt |-> doc.objs[key(o)].opt]
    IN  /\ creds' = [s \in CredNames |->
                       IF s \in DOMAIN doc.servers /\ cred(s)
                       THEN [gen |-> NewGen, secret |-> doc.servers[s].secret]
                       ELSE None]
        /\ servers' = [s \in Servers |->
                         IF s \in DOMAIN doc.servers THEN serverRow(s) ELSE None]
        /\ objs' = [o \in Objects |->
                      IF o \in ObjectNames(doc) THEN objectRow(o) ELSE None]
        /\ cols' = UNION {{[table |-> <<k[1], NewGen>>, name |-> c] :
                              c \in doc.objs[k].cols} : k \in DOMAIN doc.objs}
        /\ Wrote(p)

\* Mode replace.  A document that is not importable leaves the rows alone.
ImportReplace(p, doc) ==
    /\ One(p) /\ Importable(doc)
    /\ Install(p, doc)
    /\ acked' = DOMAIN doc.servers \cup ObjectNames(doc)
    /\ UNCHANGED overlapped

\* Mode merge: exportDeclarative lists the servers ...
ExportServers(p, doc) ==
    Begin(p, "tables", [doc |-> doc, srv |-> [s \in Living(servers) |-> servers[s]]])

\* Fault: the options are exported as the remote name.
ListedWithoutRemote(names) ==
    [k \in {<<o, IF Has(servers, objs[o].srv) THEN objs[o].srv[1] ELSE None>> :
               o \in Living(objs) \cap names} |->
        [remote |-> objs[k[1]].opt, opt |-> objs[k[1]].opt, cols |-> {}]]

\* ListTables and ListFunctions preload the server of each row by its ID: one
\* that is gone gives an empty name.  The two SELECTs of such a call are one step.
Listed(names) ==
    [k \in {<<o, IF Has(servers, objs[o].srv) THEN objs[o].srv[1] ELSE None>> :
               o \in Living(objs) \cap names} |->
        [remote |-> objs[k[1]].remote, opt |-> objs[k[1]].opt, cols |-> {}]]

\* ... the tables ...
ExportTables(p) ==
    /\ pc[p] = "tables"
    /\ Goto(p, "functions",
            [doc |-> local[p].doc, srv |-> local[p].srv, objs |-> Listed(Tables)])
    /\ NoWrite(p)

\* ... the functions ...
ExportFunctions(p) ==
    /\ pc[p] = "functions"
    /\ Goto(p, "secrets", [local[p] EXCEPT !.objs = Overlay(@, Listed(Funcs))])
    /\ NoWrite(p)

\* Fault: the reference is exported in place of the secret.
SecretAsReference(ref) == ref

\* ResolveCredential, of a reference that is there.
SecretOf(ref) == creds[ref[1]].secret

\* ... resolves the credential of each server, one after the other, here in one
\* step, and keeps those that only one server uses; a reference to none ends the
\* import with an error ...
ExportSecrets(p) ==
    LET l       == local[p]
        used    == {s \in DOMAIN l.srv : l.srv[s].cred # None}
        alone(s) == \A r \in used : l.srv[r].cred = l.srv[s].cred => r = s
        entry(s) == [opt |-> l.srv[s].opt, on |-> l.srv[s].on,
                     secret |-> IF s \in used /\ alone(s)
                                THEN SecretOf(l.srv[s].cred) ELSE None]
    IN  /\ pc[p] = "secrets"
        /\ IF \A s \in used : Has(creds, l.srv[s].cred)
           THEN Goto(p, "columns", [l EXCEPT !.srv = [s \in DOMAIN @ |-> entry(s)]])
           ELSE End(p)
        /\ NoWrite(p)

\* ... and looks up the columns of each table, by its name; the two queries for
\* each are one step for all.
ExportColumns(p) ==
    LET l      == local[p]
        of(o)  == {c.name : c \in {d \in cols : d.table = <<o, objs[o].gen>>}}
        tables == {k \in DOMAIN l.objs : k[1] \in Tables}
    IN  /\ pc[p] = "columns"
        /\ IF \A k \in tables : objs[k[1]] # None
           THEN Goto(p, "apply",
                     [l EXCEPT !.objs = [k \in DOMAIN @ |->
                        IF k \in tables THEN [@[k] EXCEPT !.cols = of(k[1])] ELSE @[k]]])
           ELSE End(p)
        /\ NoWrite(p)

\* Fault: only the client's entries are left.
MergedReplacing(l) == [servers |-> l.doc.servers, objs |-> l.doc.objs]

\* MergeDeclarativeDocs: the client's entries win; without a server, none.
Merged(l) ==
    [servers |-> Overlay(l.doc.servers, l.srv),
     objs    |-> Overlay(l.doc.objs, Restrict(l.objs, {k \in DOMAIN l.objs : k[2] # None}))]

ApplyMerge(p) ==
    LET doc == Merged(local[p])
    IN  /\ pc[p] = "apply" /\ End(p)
        /\ IF Importable(doc)
           THEN /\ Install(p, doc)
                /\ acked' = acked \cup DOMAIN local[p].doc.servers
                                 \cup ObjectNames(local[p].doc)
                /\ overlapped' = (overlapped \/ ~quiet[p])
           ELSE NoWrite(p)

(***************************************************************************)
(* The admin API                                                           *)
(***************************************************************************)

ServerChanges ==
    {[opt |-> v] : v \in Values} \cup {[on |-> b] : b \in BOOLEAN}
    \cup {[cred |-> <<n, creds[n].gen>>] : n \in Living(creds)}

ObjectChanges == {[remote |-> v] : v \in Values} \cup {[opt |-> v] : v \in Values}

References == {None} \cup {<<n, creds[n].gen>> : n \in Living(creds)}

CredentialApi(p) ==
    \E n \in CredNames : DeleteCredential(p, n) \/ \E x \in Secrets : CreateCredential(p, n, x)

ServerApi(p) ==
    \/ \E s \in Servers :
         \/ DeleteServer(p, s)
         \/ \E n \in CredNames, x \in Secrets : CreateServerInline(p, s, n, x)
         \/ \E v \in Values, ref \in References, on \in BOOLEAN : CreateServer(p, s, v, ref, on)
         \/ \E change \in ServerChanges : ReadServer(p, s, change)
    \/ WriteServer(p) \/ RefuseInline(p)

\* What tables and functions share.
ObjectApi(p, o, columnSets) ==
    \/ DeleteObject(p, o)
    \/ \E change \in ObjectChanges : ReadObject(p, o, change)
    \/ \E s \in Servers, v \in Values, names \in columnSets : LookupServer(p, o, s, v, names)

TableApi(p) ==
    \E t \in Tables : ObjectApi(p, t, {{}} \cup {{c} : c \in Columns})

FunctionApi(p) == \E f \in Funcs : ObjectApi(p, f, {{}})

ColumnApi(p) ==
    \/ \E t \in Tables, c \in Columns : CheckTable(p, t, c)
    \/ \E c \in cols : DeleteColumn(p, c)
    \/ InsertColumn(p)

ImportApi(p) ==
    \/ \E doc \in Docs : ImportReplace(p, doc) \/ ExportServers(p, doc)
    \/ ExportTables(p) \/ ExportFunctions(p) \/ ExportSecrets(p) \/ ExportColumns(p)
    \/ ApplyMerge(p)

Next ==
    \E p \in Procs :
        \/ CredentialApi(p) \/ ServerApi(p) \/ ImportApi(p)
        \/ TableApi(p) \/ FunctionApi(p) \/ ColumnApi(p)
        \/ InsertObject(p) \/ WriteObject(p)

Spec == Init /\ [][Next]_vars

(***************************************************************************)
(* Properties                                                              *)
(***************************************************************************)

(***************************************************************************)
(* With foreign keys, every table and function has its server and every    *)
(* column its table, although CreateTable, CreateFunction and CreateColumn *)
(* look the parent up before, and outside of, the insert (store.go:243,    *)
(* crud.go:94).  Without them (SQLite) the race leaves an orphan.          *)
(***************************************************************************)
RefsIntact ==
    fk => /\ \A o \in Living(objs) : Has(servers, objs[o].srv)
          /\ \A c \in cols : Has(objs, c.table)

(***************************************************************************)
(* What was created and acknowledged is there until it, or its server, is  *)
(* deleted or a replace import is applied, unless a merge import was       *)
(* applied that overlapped another write: its export runs outside the      *)
(* transaction that rewrites all rows (import.go:20).                      *)
(***************************************************************************)
AckedStays ==
    fk /\ ~overlapped =>
        \A x \in acked : IF x \in Servers THEN servers[x] # None ELSE objs[x] # None

(***************************************************************************)
(* A merge import that overlaps no other write keeps every server, table   *)
(* and function the client's document does not name: options, the secret   *)
(* of a server that shares it with none, the server, remote name and       *)
(* columns of an object.  The flag of a disabled server is not kept.       *)
(***************************************************************************)
KeptServer(s) ==
    /\ servers'[s] # None /\ servers'[s].opt = servers[s].opt
    /\ LET ref == servers[s].cred
       IN  ref # None /\ (\A r \in Living(servers) : servers[r].cred = ref => r = s) =>
             /\ servers'[s].cred # None
             /\ creds'[servers'[s].cred[1]].secret = creds[ref[1]].secret

ColumnNames(t, os, o) == {c.name : c \in {d \in t : d.table = <<o, os[o].gen>>}}

KeptObject(o) ==
    /\ objs'[o] # None
    /\ objs'[o].srv[1] = objs[o].srv[1]
    /\ objs'[o].remote = objs[o].remote /\ objs'[o].opt = objs[o].opt
    /\ ColumnNames(cols', objs', o) = ColumnNames(cols, objs, o)

Unnamed(doc, o) == <<o, objs[o].srv[1]>> \notin DOMAIN doc.objs

QuietMerge(p) == ApplyMerge(p) /\ quiet[p] /\ rows' # rows

QuietMergeKeeps ==
    [][\A p \in Procs : QuietMerge(p) =>
        /\ \A s \in Living(servers) \ DOMAIN local[p].doc.servers : KeptServer(s)
        /\ \A o \in Living(objs) :
             Unnamed(local[p].doc, o) /\ Has(servers, objs[o].srv) => KeptObject(o)]_vars

(***************************************************************************)
(* A row that is gone does not come back under the ID it had: a patch that *)
(* read it before the deletion, or before an import gave it a new ID,      *)
(* changes nothing (UPDATE ... WHERE id).                                  *)
(***************************************************************************)
GoneStaysGone ==
    [][\A g \in 1..writes + 1 :
        /\ \A s \in Servers : ~Has(servers, <<s, g>>) => ~Has(servers', <<s, g>>)
        /\ \A o \in Objects : ~Has(objs, <<o, g>>) => ~Has(objs', <<o, g>>)]_vars

(***************************************************************************)
(* A patch of a table or function changes only the columns it names,       *)
(* whatever was written between its read and its write.  UpdateServer does *)
(* not promise this: it writes back all it read (store.go:214).            *)
(***************************************************************************)
PatchKeepsOthers ==
    [][\A p \in Procs : WriteObject(p) =>
        \A o \in Living(objs) : \A f \in DOMAIN objs[o] :
            objs'[o][f] # objs[o][f] => o = local[p].id[1] /\ f \in DOMAIN local[p].change]_vars

(***************************************************************************)
(* A server can be created together with its credential, as docs/store.md  *)
(* says: a CreateServer that has stored its inline credential ends with    *)
(* the server there.  It always ends without (store.go:136).               *)
(***************************************************************************)
InlineCredentialAccepted ==
    [][\A p \in Procs :
        pc[p] = "inline" /\ pc'[p] = "idle" => servers'[local[p].name] # None]_vars

=============================================================================

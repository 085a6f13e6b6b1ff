---------------------------- MODULE DbStoreProofs ----------------------------
(***************************************************************************)
(* Proofs about DbStore for any number of admin requests, any names,       *)
(* values and documents, with and without foreign keys.                    *)
(***************************************************************************)
EXTENDS DbStore, TLAPS

(***************************************************************************)
(* The invariant                                                           *)
(*                                                                         *)
(* RefsIntact is not inductive: a patch writes back a row it read earlier, *)
(* so LocalOK says that a request holds a row with the ID it goes by, and  *)
(* that what an export has read so far is part of a document.              *)
(***************************************************************************)
RowTypes ==
    /\ creds \in [CredNames -> CredRow \cup {None}]
    /\ servers \in [Servers -> ServerRow \cup {None}]
    /\ objs \in [Objects -> ObjectRow \cup {None}]
    /\ cols \subseteq ColumnRow

ControlTypes ==
    /\ fk \in BOOLEAN /\ pc \in [Procs -> Steps]
    /\ quiet \in [Procs -> BOOLEAN] /\ overlapped \in BOOLEAN
    /\ acked \subseteq Servers \cup Objects /\ writes \in 0..MaxWrites

ListedServers(ss) == DOMAIN ss \subseteq Servers /\ \A s \in DOMAIN ss : ss[s] \in ServerRow

Owners == Servers \cup {None}

Holds(step, l) ==
    /\ step = "patch" =>
         l.id \in Ids(Servers) /\ l.row \in ServerRow /\ l.row.gen = l.id[2]
    /\ step = "patchObj" => l.id \in Ids(Objects) /\ l.change \in ObjectChanges
    /\ step = "insertObj" =>
         /\ l.name \in Objects /\ l.srv \in Ids(Servers) /\ l.val \in Values
         /\ l.cols \subseteq Columns /\ (l.cols # {} => l.name \in Tables)
    /\ step = "insertCol" => l.col \in ColumnRow
    /\ step \in {"tables", "functions", "secrets", "columns", "apply"} => l.doc \in Docs
    /\ step \in {"tables", "functions", "secrets"} => ListedServers(l.srv)
    /\ step \in {"columns", "apply"} => ServersFit(l.srv)
    /\ step \in {"functions", "secrets", "columns", "apply"} =>
         ObjectsFit(l.objs, Owners) /\ l = [doc |-> l.doc, srv |-> l.srv, objs |-> l.objs]

LocalOK == DOMAIN local = Procs /\ \A p \in Procs : Holds(pc[p], local[p])

DbInv == RowTypes /\ ControlTypes /\ LocalOK /\ RefsIntact

LEMMA TypesSplit == DbTypeOK <=> RowTypes /\ ControlTypes
  BY DEF DbTypeOK, RowTypes, ControlTypes

LEMMA ObjectsApart == Tables \subseteq Objects /\ Funcs \subseteq Objects /\ Tables \cap Funcs = {}
  BY DbAssumption DEF Objects

\* A step of one request leaves the others where they are.
StepOf(p) ==
    \/ CredentialApi(p) \/ ServerApi(p) \/ ImportApi(p)
    \/ TableApi(p) \/ FunctionApi(p) \/ ColumnApi(p)
    \/ InsertObject(p) \/ WriteObject(p)

LEMMA NextIsStep == Next <=> \E p \in Procs : StepOf(p)
  BY DEF Next, StepOf

LEMMA InitDb == Init => DbInv
  <1> SUFFICES ASSUME Init PROVE DbInv
    OBVIOUS
  <1> USE DbAssumption
  <1>1. 1 \in Gens /\ 0 \in 0..MaxWrites
    BY DEF Gens
  <1>2. PICK s \in Servers, t \in Tables, v \in Values, x \in Secrets,
             others \in SUBSET Servers, fs \in SUBSET Funcs, b \in BOOLEAN :
          /\ creds = [n \in CredNames |-> IF n = s THEN [gen |-> 1, secret |-> x] ELSE None]
          /\ servers = [n \in Servers |->
                          IF n \in others \cup {s}
                          THEN [gen |-> 1, opt |-> v, cred |-> <<s, 1>>, on |-> n = s \/ b]
                          ELSE None]
          /\ objs = [o \in Objects |->
                       IF o \in fs \cup {t}
                       THEN [gen |-> 1, srv |-> <<s, 1>>, remote |-> v, opt |-> v]
                       ELSE None]
          /\ cols \in {{}} \cup {{[table |-> <<t, 1>>, name |-> c]} : c \in Columns}
          /\ acked = others \cup fs \cup {s, t}
    BY DEF Init
  <1>3. <<s, 1>> \in Ids(CredNames) /\ <<s, 1>> \in Ids(Servers) /\ <<t, 1>> \in Ids(Tables)
    BY <1>1 DEF Ids, CredNames
  <1>4. creds \in [CredNames -> CredRow \cup {None}]
    BY <1>1, <1>2 DEF CredRow
  <1>5. servers \in [Servers -> ServerRow \cup {None}]
    <2>1. \A n \in Servers : (n = s \/ b) \in BOOLEAN
      OBVIOUS
    <2> QED
      BY <1>1, <1>2, <1>3, <2>1 DEF ServerRow
  <1>6. objs \in [Objects -> ObjectRow \cup {None}]
    BY <1>1, <1>2, <1>3 DEF ObjectRow
  <1>7. \A c \in cols : c.table = <<t, 1>> /\ c \in ColumnRow
    BY <1>2, <1>3 DEF ColumnRow
  <1>8. RowTypes
    BY <1>4, <1>5, <1>6, <1>7 DEF RowTypes
  <1>9. ControlTypes
    <2>1. acked \subseteq Servers \cup Objects
      BY <1>2, ObjectsApart
    <2> QED
      BY <1>1, <2>1 DEF Init, ControlTypes, Steps
  <1>10. LocalOK
    BY DEF Init, LocalOK, Holds, Idle
  <1>11. RefsIntact
    <2>1. servers[s] = [gen |-> 1, opt |-> v, cred |-> <<s, 1>>, on |-> TRUE] /\ servers[s] # None
      <3>1. servers[s] = [gen |-> 1, opt |-> v, cred |-> <<s, 1>>, on |-> TRUE]
        BY <1>2
      <3>2. servers[s] \in ServerRow
        BY <1>1, <1>3, <3>1 DEF ServerRow
      <3> QED
        BY <3>1, <3>2, DocAssumption
    <2>2. objs[t] = [gen |-> 1, srv |-> <<s, 1>>, remote |-> v, opt |-> v] /\ objs[t] # None
      <3>1. objs[t] = [gen |-> 1, srv |-> <<s, 1>>, remote |-> v, opt |-> v]
        BY <1>2, ObjectsApart
      <3>2. objs[t] \in ObjectRow
        BY <1>1, <1>3, <3>1 DEF ObjectRow
      <3> QED
        BY <3>1, <3>2, DocAssumption
    <2>3. \A o \in Living(objs) : objs[o].srv = <<s, 1>>
      BY <1>2 DEF Living
    <2>4. Has(servers, <<s, 1>>) /\ Has(objs, <<t, 1>>)
      BY <2>1, <2>2 DEF Has
    <2> QED
      BY <1>7, <2>3, <2>4 DEF RefsIntact
  <1> QED
    BY <1>8, <1>9, <1>10, <1>11 DEF DbInv

(***************************************************************************)
(* Control                                                                 *)
(***************************************************************************)

\* Where a request goes, alone.
Moves(p) ==
    /\ pc' = pc \/ \E step \in Steps : pc' = [pc EXCEPT ![p] = step]
    /\ local' = local \/ \E what : local' = [local EXCEPT ![p] = what]

LEMMA GotoMoves == \A p, what : \A step \in Steps : Goto(p, step, what) => Moves(p)
  BY DEF Goto, Moves

LEMMA MovesAlone ==
    ASSUME ControlTypes, DOMAIN local = Procs, NEW p \in Procs, Moves(p)
    PROVE  /\ pc' \in [Procs -> Steps] /\ DOMAIN local' = Procs
           /\ \A q \in Procs \ {p} : pc'[q] = pc[q] /\ local'[q] = local[q]
  BY DEF ControlTypes, Moves

\* The flags of a step that commits, and of one that does not.
LEMMA WroteControl ==
    ASSUME ControlTypes, NEW p \in Procs, Wrote(p)
    PROVE  /\ writes < MaxWrites /\ writes' = writes + 1 /\ writes' \in 0..MaxWrites
           /\ quiet' \in [Procs -> BOOLEAN] /\ fk' = fk /\ NewGen \in Gens
  <1>1. writes < MaxWrites /\ writes' = writes + 1 /\ fk' = fk /\ writes \in 0..MaxWrites
    BY DEF Wrote, ControlTypes
  <1>2. writes' \in 0..MaxWrites /\ NewGen \in Gens
    BY <1>1, DbAssumption DEF NewGen, Gens
  <1>3. quiet' \in [Procs -> BOOLEAN]
    BY DEF Wrote
  <1> QED
    BY <1>1, <1>2, <1>3

LEMMA NoWriteControl ==
    ASSUME ControlTypes, NEW p \in Procs, NoWrite(p)
    PROVE  /\ UNCHANGED <<creds, servers, objs, cols, fk, acked, overlapped, writes>>
           /\ quiet' \in [Procs -> BOOLEAN]
  BY DEF NoWrite, rows, ControlTypes

\* Requests that write in the one step they have.
OneStep(p) ==
    \/ CredentialApi(p)
    \/ \E s \in Servers : DeleteServer(p, s)
    \/ \E s \in Servers, v \in Values, ref \in References, on \in BOOLEAN :
         CreateServer(p, s, v, ref, on)
    \/ \E o \in Objects : DeleteObject(p, o)
    \/ \E c \in cols : DeleteColumn(p, c)
    \/ \E doc \in Docs : ImportReplace(p, doc)

\* Requests that begin by reading.
Begins(p) ==
    \/ \E s \in Servers, change \in ServerChanges : ReadServer(p, s, change)
    \/ \E o \in Objects, change \in ObjectChanges : ReadObject(p, o, change)
    \/ \E o \in Objects, s \in Servers, v \in Values, names \in SUBSET Columns :
         (names # {} => o \in Tables) /\ LookupServer(p, o, s, v, names)
    \/ \E t \in Tables, c \in Columns : CheckTable(p, t, c)
    \/ \E doc \in Docs : ExportServers(p, doc)

Exports(p) == ExportTables(p) \/ ExportFunctions(p) \/ ExportSecrets(p) \/ ExportColumns(p)

\* The one that begins by writing.
Inlines(p) == \E s \in Servers, n \in CredNames, x \in Secrets : CreateServerInline(p, s, n, x)

Ends(p) ==
    \/ WriteServer(p) \/ InsertObject(p) \/ WriteObject(p) \/ InsertColumn(p) \/ ApplyMerge(p)
    \/ RefuseInline(p)

LEMMA StepCases ==
    ASSUME NEW p \in Procs, StepOf(p)
    PROVE  OneStep(p) \/ Begins(p) \/ Inlines(p) \/ Exports(p) \/ Ends(p)
  <1>1. CASE CredentialApi(p)
    BY <1>1 DEF OneStep
  <1>2. CASE ServerApi(p)
    BY <1>2 DEF ServerApi, OneStep, Begins, Inlines, Ends
  <1>3. CASE ImportApi(p)
    BY <1>3 DEF ImportApi, OneStep, Begins, Exports, Ends
  <1>4. CASE TableApi(p)
    <2>1. PICK t \in Tables : ObjectApi(p, t, {{}} \cup {{c} : c \in Columns})
      BY <1>4 DEF TableApi
    <2>2. t \in Objects /\ {{}} \cup {{c} : c \in Columns} \subseteq SUBSET Columns
      BY ObjectsApart
    <2> QED
      BY <2>1, <2>2 DEF ObjectApi, OneStep, Begins
  <1>5. CASE FunctionApi(p)
    <2>1. PICK f \in Funcs : ObjectApi(p, f, {{}})
      BY <1>5 DEF FunctionApi
    <2>2. f \in Objects /\ {{}} \subseteq SUBSET Columns
      BY ObjectsApart
    <2> QED
      BY <2>1, <2>2 DEF ObjectApi, OneStep, Begins
  <1>6. CASE ColumnApi(p)
    BY <1>6 DEF ColumnApi, OneStep, Begins, Ends
  <1>7. CASE InsertObject(p) \/ WriteObject(p)
    BY <1>7 DEF Ends
  <1> QED
    BY <1>1, <1>2, <1>3, <1>4, <1>5, <1>6, <1>7 DEF StepOf

LEMMA BeginMoves ==
    ASSUME ControlTypes, NEW p \in Procs, NEW step \in Steps, NEW what, Begin(p, step, what)
    PROVE  Moves(p) /\ ControlTypes' /\ UNCHANGED <<creds, servers, objs, cols>>
  <1>1. Moves(p) /\ UNCHANGED <<creds, servers, objs, cols, fk, quiet, acked, overlapped, writes>>
    BY GotoMoves DEF Begin, rows, history
  <1>2. pc' \in [Procs -> Steps]
    BY <1>1 DEF Moves, ControlTypes
  <1> QED
    BY <1>1, <1>2 DEF ControlTypes

(***************************************************************************)
(* Requests that begin                                                     *)
(***************************************************************************)
Kept == UNCHANGED <<creds, servers, objs, cols>>

LEMMA LivingRows ==
    ASSUME RowTypes
    PROVE  /\ \A s \in Servers : servers[s] # None => servers[s] \in ServerRow
           /\ \A o \in Objects : objs[o] # None => objs[o] \in ObjectRow
           /\ \A n \in CredNames : creds[n] # None => creds[n] \in CredRow
  BY DEF RowTypes

LEMMA BeginsStep ==
    ASSUME RowTypes, ControlTypes, DOMAIN local = Procs, NEW p \in Procs, Begins(p)
    PROVE  Moves(p) /\ ControlTypes' /\ Kept /\ Holds(pc'[p], local'[p])
  <1> USE DEF Kept
  <1>0. \A step \in Steps : \A what : Goto(p, step, what) => pc'[p] = step /\ local'[p] = what
    BY DEF Goto, ControlTypes
  <1>1. ASSUME NEW s \in Servers, NEW change \in ServerChanges, ReadServer(p, s, change)
        PROVE  Moves(p) /\ ControlTypes' /\ Kept /\ Holds(pc'[p], local'[p])
    <2> DEFINE l == [id |-> <<s, servers[s].gen>>, row |-> Overlay(change, servers[s])]
    <2>1. servers[s] # None /\ Begin(p, "patch", l)
      BY <1>1 DEF ReadServer
    <2>2. servers[s] \in ServerRow
      BY <2>1, LivingRows
    <2>3. \/ \E v \in Values : change = [opt |-> v]
          \/ \E b \in BOOLEAN : change = [on |-> b]
          \/ \E c \in Ids(CredNames) : change = [cred |-> c]
      <3>1. \A n \in Living(creds) : <<n, creds[n].gen>> \in Ids(CredNames)
        BY DEF Living, RowTypes, CredRow, Ids
      <3> QED
        BY <3>1 DEF ServerChanges
    <2>4. Overlay(change, servers[s]) \in ServerRow /\ Overlay(change, servers[s]).gen = servers[s].gen
      <3>1. PICK r \in ServerRow : r = servers[s]
        BY <2>2
      <3>2. r = [gen |-> r.gen, opt |-> r.opt, cred |-> r.cred, on |-> r.on]
            /\ r.gen \in Gens /\ r.opt \in Values /\ r.cred \in Ids(CredNames) \cup {None}
            /\ r.on \in BOOLEAN
        BY DEF ServerRow
      <3>3. CASE \E v \in Values : change = [opt |-> v]
        <4>1. PICK v \in Values : change = [opt |-> v]
          BY <3>3
        <4>2. Overlay(change, r) = [gen |-> r.gen, opt |-> v, cred |-> r.cred, on |-> r.on]
          BY <3>2, <4>1 DEF Overlay
        <4> QED
          BY <3>1, <3>2, <4>2 DEF ServerRow
      <3>4. CASE \E b \in BOOLEAN : change = [on |-> b]
        <4>1. PICK b \in BOOLEAN : change = [on |-> b]
          BY <3>4
        <4>2. Overlay(change, r) = [gen |-> r.gen, opt |-> r.opt, cred |-> r.cred, on |-> b]
          BY <3>2, <4>1 DEF Overlay
        <4> QED
          BY <3>1, <3>2, <4>2 DEF ServerRow
      <3>5. CASE \E c \in Ids(CredNames) : change = [cred |-> c]
        <4>1. PICK c \in Ids(CredNames) : change = [cred |-> c]
          BY <3>5
        <4>2. Overlay(change, r) = [gen |-> r.gen, opt |-> r.opt, cred |-> c, on |-> r.on]
          BY <3>2, <4>1 DEF Overlay
        <4> QED
          BY <3>1, <3>2, <4>2 DEF ServerRow
      <3> QED
        BY <2>3, <3>3, <3>4, <3>5
    <2>5. Holds("patch", l)
      BY <2>2, <2>4 DEF Holds, Ids, ServerRow
    <2>6. Goto(p, "patch", l) /\ "patch" \in Steps
      BY <2>1 DEF Begin, Steps
    <2> QED
      BY <1>0, <2>1, <2>5, <2>6, BeginMoves
  <1>2. ASSUME NEW o \in Objects, NEW change \in ObjectChanges, ReadObject(p, o, change)
        PROVE  Moves(p) /\ ControlTypes' /\ Kept /\ Holds(pc'[p], local'[p])
    <2> DEFINE l == [id |-> <<o, objs[o].gen>>, row |-> objs[o], change |-> change]
    <2>1. objs[o] # None /\ Begin(p, "patchObj", l)
      BY <1>2 DEF ReadObject
    <2>2. Holds("patchObj", l)
      BY <1>2, <2>1, LivingRows DEF Holds, Ids, ObjectRow
    <2>3. Goto(p, "patchObj", l) /\ "patchObj" \in Steps
      BY <2>1 DEF Begin, Steps
    <2> QED
      BY <1>0, <2>1, <2>2, <2>3, BeginMoves
  <1>3. ASSUME NEW o \in Objects, NEW s \in Servers, NEW v \in Values, NEW names \in SUBSET Columns,
               names # {} => o \in Tables, LookupServer(p, o, s, v, names)
        PROVE  Moves(p) /\ ControlTypes' /\ Kept /\ Holds(pc'[p], local'[p])
    <2> DEFINE l == [name |-> o, srv |-> <<s, servers[s].gen>>, val |-> v, cols |-> names]
    <2>1. servers[s] # None /\ Begin(p, "insertObj", l)
      BY <1>3 DEF LookupServer
    <2>2. Holds("insertObj", l)
      BY <1>3, <2>1, LivingRows DEF Holds, Ids, ServerRow
    <2>3. Goto(p, "insertObj", l) /\ "insertObj" \in Steps
      BY <2>1 DEF Begin, Steps
    <2> QED
      BY <1>0, <2>1, <2>2, <2>3, BeginMoves
  <1>4. ASSUME NEW t \in Tables, NEW c \in Columns, CheckTable(p, t, c)
        PROVE  Moves(p) /\ ControlTypes' /\ Kept /\ Holds(pc'[p], local'[p])
    <2> DEFINE l == [col |-> [table |-> <<t, objs[t].gen>>, name |-> c]]
    <2>1. objs[t] # None /\ Begin(p, "insertCol", l)
      BY <1>4 DEF CheckTable
    <2>2. objs[t].gen \in Gens
      BY <2>1, LivingRows, ObjectsApart DEF ObjectRow
    <2>3. Holds("insertCol", l)
      BY <2>2 DEF Holds, Ids, ColumnRow
    <2>4. Goto(p, "insertCol", l) /\ "insertCol" \in Steps
      BY <2>1 DEF Begin, Steps
    <2> QED
      BY <1>0, <2>1, <2>3, <2>4, BeginMoves
  <1>5. ASSUME NEW doc \in Docs, ExportServers(p, doc)
        PROVE  Moves(p) /\ ControlTypes' /\ Kept /\ Holds(pc'[p], local'[p])
    <2> DEFINE ss == [s \in Living(servers) |-> servers[s]]
               l  == [doc |-> doc, srv |-> ss]
    <2>1. Begin(p, "tables", l)
      BY <1>5 DEF ExportServers
    <2>2. ListedServers(ss)
      BY LivingRows DEF ListedServers, Living, RowTypes
    <2>3. Holds("tables", l)
      BY <2>2 DEF Holds
    <2>4. Goto(p, "tables", l) /\ "tables" \in Steps
      BY <2>1 DEF Begin, Steps
    <2> QED
      BY <1>0, <2>1, <2>3, <2>4, BeginMoves
  <1> QED
    BY <1>1, <1>2, <1>3, <1>4, <1>5 DEF Begins

(***************************************************************************)
(* Exports                                                                 *)
(***************************************************************************)

\* What ListTables and ListFunctions give is part of a document.
LEMMA ListedFits ==
    ASSUME RowTypes, NEW names \in SUBSET Objects
    PROVE  ObjectsFit(Listed(names), Owners)
  <1> DEFINE owner(o) == IF Has(servers, objs[o].srv) THEN objs[o].srv[1] ELSE None
             ks == {<<o, owner(o)>> : o \in Living(objs) \cap names}
  <1>1. ASSUME NEW o \in Living(objs) \cap names
        PROVE  o \in Objects /\ owner(o) \in Owners /\ objs[o].opt \in Values
               /\ objs[o].remote \in Values
    <2>1. objs[o] \in ObjectRow
      BY LivingRows DEF Living
    <2>2. objs[o].srv[1] \in Servers
      BY <2>1 DEF ObjectRow, Ids
    <2> QED
      BY <2>1, <2>2 DEF ObjectRow, Owners
  <1>2. ks \subseteq Objects \X Owners
    BY <1>1
  <1>3. ASSUME NEW k \in ks
        PROVE  objs[k[1]].remote \in Values /\ objs[k[1]].opt \in Values
    BY <1>1
  <1>4. Listed(names) = [k \in ks |->
                           [remote |-> objs[k[1]].remote, opt |-> objs[k[1]].opt, cols |-> {}]]
    BY DEF Listed
  <1>5. DOMAIN Listed(names) = ks
    BY <1>4
  <1>6. ASSUME NEW k \in ks
        PROVE  Listed(names)[k] \in DocObject /\ Listed(names)[k].cols = {}
    BY <1>3, <1>4 DEF DocObject
  <1> QED
    BY <1>2, <1>5, <1>6 DEF ObjectsFit

LEMMA OverlayFits ==
    ASSUME NEW f, NEW g, NEW owners, ObjectsFit(f, owners), ObjectsFit(g, owners)
    PROVE  ObjectsFit(Overlay(f, g), owners)
  BY DEF ObjectsFit, Overlay

LEMMA OverlayServers ==
    ASSUME NEW f, NEW g, ServersFit(f), ServersFit(g)
    PROVE  ServersFit(Overlay(f, g))
  BY DEF ServersFit, Overlay

LEMMA ExportsStep ==
    ASSUME RowTypes, ControlTypes, LocalOK, NEW p \in Procs, Exports(p)
    PROVE  Moves(p) /\ ControlTypes' /\ Kept /\ Holds(pc'[p], local'[p])
  <1>0. \A step \in Steps : \A what : Goto(p, step, what) => pc'[p] = step /\ local'[p] = what
    BY DEF Goto, ControlTypes, LocalOK
  <1>1. NoWrite(p)
    BY DEF Exports, ExportTables, ExportFunctions, ExportSecrets, ExportColumns
  <1>2. ASSUME NEW step \in Steps, NEW what, Goto(p, step, what), Holds(step, what)
        PROVE  Moves(p) /\ ControlTypes' /\ Kept /\ Holds(pc'[p], local'[p])
    <2>1. Moves(p)
      BY <1>2, GotoMoves
    <2>2. pc' \in [Procs -> Steps]
      BY <2>1 DEF Moves, ControlTypes
    <2>3. ControlTypes' /\ Kept
      BY <1>1, <2>2, NoWriteControl DEF ControlTypes, Kept
    <2> QED
      BY <1>0, <1>2, <2>1, <2>3
  <1>3. ASSUME End(p)
        PROVE  Moves(p) /\ ControlTypes' /\ Kept /\ Holds(pc'[p], local'[p])
    <2>1. Goto(p, "idle", Idle) /\ Holds("idle", Idle) /\ "idle" \in Steps
      BY <1>3 DEF End, Holds, Steps
    <2> QED
      BY <1>2, <2>1
  <1>4. Holds(pc[p], local[p])
    BY DEF LocalOK
  <1>5. PICK l : l = local[p]
    OBVIOUS
  <1>6. CASE ExportTables(p)
    <2>1. PICK os : os = Listed(Tables)
      OBVIOUS
    <2>2. ObjectsFit(os, Owners)
      BY <2>1, ListedFits, ObjectsApart
    <2> DEFINE w == [doc |-> l.doc, srv |-> l.srv, objs |-> os]
    <2>3. Goto(p, "functions", w) /\ pc[p] = "tables" /\ "functions" \in Steps
      BY <1>5, <1>6, <2>1 DEF ExportTables, Steps
    <2>4. Holds("tables", l)
      BY <1>4, <1>5, <2>3
    <2>5. Holds("functions", w)
      BY <2>2, <2>4 DEF Holds
    <2> QED
      BY <1>2, <2>3, <2>5
  <1>7. CASE ExportFunctions(p)
    <2>1. PICK os : os = Listed(Funcs)
      OBVIOUS
    <2>2. ObjectsFit(os, Owners)
      BY <2>1, ListedFits, ObjectsApart
    <2> DEFINE w == [l EXCEPT !.objs = Overlay(@, os)]
    <2>3. Goto(p, "secrets", w) /\ pc[p] = "functions" /\ "secrets" \in Steps
      BY <1>5, <1>7, <2>1 DEF ExportFunctions, Steps
    <2>4. Holds("functions", l)
      BY <1>4, <1>5, <2>3
    <2>5. ObjectsFit(Overlay(l.objs, os), Owners)
      BY <2>2, <2>4, OverlayFits DEF Holds
    <2>6. Holds("secrets", w)
      BY <2>4, <2>5 DEF Holds
    <2> QED
      BY <1>2, <2>3, <2>6
  <1>8. CASE ExportSecrets(p)
    <2> DEFINE used == {s \in DOMAIN l.srv : l.srv[s].cred # None}
               alone(s) == \A r \in used : l.srv[r].cred = l.srv[s].cred => r = s
               entry(s) == [opt |-> l.srv[s].opt, on |-> l.srv[s].on,
                            secret |-> IF s \in used /\ alone(s)
                                       THEN SecretOf(l.srv[s].cred) ELSE None]
               w == [l EXCEPT !.srv = [s \in DOMAIN @ |-> entry(s)]]
    <2>1. pc[p] = "secrets" /\ "columns" \in Steps
      BY <1>8 DEF ExportSecrets, Steps
    <2>2. Holds("secrets", l)
      BY <1>4, <1>5, <2>1
    <2>3. CASE \A s \in used : Has(creds, l.srv[s].cred)
      <3>1. Goto(p, "columns", w)
        BY <1>5, <1>8, <2>3 DEF ExportSecrets
      <3>2. ListedServers(l.srv)
        BY <2>2 DEF Holds
      <3>3. ASSUME NEW s \in DOMAIN l.srv
            PROVE  entry(s) \in DocServer
        <4>1. l.srv[s] \in ServerRow /\ s \in Servers
          BY <3>2 DEF ListedServers
        <4>2. CASE s \in used /\ alone(s)
          <5>1. PICK ref : ref = l.srv[s].cred
            OBVIOUS
          <5>2. ref \in Ids(CredNames) /\ Has(creds, ref)
            BY <2>3, <4>1, <4>2, <5>1 DEF ServerRow
          <5>3. creds[ref[1]] \in CredRow
            BY <5>2, LivingRows DEF Has, Ids
          <5>4. SecretOf(ref) \in Secrets
            BY <5>3 DEF SecretOf, CredRow
          <5> QED
            BY <4>1, <4>2, <5>1, <5>4 DEF DocServer, ServerRow
        <4>3. CASE ~(s \in used /\ alone(s))
          BY <4>1, <4>3 DEF DocServer, ServerRow
        <4> QED
          BY <4>2, <4>3
      <3>4. ServersFit([s \in DOMAIN l.srv |-> entry(s)])
        BY <3>2, <3>3 DEF ServersFit, ListedServers
      <3>5. Holds("columns", w)
        BY <2>2, <3>4 DEF Holds
      <3> QED
        BY <1>2, <2>1, <3>1, <3>5
    <2>4. CASE ~ \A s \in used : Has(creds, l.srv[s].cred)
      <3>1. End(p)
        BY <1>5, <1>8, <2>4 DEF ExportSecrets
      <3> QED
        BY <1>3, <3>1
    <2> QED
      BY <2>3, <2>4
  <1>9. CASE ExportColumns(p)
    <2> DEFINE of(o)  == {c.name : c \in {d \in cols : d.table = <<o, objs[o].gen>>}}
               tables == {k \in DOMAIN l.objs : k[1] \in Tables}
               w == [l EXCEPT !.objs = [k \in DOMAIN @ |->
                        IF k \in tables THEN [@[k] EXCEPT !.cols = of(k[1])] ELSE @[k]]]
               os == [k \in DOMAIN l.objs |->
                        IF k \in tables THEN [l.objs[k] EXCEPT !.cols = of(k[1])] ELSE l.objs[k]]
    <2>1. pc[p] = "columns" /\ "apply" \in Steps
      BY <1>9 DEF ExportColumns, Steps
    <2>2. Holds("columns", l)
      BY <1>4, <1>5, <2>1
    <2>3. CASE \A k \in tables : objs[k[1]] # None
      <3>1. Goto(p, "apply", w)
        BY <1>5, <1>9, <2>3 DEF ExportColumns
      <3>2. ObjectsFit(l.objs, Owners)
        BY <2>2 DEF Holds
      <3>3. \A o : of(o) \subseteq Columns
        BY DEF RowTypes, ColumnRow
      <3>4. ASSUME NEW k \in DOMAIN l.objs
            PROVE  k \in Objects \X Owners /\ os[k] \in DocObject
                   /\ (k[1] \in Funcs => os[k].cols = {})
        <4>1. k \in Objects \X Owners /\ l.objs[k] \in DocObject
              /\ (k[1] \in Funcs => l.objs[k].cols = {})
          BY <3>2 DEF ObjectsFit
        <4>2. CASE k \in tables
          <5>1. os[k] = [l.objs[k] EXCEPT !.cols = of(k[1])] /\ k[1] \notin Funcs
            BY <4>2, ObjectsApart
          <5>2. PICK d \in DocObject : d = l.objs[k]
            BY <4>1
          <5>3. PICK cs \in SUBSET Columns : cs = of(k[1])
            BY <3>3
          <5>4. [d EXCEPT !.cols = cs] = [remote |-> d.remote, opt |-> d.opt, cols |-> cs]
                /\ d.remote \in Values /\ d.opt \in Values
            BY DEF DocObject
          <5>5. os[k] \in DocObject
            BY <5>1, <5>2, <5>3, <5>4 DEF DocObject
          <5> HIDE DEF os
          <5> QED
            BY <4>1, <5>1, <5>5
        <4>3. CASE k \notin tables
          BY <4>1, <4>3
        <4> QED
          BY <4>2, <4>3
      <3>5. ObjectsFit(os, Owners)
        <4>1. DOMAIN os = DOMAIN l.objs
          OBVIOUS
        <4> HIDE DEF os
        <4> QED
          BY <3>4, <4>1 DEF ObjectsFit
      <3>6. w = [doc |-> l.doc, srv |-> l.srv, objs |-> os]
        <4>1. l = [doc |-> l.doc, srv |-> l.srv, objs |-> l.objs] /\ w = [l EXCEPT !.objs = os]
          BY <2>2 DEF Holds
        <4> HIDE DEF os, w
        <4> QED
          BY <4>1
      <3>7. Holds("apply", w)
        <4> HIDE DEF os, w
        <4> QED
          BY <2>2, <3>5, <3>6 DEF Holds
      <3> QED
        BY <1>2, <2>1, <3>1, <3>7
    <2>4. CASE ~ \A k \in tables : objs[k[1]] # None
      <3>1. End(p)
        BY <1>5, <1>9, <2>4 DEF ExportColumns
      <3> QED
        BY <1>3, <3>1
    <2> QED
      BY <2>3, <2>4
  <1> QED
    BY <1>6, <1>7, <1>8, <1>9 DEF Exports

(***************************************************************************)
(* Writes                                                                  *)
(***************************************************************************)

\* A row has the generation of this write, or was there under the same ID.
Fresh(t, tNext) ==
    \A n \in DOMAIN t : tNext[n] # None =>
        tNext[n].gen = NewGen \/ (t[n] # None /\ tNext[n].gen = t[n].gen)

\* What every write has to establish.
Sound == RowTypes' /\ RefsIntact' /\ Fresh(servers, servers') /\ Fresh(objs, objs')

LEMMA KeptIsSound ==
    ASSUME RowTypes, RefsIntact, Kept, fk' = fk
    PROVE  Sound
  <1>1. RowTypes' /\ RefsIntact'
    BY DEF Kept, RowTypes, RefsIntact, Living, Has
  <1>2. Fresh(servers, servers') /\ Fresh(objs, objs')
    BY DEF Kept, Fresh
  <1> QED
    BY <1>1, <1>2 DEF Sound

LEMMA CredentialsSound ==
    ASSUME RowTypes, RefsIntact, UNCHANGED <<servers, objs, cols, fk>>,
           creds' \in [CredNames -> CredRow \cup {None}]
    PROVE  Sound
  <1>1. RowTypes' /\ RefsIntact'
    BY DEF RowTypes, RefsIntact, Living, Has
  <1>2. Fresh(servers, servers') /\ Fresh(objs, objs')
    BY DEF Fresh
  <1> QED
    BY <1>1, <1>2 DEF Sound

LEMMA CreateServerSound ==
    ASSUME RowTypes, ControlTypes, RefsIntact,
           NEW p \in Procs, NEW s \in Servers, NEW v \in Values, NEW ref \in References,
           NEW on \in BOOLEAN, CreateServer(p, s, v, ref, on)
    PROVE  Sound
  <1>1. UNCHANGED <<creds, objs, cols, fk>> /\ servers[s] = None /\ NewGen \in Gens
    BY WroteControl DEF CreateServer
  <1>2. PICK row : row = [gen |-> NewGen, opt |-> v, cred |-> ref, on |-> StoredEnabled(on)]
    OBVIOUS
  <1>3. servers' = [servers EXCEPT ![s] = row]
    BY <1>2 DEF CreateServer
  <1>4. row \in ServerRow /\ row.gen = NewGen
    <2>1. ref \in Ids(CredNames) \cup {None}
      BY DEF References, Living, RowTypes, CredRow, Ids
    <2> QED
      BY <1>1, <1>2, <2>1 DEF ServerRow, StoredEnabled
  <1>5. RowTypes'
    BY <1>1, <1>3, <1>4 DEF RowTypes
  <1>6. RefsIntact'
    <2> SUFFICES ASSUME fk
                 PROVE  /\ \A o \in Living(objs) : Has(servers', objs[o].srv)
                        /\ \A c \in cols : Has(objs, c.table)
      BY <1>1 DEF RefsIntact, Living, Has
    <2>1. ASSUME NEW o \in Living(objs)
          PROVE  Has(servers', objs[o].srv)
      <3>1. Has(servers, objs[o].srv)
        BY DEF RefsIntact
      <3>2. objs[o].srv[1] \in Servers
        BY LivingRows DEF Living, ObjectRow, Ids, RowTypes
      <3> QED
        BY <1>1, <1>3, <3>1, <3>2 DEF Has, RowTypes
    <2> QED
      BY <2>1 DEF RefsIntact
  <1>7. Fresh(servers, servers') /\ Fresh(objs, objs')
    BY <1>1, <1>3, <1>4 DEF Fresh, RowTypes
  <1> QED
    BY <1>5, <1>6, <1>7 DEF Sound

LEMMA RemoveRows ==
    ASSUME RowTypes, RefsIntact, NEW os \in SUBSET Living(objs), RemoveObjects(os)
    PROVE  /\ objs' \in [Objects -> ObjectRow \cup {None}] /\ cols' \subseteq cols
           /\ \A o \in Objects : objs'[o] # None => o \notin os /\ objs'[o] = objs[o]
           /\ fk => \A c \in cols' : Has(objs', c.table)
  <1>1. objs' = [o \in Objects |-> IF o \in os THEN None ELSE objs[o]]
    BY DEF RemoveObjects
  <1>2. objs' \in [Objects -> ObjectRow \cup {None}]
    BY <1>1 DEF RowTypes
  <1>3. cols' \subseteq cols
    BY DEF RemoveObjects, ColumnsOf
  <1>4. ASSUME fk, NEW c \in cols'
        PROVE  Has(objs', c.table)
    <2>1. c \in cols /\ c.table \notin {<<o, objs[o].gen>> : o \in os}
      BY <1>4 DEF RemoveObjects, ColumnsOf
    <2>2. PICK t \in Tables, g \in Gens : c.table = <<t, g>>
      BY <2>1 DEF RowTypes, ColumnRow, Ids
    <2>3. objs[t] # None /\ objs[t].gen = g
      BY <1>4, <2>1, <2>2 DEF RefsIntact, Has
    <2>4. t \notin os
      BY <2>1, <2>2, <2>3
    <2> QED
      BY <1>1, <2>2, <2>3, <2>4, ObjectsApart DEF Has
  <1> QED
    BY <1>1, <1>2, <1>3, <1>4

LEMMA DeleteServerSound ==
    ASSUME RowTypes, ControlTypes, RefsIntact,
           NEW p \in Procs, NEW s \in Servers, DeleteServer(p, s)
    PROVE  Sound
  <1> DEFINE gone == ObjectsOf({<<s, servers[s].gen>>})
  <1>1. UNCHANGED <<creds, fk>> /\ servers[s] # None /\ servers' = [servers EXCEPT ![s] = None]
        /\ (IF fk THEN RemoveObjects(gone) ELSE UNCHANGED <<objs, cols>>)
    BY WroteControl DEF DeleteServer
  <1>2. servers' \in [Servers -> ServerRow \cup {None}] /\ Fresh(servers, servers')
    BY <1>1 DEF RowTypes, Fresh
  <1>3. gone \in SUBSET Living(objs)
    BY DEF ObjectsOf
  <1>4. CASE fk
    <2>1. /\ objs' \in [Objects -> ObjectRow \cup {None}] /\ cols' \subseteq cols
          /\ \A o \in Objects : objs'[o] # None => o \notin gone /\ objs'[o] = objs[o]
          /\ \A c \in cols' : Has(objs', c.table)
      BY <1>1, <1>3, <1>4, RemoveRows
    <2>2. ASSUME NEW o \in Objects, objs'[o] # None
          PROVE  Has(servers', objs'[o].srv)
      <3>1. o \in Living(objs) /\ objs[o].srv # <<s, servers[s].gen>> /\ objs'[o] = objs[o]
        BY <2>1, <2>2 DEF ObjectsOf, Living, RowTypes
      <3>2. PICK n \in Servers, g \in Gens : objs[o].srv = <<n, g>>
        BY <3>1, LivingRows DEF Living, ObjectRow, Ids, RowTypes
      <3>3. servers[n] # None /\ servers[n].gen = g
        BY <1>4, <3>1, <3>2 DEF RefsIntact, Has
      <3> QED
        BY <1>1, <3>1, <3>2, <3>3 DEF Has, RowTypes
    <2>3. RowTypes' /\ Fresh(objs, objs')
      BY <1>1, <1>2, <2>1 DEF RowTypes, Fresh
    <2>4. RefsIntact'
      BY <2>1, <2>2 DEF RefsIntact, Living
    <2> QED
      BY <1>2, <2>3, <2>4 DEF Sound
  <1>5. CASE ~fk
    BY <1>1, <1>2, <1>5 DEF Sound, RowTypes, RefsIntact, Fresh
  <1> QED
    BY <1>4, <1>5

LEMMA DeleteObjectSound ==
    ASSUME RowTypes, ControlTypes, RefsIntact,
           NEW p \in Procs, NEW o \in Objects, DeleteObject(p, o)
    PROVE  Sound
  <1>1. UNCHANGED <<creds, servers, fk>> /\ objs[o] # None /\ RemoveObjects({o})
    BY WroteControl DEF DeleteObject
  <1>2. {o} \in SUBSET Living(objs)
    BY <1>1 DEF Living, RowTypes
  <1>3. /\ objs' \in [Objects -> ObjectRow \cup {None}] /\ cols' \subseteq cols
        /\ \A x \in Objects : objs'[x] # None => objs'[x] = objs[x]
        /\ fk => \A c \in cols' : Has(objs', c.table)
    BY <1>1, <1>2, RemoveRows
  <1>4. RowTypes' /\ Fresh(objs, objs') /\ Fresh(servers, servers')
    BY <1>1, <1>3 DEF RowTypes, Fresh
  <1>5. RefsIntact'
    <2>1. ASSUME fk, NEW x \in Objects, objs'[x] # None
          PROVE  Has(servers', objs'[x].srv)
      BY <1>1, <1>3, <2>1 DEF RefsIntact, Living, Has, RowTypes
    <2> QED
      BY <1>1, <1>3, <2>1 DEF RefsIntact, Living
  <1> QED
    BY <1>4, <1>5 DEF Sound

LEMMA ColumnsShrink ==
    ASSUME RowTypes, RefsIntact, UNCHANGED <<creds, servers, objs, fk>>, cols' \subseteq cols
    PROVE  Sound
  <1>1. RowTypes' /\ RefsIntact'
    BY DEF RowTypes, RefsIntact, Living, Has
  <1>2. Fresh(servers, servers') /\ Fresh(objs, objs')
    BY DEF Fresh
  <1> QED
    BY <1>1, <1>2 DEF Sound

\* A row written over one of the same ID.
LEMMA RewriteServer ==
    ASSUME RowTypes, RefsIntact, UNCHANGED <<creds, objs, cols, fk>>,
           NEW s \in Servers, NEW row \in ServerRow, servers[s] # None, row.gen = servers[s].gen,
           servers' = [servers EXCEPT ![s] = row]
    PROVE  Sound
  <1>1. row # None
    BY DocAssumption
  <1>2. RowTypes'
    BY DEF RowTypes
  <1>3. \A n \in Servers : \A g : Has(servers, <<n, g>>) => Has(servers', <<n, g>>)
    BY <1>1 DEF Has, RowTypes
  <1>4. ASSUME fk, NEW o \in Living(objs)
        PROVE  Has(servers', objs[o].srv)
    <2>1. PICK n \in Servers, g \in Gens : objs[o].srv = <<n, g>>
      BY LivingRows DEF Living, ObjectRow, Ids, RowTypes
    <2> QED
      BY <1>3, <1>4, <2>1 DEF RefsIntact
  <1>5. RefsIntact'
    BY <1>4 DEF RefsIntact, Living, Has
  <1>6. Fresh(servers, servers') /\ Fresh(objs, objs')
    BY DEF Fresh, RowTypes
  <1> QED
    BY <1>2, <1>5, <1>6 DEF Sound

LEMMA RewriteObject ==
    ASSUME RowTypes, RefsIntact, UNCHANGED <<creds, servers, cols, fk>>,
           NEW x \in Objects, NEW row \in ObjectRow, objs[x] # None,
           row.gen = objs[x].gen, row.srv = objs[x].srv,
           objs' = [objs EXCEPT ![x] = row]
    PROVE  Sound
  <1>1. row # None
    BY DocAssumption
  <1>2. RowTypes'
    BY DEF RowTypes
  <1>3. ASSUME fk, NEW o \in Objects, objs'[o] # None
        PROVE  Has(servers', objs'[o].srv)
    <2>1. objs[o] # None /\ objs'[o].srv = objs[o].srv
      BY <1>3 DEF RowTypes
    <2> QED
      BY <1>3, <2>1 DEF RefsIntact, Living, RowTypes, Has
  <1>4. ASSUME fk, NEW c \in cols
        PROVE  Has(objs', c.table)
    <2>1. PICK t \in Tables, g \in Gens : c.table = <<t, g>>
      BY DEF RowTypes, ColumnRow, Ids
    <2> QED
      BY <1>1, <1>4, <2>1, ObjectsApart DEF RefsIntact, Has, RowTypes
  <1>5. RefsIntact'
    BY <1>3, <1>4 DEF RefsIntact, Living
  <1>6. Fresh(servers, servers') /\ Fresh(objs, objs')
    BY DEF Fresh, RowTypes
  <1> QED
    BY <1>2, <1>5, <1>6 DEF Sound

LEMMA WriteServerSound ==
    ASSUME RowTypes, ControlTypes, RefsIntact, NEW p \in Procs, Holds(pc[p], local[p]),
           WriteServer(p)
    PROVE  Sound
  <1>1. PICK l : l = local[p]
    OBVIOUS
  <1>2. pc[p] = "patch" /\ l.id \in Ids(Servers) /\ l.row \in ServerRow /\ l.row.gen = l.id[2]
    BY <1>1 DEF WriteServer, Holds
  <1>3. CASE Has(servers, l.id)
    <2>1. servers' = [servers EXCEPT ![l.id[1]] = l.row] /\ UNCHANGED <<creds, objs, cols, fk>>
      BY <1>1, <1>3, WroteControl DEF WriteServer
    <2>2. l.id[1] \in Servers /\ servers[l.id[1]] # None /\ l.row.gen = servers[l.id[1]].gen
      BY <1>2, <1>3 DEF Has, Ids
    <2> QED
      BY <1>2, <2>1, <2>2, RewriteServer
  <1>4. CASE ~Has(servers, l.id)
    <2>1. NoWrite(p)
      BY <1>1, <1>4 DEF WriteServer
    <2> QED
      BY <2>1, NoWriteControl, KeptIsSound DEF Kept
  <1> QED
    BY <1>3, <1>4

\* What a patch of an object makes of a row.
LEMMA ChangedRow ==
    ASSUME NEW r \in ObjectRow, NEW change \in ObjectChanges
    PROVE  /\ Overlay(change, r) \in ObjectRow
           /\ \A f \in DOMAIN r : f \notin DOMAIN change => Overlay(change, r)[f] = r[f]
           /\ Overlay(change, r).gen = r.gen /\ Overlay(change, r).srv = r.srv
  <1>1. r = [gen |-> r.gen, srv |-> r.srv, remote |-> r.remote, opt |-> r.opt]
        /\ r.gen \in Gens /\ r.srv \in Ids(Servers) /\ r.remote \in Values /\ r.opt \in Values
    BY DEF ObjectRow
  <1>2. CASE \E v \in Values : change = [remote |-> v]
    <2>1. PICK v \in Values : change = [remote |-> v]
      BY <1>2
    <2>2. Overlay(change, r) = [gen |-> r.gen, srv |-> r.srv, remote |-> v, opt |-> r.opt]
      BY <1>1, <2>1 DEF Overlay
    <2> QED
      BY <1>1, <2>1, <2>2 DEF ObjectRow
  <1>3. CASE \E v \in Values : change = [opt |-> v]
    <2>1. PICK v \in Values : change = [opt |-> v]
      BY <1>3
    <2>2. Overlay(change, r) = [gen |-> r.gen, srv |-> r.srv, remote |-> r.remote, opt |-> v]
      BY <1>1, <2>1 DEF Overlay
    <2> QED
      BY <1>1, <2>1, <2>2 DEF ObjectRow
  <1> QED
    BY <1>2, <1>3 DEF ObjectChanges

LEMMA WriteObjectSound ==
    ASSUME RowTypes, ControlTypes, RefsIntact, NEW p \in Procs, Holds(pc[p], local[p]),
           WriteObject(p)
    PROVE  Sound
  <1>1. PICK l : l = local[p]
    OBVIOUS
  <1>2. pc[p] = "patchObj" /\ l.id \in Ids(Objects) /\ l.change \in ObjectChanges
    BY <1>1 DEF WriteObject, Holds
  <1>3. CASE Has(objs, l.id)
    <2>1. PICK x \in Objects : x = l.id[1]
      BY <1>2 DEF Ids
    <2>2. objs[x] # None /\ objs[x] \in ObjectRow
      BY <1>3, <2>1, LivingRows DEF Has
    <2>3. PICK row : row = Overlay(l.change, objs[x])
      OBVIOUS
    <2>4. objs' = [objs EXCEPT ![x] = row] /\ UNCHANGED <<creds, servers, cols, fk>>
      BY <1>1, <1>3, <2>1, <2>3, WroteControl DEF WriteObject
    <2>5. row \in ObjectRow /\ row.gen = objs[x].gen /\ row.srv = objs[x].srv
      BY <1>2, <2>2, <2>3, ChangedRow
    <2> QED
      BY <2>2, <2>4, <2>5, RewriteObject
  <1>4. CASE ~Has(objs, l.id)
    <2>1. NoWrite(p)
      BY <1>1, <1>4 DEF WriteObject
    <2> QED
      BY <2>1, NoWriteControl, KeptIsSound DEF Kept
  <1> QED
    BY <1>3, <1>4

LEMMA InsertColumnSound ==
    ASSUME RowTypes, ControlTypes, RefsIntact, NEW p \in Procs, Holds(pc[p], local[p]),
           InsertColumn(p)
    PROVE  Sound
  <1>1. PICK c : c = local[p].col
    OBVIOUS
  <1>2. pc[p] = "insertCol" /\ c \in ColumnRow
    BY <1>1 DEF InsertColumn, Holds
  <1>3. CASE ColumnsFree({c.name}) /\ ParentThere(objs, c.table)
    <2>1. cols' = cols \cup {c} /\ UNCHANGED <<creds, servers, objs, fk>>
      BY <1>1, <1>3, WroteControl DEF InsertColumn
    <2>2. RowTypes' /\ Fresh(servers, servers') /\ Fresh(objs, objs')
      BY <1>2, <2>1 DEF RowTypes, Fresh
    <2>3. RefsIntact'
      BY <1>3, <2>1 DEF RefsIntact, Living, Has, ParentThere
    <2> QED
      BY <2>2, <2>3 DEF Sound
  <1>4. CASE ~(ColumnsFree({c.name}) /\ ParentThere(objs, c.table))
    <2>1. NoWrite(p)
      BY <1>1, <1>4 DEF InsertColumn
    <2> QED
      BY <2>1, NoWriteControl, KeptIsSound DEF Kept
  <1> QED
    BY <1>3, <1>4

LEMMA InsertObjectSound ==
    ASSUME RowTypes, ControlTypes, RefsIntact, NEW p \in Procs, Holds(pc[p], local[p]),
           InsertObject(p)
    PROVE  Sound
  <1>1. PICK l : l = local[p]
    OBVIOUS
  <1>2. PICK x : x = l.name
    OBVIOUS
  <1>3. /\ pc[p] = "insertObj" /\ x \in Objects /\ l.srv \in Ids(Servers) /\ l.val \in Values
        /\ l.cols \subseteq Columns /\ (l.cols # {} => x \in Tables)
    BY <1>1, <1>2 DEF InsertObject, Holds
  <1>4. CASE objs[x] = None /\ ColumnsFree(l.cols) /\ ParentThere(servers, l.srv)
    <2>1. PICK g : g = NewGen
      OBVIOUS
    <2>2. PICK row : row = [gen |-> g, srv |-> l.srv, remote |-> l.val, opt |-> l.val]
      OBVIOUS
    <2>3. /\ objs' = [objs EXCEPT ![x] = row]
          /\ cols' = cols \cup {[table |-> <<x, g>>, name |-> c] : c \in l.cols}
          /\ Wrote(p) /\ UNCHANGED <<creds, servers>>
      BY <1>1, <1>2, <1>4, <2>1, <2>2 DEF InsertObject
    <2>4. fk' = fk /\ g \in Gens
      BY <2>1, <2>3, WroteControl
    <2>5. row \in ObjectRow /\ row # None
      BY <1>3, <2>2, <2>4, DocAssumption DEF ObjectRow
    <2>6. \A c \in l.cols : [table |-> <<x, g>>, name |-> c] \in ColumnRow
      BY <1>3, <2>4 DEF ColumnRow, Ids
    <2>7. RowTypes'
      BY <1>3, <2>3, <2>5, <2>6 DEF RowTypes
    <2>8. Fresh(servers, servers') /\ Fresh(objs, objs')
      BY <2>1, <2>2, <2>3 DEF Fresh, RowTypes
    <2>9. ASSUME fk, NEW o \in Objects, objs'[o] # None
          PROVE  Has(servers', objs'[o].srv)
      <3>1. CASE o = x
        BY <1>3, <1>4, <2>2, <2>3, <2>9, <3>1 DEF ParentThere, Has, RowTypes
      <3>2. CASE o # x
        BY <2>3, <2>9, <3>2 DEF RefsIntact, Living, Has, RowTypes
      <3> QED
        BY <3>1, <3>2
    <2>10. ASSUME fk, NEW c \in cols
           PROVE  Has(objs', c.table)
      <3>1. PICK t \in Tables, h \in Gens : c.table = <<t, h>>
        BY DEF RowTypes, ColumnRow, Ids
      <3> QED
        BY <1>4, <2>3, <2>10, <3>1, ObjectsApart DEF RefsIntact, Has, RowTypes
    <2>11. ASSUME NEW c \in l.cols
           PROVE  Has(objs', <<x, g>>)
      BY <1>3, <2>2, <2>3, <2>5 DEF Has, RowTypes
    <2>12. RefsIntact'
      <3>1. ASSUME fk, NEW c \in cols'
            PROVE  Has(objs', c.table)
        <4>1. CASE c \in cols
          BY <2>10, <3>1, <4>1
        <4>2. CASE c \notin cols
          <5>1. c.table = <<x, g>> /\ \E n \in l.cols : TRUE
            BY <2>3, <4>2
          <5> QED
            BY <2>11, <5>1
        <4> QED
          BY <4>1, <4>2
      <3>2. \A o \in Living(objs') : o \in Objects /\ objs'[o] # None
        BY <2>3 DEF Living, RowTypes
      <3> QED
        BY <2>4, <2>9, <3>1, <3>2 DEF RefsIntact
    <2> QED
      BY <2>7, <2>8, <2>12 DEF Sound
  <1>5. CASE ~(objs[x] = None /\ ColumnsFree(l.cols) /\ ParentThere(servers, l.srv))
    <2>1. NoWrite(p)
      BY <1>1, <1>2, <1>5 DEF InsertObject
    <2> QED
      BY <2>1, NoWriteControl, KeptIsSound DEF Kept
  <1> QED
    BY <1>4, <1>5

\* An import: every row is new, and refers to rows of the same import.
LEMMA InstallSound ==
    ASSUME RowTypes, ControlTypes, NEW p \in Procs, NEW doc,
           ServersFit(doc.servers), ObjectsFit(doc.objs, Owners), Importable(doc), Install(p, doc)
    PROVE  /\ Sound
           /\ \A s \in DOMAIN doc.servers : servers'[s] # None
           /\ \A o \in ObjectNames(doc) : objs'[o] # None
  <1> DEFINE key(o)  == CHOOSE k \in DOMAIN doc.objs : k[1] = o
             cred(s) == doc.servers[s].secret # None
  <1>1. PICK g : g = NewGen
    OBVIOUS
  <1>2. g \in Gens /\ fk' = fk
    BY <1>1, WroteControl DEF Install
  <1>3. /\ creds' = [s \in CredNames |->
                       IF s \in DOMAIN doc.servers /\ cred(s)
                       THEN [gen |-> g, secret |-> doc.servers[s].secret] ELSE None]
        /\ servers' = [s \in Servers |->
                         IF s \in DOMAIN doc.servers
                         THEN [gen |-> g, opt |-> doc.servers[s].opt,
                               cred |-> IF cred(s) THEN <<s, g>> ELSE None,
                               on |-> StoredEnabled(doc.servers[s].on)]
                         ELSE None]
        /\ objs' = [o \in Objects |->
                      IF o \in ObjectNames(doc)
                      THEN [gen |-> g, srv |-> <<key(o)[2], g>>,
                            remote |-> doc.objs[key(o)].remote, opt |-> doc.objs[key(o)].opt]
                      ELSE None]
        /\ cols' = UNION {{[table |-> <<k[1], g>>, name |-> c] : c \in doc.objs[k].cols} :
                             k \in DOMAIN doc.objs}
    BY <1>1 DEF Install
  <1>4. \A s \in DOMAIN doc.servers : s \in Servers /\ doc.servers[s] \in DocServer
    BY DEF ServersFit
  <1>5. \A k \in DOMAIN doc.objs :
          /\ k \in Objects \X Owners /\ k[2] \in DOMAIN doc.servers /\ k[2] \in Servers
          /\ doc.objs[k] \in DocObject /\ (k[1] \in Funcs => doc.objs[k].cols = {})
    BY <1>4 DEF ObjectsFit, Importable
  <1>6. \A o \in ObjectNames(doc) : key(o) \in DOMAIN doc.objs
    BY DEF ObjectNames
  <1>7. creds' \in [CredNames -> CredRow \cup {None}]
    <2>1. \A s \in DOMAIN doc.servers : cred(s) => doc.servers[s].secret \in Secrets
      BY <1>4 DEF DocServer
    <2> QED
      BY <1>2, <1>3, <2>1 DEF CredRow
  <1>8. ASSUME NEW s \in DOMAIN doc.servers
        PROVE  servers'[s] \in ServerRow /\ servers'[s].gen = g
    <2>1. servers'[s] = [gen |-> g, opt |-> doc.servers[s].opt,
                         cred |-> IF cred(s) THEN <<s, g>> ELSE None,
                         on |-> StoredEnabled(doc.servers[s].on)]
      BY <1>3, <1>4
    <2>2. (IF cred(s) THEN <<s, g>> ELSE None) \in Ids(CredNames) \cup {None}
      BY <1>2, <1>4 DEF Ids, CredNames
    <2> QED
      BY <1>2, <1>4, <2>1, <2>2 DEF ServerRow, DocServer, StoredEnabled
  <1>9. \A s \in Servers \ DOMAIN doc.servers : servers'[s] = None
    BY <1>3
  <1>10. servers' \in [Servers -> ServerRow \cup {None}] /\ Fresh(servers, servers')
    <2>1. DOMAIN servers' = Servers /\ servers' = [s \in Servers |-> servers'[s]]
      BY <1>3
    <2>2. \A s \in Servers : servers'[s] \in ServerRow \cup {None}
      BY <1>8, <1>9
    <2>3. \A s \in Servers : servers'[s] # None => servers'[s].gen = NewGen
      BY <1>1, <1>8, <1>9
    <2> QED
      BY <2>1, <2>2, <2>3 DEF Fresh, RowTypes
  <1>11. ASSUME NEW o \in ObjectNames(doc)
         PROVE  /\ o \in Objects /\ objs'[o] \in ObjectRow /\ objs'[o].gen = g
                /\ objs'[o].srv[1] \in DOMAIN doc.servers /\ objs'[o].srv[2] = g
    <2>1. PICK k \in DOMAIN doc.objs : k = key(o)
      BY <1>6
    <2>2. o \in Objects
      BY <1>5 DEF ObjectNames
    <2>3. objs'[o] = [gen |-> g, srv |-> <<k[2], g>>, remote |-> doc.objs[k].remote,
                      opt |-> doc.objs[k].opt]
      BY <1>3, <2>1, <2>2
    <2>4. <<k[2], g>> \in Ids(Servers) /\ doc.objs[k].remote \in Values /\ doc.objs[k].opt \in Values
      BY <1>2, <1>5 DEF Ids, DocObject
    <2> QED
      BY <1>2, <1>5, <2>2, <2>3, <2>4 DEF ObjectRow
  <1>12. \A o \in Objects \ ObjectNames(doc) : objs'[o] = None
    BY <1>3
  <1>13. objs' \in [Objects -> ObjectRow \cup {None}] /\ Fresh(objs, objs')
    <2>1. DOMAIN objs' = Objects /\ objs' = [o \in Objects |-> objs'[o]]
      BY <1>3
    <2>2. \A o \in Objects : objs'[o] \in ObjectRow \cup {None}
      BY <1>11, <1>12
    <2>3. \A o \in Objects : objs'[o] # None => objs'[o].gen = NewGen
      BY <1>1, <1>11, <1>12
    <2> QED
      BY <2>1, <2>2, <2>3 DEF Fresh, RowTypes
  <1>14. ASSUME NEW c \in cols'
         PROVE  c \in ColumnRow /\ Has(objs', c.table)
    <2>1. PICK k \in DOMAIN doc.objs : \E n \in doc.objs[k].cols :
            c = [table |-> <<k[1], g>>, name |-> n]
      BY <1>3
    <2>2. k[1] \in Tables /\ doc.objs[k].cols \subseteq Columns
      BY <1>5, <2>1 DEF DocObject, Objects
    <2>3. k[1] \in ObjectNames(doc) /\ objs'[k[1]] # None /\ objs'[k[1]].gen = g
      BY <1>11, DocAssumption DEF ObjectNames
    <2> QED
      BY <1>2, <2>1, <2>2, <2>3 DEF ColumnRow, Ids, Has
  <1>15. RowTypes'
    BY <1>7, <1>10, <1>13, <1>14 DEF RowTypes
  <1>16. RefsIntact'
    <2>1. ASSUME NEW o \in Living(objs')
          PROVE  Has(servers', objs'[o].srv)
      <3>1. o \in ObjectNames(doc)
        BY <1>12, <1>13 DEF Living
      <3>2. objs'[o].srv[1] \in DOMAIN doc.servers /\ objs'[o].srv[2] = g
        BY <1>11, <3>1
      <3> QED
        BY <1>8, <3>2, DocAssumption DEF Has
    <2> QED
      BY <1>14, <2>1 DEF RefsIntact, Living
  <1>17. (\A s \in DOMAIN doc.servers : servers'[s] # None)
         /\ (\A o \in ObjectNames(doc) : objs'[o] # None)
    BY <1>8, <1>11, DocAssumption
  <1> QED
    BY <1>10, <1>13, <1>15, <1>16, <1>17 DEF Sound

\* A merge: what the client left out is taken from the export.
LEMMA MergedFits ==
    ASSUME NEW l, Holds("apply", l)
    PROVE  ServersFit(Merged(l).servers) /\ ObjectsFit(Merged(l).objs, Owners)
  <1>1. ServersFit(l.doc.servers) /\ ObjectsFit(l.doc.objs, Owners)
    BY DocAssumption DEF Holds, ObjectsFit, Owners
  <1>2. ServersFit(l.srv) /\ ObjectsFit(l.objs, Owners)
    BY DEF Holds
  <1>3. PICK ks : ks = {k \in DOMAIN l.objs : k[2] # None}
    OBVIOUS
  <1>4. ObjectsFit(Restrict(l.objs, ks), Owners)
    BY <1>2, <1>3 DEF ObjectsFit, Restrict
  <1> QED
    BY <1>1, <1>2, <1>3, <1>4, OverlayFits, OverlayServers DEF Merged

LEMMA ApplyMergeSound ==
    ASSUME RowTypes, ControlTypes, RefsIntact, NEW p \in Procs, Holds(pc[p], local[p]),
           ApplyMerge(p)
    PROVE  Sound
  <1>1. PICK l : l = local[p]
    OBVIOUS
  <1>2. PICK doc : doc = Merged(l)
    OBVIOUS
  <1>3. ServersFit(doc.servers) /\ ObjectsFit(doc.objs, Owners)
    BY <1>1, <1>2, MergedFits DEF ApplyMerge
  <1>4. CASE Importable(doc)
    BY <1>1, <1>2, <1>3, <1>4, InstallSound DEF ApplyMerge
  <1>5. CASE ~Importable(doc)
    BY <1>1, <1>2, <1>5, NoWriteControl, KeptIsSound DEF ApplyMerge, Kept
  <1> QED
    BY <1>4, <1>5

LEMMA ImportReplaceSound ==
    ASSUME RowTypes, ControlTypes, NEW p \in Procs, NEW doc \in Docs, ImportReplace(p, doc)
    PROVE  Sound
  <1>1. ServersFit(doc.servers) /\ ObjectsFit(doc.objs, Owners)
    BY DocAssumption DEF ObjectsFit, Owners
  <1> QED
    BY <1>1, InstallSound DEF ImportReplace

LEMMA InsertCredentialSound ==
    ASSUME RowTypes, ControlTypes, RefsIntact, NEW p \in Procs, NEW n \in CredNames,
           NEW x \in Secrets, InsertCredential(p, n, x), UNCHANGED <<servers, objs, cols>>
    PROVE  Sound
  <1>1. UNCHANGED fk /\ NewGen \in Gens
    BY WroteControl DEF InsertCredential
  <1>2. creds' = [creds EXCEPT ![n] = [gen |-> NewGen, secret |-> x]]
    BY DEF InsertCredential
  <1>3. creds' \in [CredNames -> CredRow \cup {None}]
    BY <1>1, <1>2 DEF CredRow, RowTypes
  <1> QED
    BY <1>1, <1>3, CredentialsSound

LEMMA CredentialApiSound ==
    ASSUME RowTypes, ControlTypes, RefsIntact, NEW p \in Procs, CredentialApi(p)
    PROVE  Sound
  <1>1. ASSUME NEW n \in CredNames, DeleteCredential(p, n)
        PROVE  Sound
    <2>1. UNCHANGED <<servers, objs, cols, fk>>
      BY <1>1, WroteControl DEF DeleteCredential
    <2> QED
      BY <1>1, <2>1, CredentialsSound DEF DeleteCredential, RowTypes
  <1>2. ASSUME NEW n \in CredNames, NEW x \in Secrets, CreateCredential(p, n, x)
        PROVE  Sound
    BY <1>2, InsertCredentialSound DEF CreateCredential
  <1> QED
    BY <1>1, <1>2 DEF CredentialApi

LEMMA InlinesStep ==
    ASSUME ControlTypes, NEW p \in Procs, Inlines(p)
    PROVE  /\ Moves(p) /\ ControlTypes' /\ pc[p] = "idle" /\ pc'[p] = "inline"
           /\ Wrote(p) /\ UNCHANGED <<servers, objs, cols, acked, overlapped>>
  <1>1. PICK s \in Servers, n \in CredNames, x \in Secrets : CreateServerInline(p, s, n, x)
    BY DEF Inlines
  <1>2. /\ pc[p] = "idle" /\ Goto(p, "inline", [name |-> s]) /\ Wrote(p)
        /\ UNCHANGED <<servers, objs, cols, acked, overlapped>>
    BY <1>1 DEF CreateServerInline, InsertCredential
  <1>3. "inline" \in Steps
    BY DEF Steps
  <1>4. Moves(p) /\ pc'[p] = "inline" /\ pc' \in [Procs -> Steps]
    BY <1>2, <1>3, GotoMoves DEF Goto, ControlTypes
  <1> QED
    BY <1>2, <1>4, WroteControl DEF ControlTypes

LEMMA InlinesSound ==
    ASSUME RowTypes, ControlTypes, RefsIntact, NEW p \in Procs, Inlines(p)
    PROVE  Sound
  BY InsertCredentialSound DEF Inlines, CreateServerInline

LEMMA OneStepRows ==
    ASSUME RowTypes, ControlTypes, RefsIntact, NEW p \in Procs, OneStep(p)
    PROVE  Sound
  <1>1. CASE CredentialApi(p)
    BY <1>1, CredentialApiSound
  <1>3. CASE \E c \in cols : DeleteColumn(p, c)
    BY <1>3, WroteControl, ColumnsShrink DEF DeleteColumn
  <1> QED
    BY <1>1, <1>3, DeleteServerSound, CreateServerSound, DeleteObjectSound,
       ImportReplaceSound
       DEF OneStep

LEMMA EndsRows ==
    ASSUME RowTypes, ControlTypes, RefsIntact, NEW p \in Procs, Holds(pc[p], local[p]), Ends(p)
    PROVE  Sound
  <1>1. CASE RefuseInline(p)
    BY <1>1, NoWriteControl, KeptIsSound DEF RefuseInline, Kept
  <1> QED
    BY <1>1, WriteServerSound, InsertObjectSound, WriteObjectSound, InsertColumnSound,
       ApplyMergeSound DEF Ends

\* The names an import acknowledges are names of servers and objects.
LEMMA DocNames ==
    ASSUME NEW doc \in Docs
    PROVE  DOMAIN doc.servers \subseteq Servers /\ ObjectNames(doc) \subseteq Objects
  BY DocAssumption DEF ServersFit, ObjectsFit, ObjectNames

LEMMA OneStepControl ==
    ASSUME ControlTypes, NEW p \in Procs, OneStep(p)
    PROVE  ControlTypes' /\ UNCHANGED <<pc, local>> /\ Wrote(p)
  <1>1. UNCHANGED <<pc, local>> /\ Wrote(p) /\ overlapped' = overlapped
    BY DEF OneStep, CredentialApi, DeleteCredential, CreateCredential, InsertCredential, One,
           DeleteServer, CreateServer, DeleteObject, DeleteColumn,
           ImportReplace, Install
  <1>2. acked' \subseteq Servers \cup Objects
    <2>1. CASE \E doc \in Docs : ImportReplace(p, doc)
      BY <2>1, DocNames DEF ImportReplace
    <2>2. CASE ~ \E doc \in Docs : ImportReplace(p, doc)
      BY <2>2 DEF OneStep, CredentialApi, DeleteCredential, CreateCredential, ControlTypes,
                  DeleteServer, CreateServer, DeleteObject, DeleteColumn
    <2> QED
      BY <2>1, <2>2
  <1> QED
    BY <1>1, <1>2, WroteControl DEF ControlTypes

LEMMA EndsControl ==
    ASSUME ControlTypes, NEW p \in Procs, Holds(pc[p], local[p]), Ends(p)
    PROVE  ControlTypes' /\ Moves(p) /\ pc'[p] = "idle" /\ (Wrote(p) \/ (NoWrite(p) /\ Kept))
  <1>1. End(p)
    BY DEF Ends, WriteServer, InsertObject, WriteObject, InsertColumn, ApplyMerge, RefuseInline
  <1>2. Moves(p) /\ pc'[p] = "idle" /\ pc' \in [Procs -> Steps]
    BY <1>1, GotoMoves DEF End, Goto, Steps, ControlTypes
  <1>3. Wrote(p) \/ NoWrite(p)
    BY DEF Ends, WriteServer, InsertObject, WriteObject, InsertColumn, ApplyMerge, RefuseInline,
           Install
  <1>4. CASE NoWrite(p)
    BY <1>2, <1>4, NoWriteControl DEF ControlTypes, Kept
  <1>5. CASE Wrote(p) /\ ~NoWrite(p)
    <2>1. acked' \subseteq Servers \cup Objects
      <3>1. CASE ApplyMerge(p)
        <4>1. local[p].doc \in Docs
          BY <3>1 DEF ApplyMerge, Holds
        <4> QED
          BY <1>5, <3>1, <4>1, DocNames DEF ApplyMerge, ControlTypes
      <3>2. CASE InsertObject(p)
        <4>1. local[p].name \in Objects
          BY <3>2 DEF InsertObject, Holds
        <4> QED
          BY <1>5, <3>2, <4>1 DEF InsertObject, ControlTypes
      <3>3. CASE WriteServer(p) \/ WriteObject(p) \/ InsertColumn(p)
        BY <1>5, <3>3 DEF WriteServer, WriteObject, InsertColumn, ControlTypes
      <3> QED
        BY <1>5, <3>1, <3>2, <3>3 DEF Ends, RefuseInline
    <2>2. overlapped' \in BOOLEAN
      BY <1>5 DEF Ends, WriteServer, InsertObject, WriteObject, InsertColumn, ApplyMerge,
                  RefuseInline, ControlTypes
    <2> QED
      BY <1>2, <1>5, <2>1, <2>2, WroteControl DEF ControlTypes
  <1> QED
    BY <1>3, <1>4, <1>5

LEMMA DbStep ==
    ASSUME DbInv, NEW p \in Procs, StepOf(p)
    PROVE  DbInv' /\ Sound
  <1>1. RowTypes /\ ControlTypes /\ LocalOK /\ RefsIntact /\ DOMAIN local = Procs
        /\ Holds(pc[p], local[p])
    BY DEF DbInv, LocalOK
  <1>2. CASE OneStep(p)
    <2>1. Sound /\ ControlTypes' /\ UNCHANGED <<pc, local>>
      BY <1>1, <1>2, OneStepRows, OneStepControl
    <2>2. LocalOK'
      BY <1>1, <2>1 DEF LocalOK
    <2> QED
      BY <2>1, <2>2 DEF DbInv, Sound
  <1>3. ASSUME Moves(p), Holds(pc'[p], local'[p])
        PROVE  LocalOK'
    BY <1>1, <1>3, MovesAlone DEF LocalOK
  <1>4. CASE Begins(p) \/ Exports(p)
    <2>1. Moves(p) /\ ControlTypes' /\ Kept /\ Holds(pc'[p], local'[p])
      BY <1>1, <1>4, BeginsStep, ExportsStep
    <2>2. fk' = fk
      BY <1>4 DEF Begins, ReadServer, ReadObject, LookupServer, CheckTable, ExportServers, Begin,
                  Exports, ExportTables, ExportFunctions, ExportSecrets, ExportColumns, NoWrite
    <2>3. Sound
      BY <1>1, <2>1, <2>2, KeptIsSound
    <2> QED
      BY <1>3, <2>1, <2>3 DEF DbInv, Sound
  <1>5. CASE Ends(p)
    <2>1. Sound /\ ControlTypes' /\ Moves(p) /\ pc'[p] = "idle"
      BY <1>1, <1>5, EndsRows, EndsControl
    <2>2. Holds(pc'[p], local'[p])
      BY <2>1 DEF Holds
    <2> QED
      BY <1>3, <2>1, <2>2 DEF DbInv, Sound
  <1>6. CASE Inlines(p)
    <2>1. Sound /\ ControlTypes' /\ Moves(p) /\ pc'[p] = "inline"
      BY <1>1, <1>6, InlinesSound, InlinesStep
    <2>2. Holds(pc'[p], local'[p])
      BY <2>1 DEF Holds
    <2> QED
      BY <1>3, <2>1, <2>2 DEF DbInv, Sound
  <1> QED
    BY <1>2, <1>4, <1>5, <1>6, StepCases

LEMMA DbInductive == DbInv /\ [Next]_vars => DbInv'
  <1> SUFFICES ASSUME DbInv, [Next]_vars PROVE DbInv'
    OBVIOUS
  <1>1. CASE Next
    BY <1>1, NextIsStep, DbStep
  <1>2. CASE UNCHANGED vars
    BY <1>2 DEF vars, DbInv, RowTypes, ControlTypes, LocalOK, RefsIntact, Living, Has
  <1> QED
    BY <1>1, <1>2

LEMMA AlwaysDbInv == Spec => []DbInv
  BY InitDb, DbInductive, PTL DEF Spec

(***************************************************************************)
(* The rows of the meta database are always of their types, whatever       *)
(* requests, patches of stale rows and imports interleave.                 *)
(***************************************************************************)
THEOREM DbTypeCorrect == Spec => []DbTypeOK
  <1>1. DbInv => DbTypeOK
    BY TypesSplit DEF DbInv
  <1> QED
    BY <1>1, AlwaysDbInv, PTL

(***************************************************************************)
(* Where foreign keys are enforced, no interleaving of lookups outside of  *)
(* the transactions, cascading deletions and imports leaves a table or     *)
(* function without its server or a column without its table.              *)
(***************************************************************************)
THEOREM ReferencesIntact == Spec => []RefsIntact
  <1>1. DbInv => RefsIntact
    BY DEF DbInv
  <1> QED
    BY <1>1, AlwaysDbInv, PTL

(***************************************************************************)
(* A row that is gone does not come back under its ID: WriteServer and     *)
(* WriteObject, which hold rows read earlier, change only a row that is    *)
(* there, and every insert and import uses new IDs.                        *)
(***************************************************************************)
THEOREM IdsNeverReused == Spec => GoneStaysGone
  <1> DEFINE Gone(t, tNext) ==
               \A g \in 1..writes + 1 : \A n \in DOMAIN t :
                 ~Has(t, <<n, g>>) => ~Has(tNext, <<n, g>>)
  <1>1. ASSUME NEW t, NEW tNext, Fresh(t, tNext), writes \in Nat
        PROVE  Gone(t, tNext)
    BY <1>1 DEF Fresh, Has, NewGen
  <1>2. ASSUME DbInv, [Next]_vars
        PROVE  [\A g \in 1..writes + 1 :
                  /\ \A s \in Servers : ~Has(servers, <<s, g>>) => ~Has(servers', <<s, g>>)
                  /\ \A o \in Objects : ~Has(objs, <<o, g>>) => ~Has(objs', <<o, g>>)]_vars
    <2> SUFFICES ASSUME Next
                 PROVE  \A g \in 1..writes + 1 :
                          /\ \A s \in Servers : ~Has(servers, <<s, g>>) => ~Has(servers', <<s, g>>)
                          /\ \A o \in Objects : ~Has(objs, <<o, g>>) => ~Has(objs', <<o, g>>)
      BY <1>2
    <2>1. Sound
      BY <1>2, NextIsStep, DbStep
    <2>2. writes \in Nat /\ DOMAIN servers = Servers /\ DOMAIN objs = Objects
      BY <1>2, DbAssumption DEF DbInv, ControlTypes, RowTypes
    <2>3. Gone(servers, servers') /\ Gone(objs, objs')
      BY <1>1, <2>1, <2>2 DEF Sound
    <2> QED
      BY <2>2, <2>3
  <1> QED
    BY <1>2, AlwaysDbInv, PTL DEF Spec, GoneStaysGone

(***************************************************************************)
(* UpdateTable and UpdateFunction change, of the rows there are when they  *)
(* write, only the columns the request names: what others wrote since the  *)
(* row was read stays.                                                     *)
(***************************************************************************)
THEOREM PatchesKeepOthers == Spec => PatchKeepsOthers
  <1>1. ASSUME DbInv, [Next]_vars
        PROVE  [\A p \in Procs : WriteObject(p) =>
                  \A o \in Living(objs) : \A f \in DOMAIN objs[o] :
                    objs'[o][f] # objs[o][f] => o = local[p].id[1] /\ f \in DOMAIN local[p].change]_vars
    <2> SUFFICES ASSUME NEW p \in Procs, WriteObject(p), NEW o \in Living(objs),
                        NEW f \in DOMAIN objs[o], objs'[o][f] # objs[o][f]
                 PROVE  o = local[p].id[1] /\ f \in DOMAIN local[p].change
      OBVIOUS
    <2>1. PICK l : l = local[p]
      OBVIOUS
    <2>2. RowTypes /\ ControlTypes /\ pc[p] = "patchObj" /\ Holds(pc[p], l)
      BY <1>1, <2>1 DEF DbInv, LocalOK, WriteObject
    <2>3. l.change \in ObjectChanges /\ l.id[1] \in Objects
      BY <2>2 DEF Holds, Ids
    <2>4. Has(objs, l.id)
      BY <2>1, <2>2, NoWriteControl DEF WriteObject
    <2>5. objs' = [objs EXCEPT ![l.id[1]] = Overlay(l.change, @)]
      BY <2>1, <2>4 DEF WriteObject
    <2>6. o \in Objects /\ objs[o] \in ObjectRow
      BY <2>2, LivingRows DEF Living, RowTypes
    <2>7. o = l.id[1]
      BY <2>2, <2>3, <2>5, <2>6 DEF RowTypes
    <2>8. objs'[o] = Overlay(l.change, objs[o])
      BY <2>2, <2>5, <2>6, <2>7 DEF RowTypes
    <2>9. f \in DOMAIN l.change
      BY <2>3, <2>6, <2>8, ChangedRow
    <2> QED
      BY <2>1, <2>7, <2>9
  <1> QED
    BY <1>1, AlwaysDbInv, PTL DEF Spec, PatchKeepsOthers

(***************************************************************************)
(* What was acknowledged                                                   *)
(*                                                                         *)
(* AckedStays rests on what the export of a quiet merge has read: QuietOK  *)
(* says that it still has every server, table and function there is.       *)
(***************************************************************************)
AckRows == \A x \in acked : IF x \in Servers THEN servers[x] # None ELSE objs[x] # None

Covers(names, os) ==
    \A o \in Living(objs) \cap names : \E k \in DOMAIN os : k[1] = o /\ k[2] # None

Exported(step, l) ==
    /\ step \in {"tables", "functions", "secrets", "columns", "apply"} =>
         DOMAIN l.srv = Living(servers)
    /\ step \in {"functions", "secrets", "columns", "apply"} => Covers(Tables, l.objs)
    /\ step \in {"secrets", "columns", "apply"} => Covers(Funcs, l.objs)

QuietOK == fk => \A p \in Procs : quiet[p] => Exported(pc[p], local[p])

AckInv == DbInv /\ AckedStays /\ QuietOK

LEMMA InitAck == Init => AckInv
  <1> SUFFICES ASSUME Init PROVE AckInv
    OBVIOUS
  <1>1. DbInv
    BY InitDb
  <1>2. QuietOK
    BY DEF Init, QuietOK, Exported
  <1>3. PICK s \in Servers, t \in Tables, v \in Values, x \in Secrets,
             others \in SUBSET Servers, fs \in SUBSET Funcs, b \in BOOLEAN :
          /\ creds = [n \in CredNames |-> IF n = s THEN [gen |-> 1, secret |-> x] ELSE None]
          /\ servers = [n \in Servers |->
                          IF n \in others \cup {s}
                          THEN [gen |-> 1, opt |-> v, cred |-> <<s, 1>>, on |-> n = s \/ b]
                          ELSE None]
          /\ objs = [o \in Objects |->
                       IF o \in fs \cup {t}
                       THEN [gen |-> 1, srv |-> <<s, 1>>, remote |-> v, opt |-> v]
                       ELSE None]
          /\ cols \in {{}} \cup {{[table |-> <<t, 1>>, name |-> c]} : c \in Columns}
          /\ acked = others \cup fs \cup {s, t}
    BY DEF Init
  <1>4. ASSUME NEW y \in Servers, y \in acked
        PROVE  servers[y] # None
    <2>1. y \in others \cup {s}
      BY <1>3, <1>4, DbAssumption, ObjectsApart
    <2>2. servers[y] = [gen |-> 1, opt |-> v, cred |-> <<s, 1>>, on |-> y = s \/ b]
      BY <1>3, <2>1
    <2>3. (y = s \/ b) \in BOOLEAN /\ 1 \in Gens /\ <<s, 1>> \in Ids(CredNames)
      BY DbAssumption DEF Gens, Ids, CredNames
    <2>4. servers[y] \in ServerRow
      BY <2>2, <2>3 DEF ServerRow
    <2> QED
      BY <2>4, DocAssumption
  <1>5. ASSUME NEW y \in acked, y \notin Servers
        PROVE  objs[y] # None
    <2>1. y \in fs \cup {t} /\ y \in Objects
      BY <1>3, <1>5, ObjectsApart
    <2>2. objs[y] = [gen |-> 1, srv |-> <<s, 1>>, remote |-> v, opt |-> v]
      BY <1>3, <2>1
    <2>3. 1 \in Gens /\ <<s, 1>> \in Ids(Servers)
      BY DbAssumption DEF Gens, Ids
    <2>4. objs[y] \in ObjectRow
      BY <2>2, <2>3 DEF ObjectRow
    <2> QED
      BY <2>4, DocAssumption
  <1> QED
    BY <1>1, <1>2, <1>4, <1>5 DEF AckInv, AckedStays

LEMMA AckOneStep ==
    ASSUME RowTypes, ControlTypes, fk, AckRows, NEW p \in Procs, OneStep(p)
    PROVE  AckRows'
  <1>0. \A x \in acked : x \in Servers \/ x \in Objects
    BY DEF ControlTypes
  <1>1. CASE CredentialApi(p) \/ \E c \in cols : DeleteColumn(p, c)
    <2>1. UNCHANGED <<servers, objs, acked>>
      BY <1>1 DEF CredentialApi, DeleteCredential, CreateCredential, DeleteColumn
    <2> QED
      BY <2>1 DEF AckRows
  <1>2. ASSUME NEW s \in Servers, DeleteServer(p, s)
        PROVE  AckRows'
    <2> DEFINE gone == ObjectsOf({<<s, servers[s].gen>>})
    <2>1. servers' = [servers EXCEPT ![s] = None] /\ acked' = acked \ (gone \cup {s})
          /\ objs' = [o \in Objects |-> IF o \in gone THEN None ELSE objs[o]]
      BY <1>2 DEF DeleteServer, RemoveObjects
    <2> HIDE DEF gone
    <2> QED
      BY <1>0, <2>1 DEF AckRows, RowTypes
  <1>3. ASSUME NEW o \in Objects, DeleteObject(p, o)
        PROVE  AckRows'
    <2>1. servers' = servers /\ acked' = acked \ {o}
          /\ objs' = [x \in Objects |-> IF x \in {o} THEN None ELSE objs[x]]
      BY <1>3 DEF DeleteObject, RemoveObjects
    <2> QED
      BY <1>0, <2>1 DEF AckRows
  <1>4. ASSUME NEW s \in Servers, NEW v \in Values, NEW ref \in References, NEW on \in BOOLEAN,
               CreateServer(p, s, v, ref, on)
        PROVE  AckRows'
    <2>1. PICK row : row = [gen |-> NewGen, opt |-> v, cred |-> ref, on |-> StoredEnabled(on)]
      OBVIOUS
    <2>2. servers' = [servers EXCEPT ![s] = row] /\ acked' = acked \cup {s} /\ objs' = objs
      BY <1>4, <2>1 DEF CreateServer
    <2>3. row \in ServerRow
      <3>1. ref \in Ids(CredNames) \cup {None}
        BY DEF References, Living, RowTypes, CredRow, Ids
      <3>2. NewGen \in Gens
        BY <1>4, WroteControl DEF CreateServer
      <3> QED
        BY <2>1, <3>1, <3>2 DEF ServerRow, StoredEnabled
    <2> QED
      BY <2>2, <2>3, DocAssumption DEF AckRows, RowTypes
  <1>5. ASSUME NEW doc \in Docs, ImportReplace(p, doc)
        PROVE  AckRows'
    <2>1. ServersFit(doc.servers) /\ ObjectsFit(doc.objs, Owners)
      BY DocAssumption DEF ObjectsFit, Owners
    <2>2. /\ \A s \in DOMAIN doc.servers : servers'[s] # None
          /\ \A o \in ObjectNames(doc) : objs'[o] # None
      BY <1>5, <2>1, InstallSound DEF ImportReplace
    <2>3. acked' = DOMAIN doc.servers \cup ObjectNames(doc)
      BY <1>5 DEF ImportReplace
    <2> QED
      BY <2>2, <2>3, DocNames, DbAssumption DEF AckRows
  <1> QED
    BY <1>1, <1>2, <1>3, <1>4, <1>5 DEF OneStep

LEMMA AckEnds ==
    ASSUME RowTypes, ControlTypes, AckRows, NEW p \in Procs, Holds(pc[p], local[p]),
           \/ WriteServer(p) \/ InsertObject(p) \/ WriteObject(p) \/ InsertColumn(p)
           \/ RefuseInline(p)
    PROVE  AckRows'
  <1>0. \A x \in acked : x \in Servers \/ x \in Objects
    BY DEF ControlTypes
  <1>1. PICK l : l = local[p]
    OBVIOUS
  <1>2. CASE NoWrite(p)
    BY <1>2 DEF NoWrite, rows, AckRows
  <1>3. CASE WriteServer(p) /\ ~NoWrite(p)
    <2>1. l.row \in ServerRow
      BY <1>1, <1>3 DEF WriteServer, Holds
    <2>2. servers' = [servers EXCEPT ![l.id[1]] = l.row] /\ UNCHANGED <<objs, acked>>
      BY <1>1, <1>3 DEF WriteServer
    <2> QED
      BY <2>1, <2>2, DocAssumption DEF AckRows, RowTypes
  <1>4. CASE InsertObject(p) /\ ~NoWrite(p)
    <2>1. l.name \in Objects /\ l.srv \in Ids(Servers) /\ l.val \in Values
      BY <1>1, <1>4 DEF InsertObject, Holds
    <2>2. PICK row : row = [gen |-> NewGen, srv |-> l.srv, remote |-> l.val, opt |-> l.val]
      OBVIOUS
    <2>3. objs' = [objs EXCEPT ![l.name] = row] /\ servers' = servers
          /\ acked' = acked \cup {l.name} /\ Wrote(p)
      BY <1>1, <1>4, <2>2 DEF InsertObject
    <2>4. row \in ObjectRow
      BY <2>1, <2>2, <2>3, WroteControl DEF ObjectRow
    <2> QED
      BY <1>0, <2>1, <2>3, <2>4, DocAssumption, DbAssumption DEF AckRows, RowTypes
  <1>5. CASE WriteObject(p) /\ ~NoWrite(p)
    <2>1. l.id \in Ids(Objects) /\ l.change \in ObjectChanges
      BY <1>1, <1>5 DEF WriteObject, Holds
    <2>2. PICK x \in Objects : x = l.id[1]
      BY <2>1 DEF Ids
    <2>3. PICK row : row = Overlay(l.change, objs[x])
      OBVIOUS
    <2>4. Has(objs, l.id) /\ objs' = [objs EXCEPT ![x] = row] /\ UNCHANGED <<servers, acked>>
      BY <1>1, <1>5, <2>2, <2>3 DEF WriteObject
    <2>5. row \in ObjectRow
      BY <2>1, <2>2, <2>3, <2>4, LivingRows, ChangedRow DEF Has
    <2> QED
      BY <1>0, <2>4, <2>5, DocAssumption DEF AckRows, RowTypes
  <1>6. CASE InsertColumn(p) /\ ~NoWrite(p)
    BY <1>6 DEF InsertColumn, AckRows
  <1>7. CASE RefuseInline(p)
    BY <1>2, <1>7 DEF RefuseInline
  <1> QED
    BY <1>2, <1>3, <1>4, <1>5, <1>6, <1>7

LEMMA ListedCovers ==
    ASSUME RowTypes, RefsIntact, fk, NEW names \in SUBSET Objects
    PROVE  Covers(names, Listed(names))
  <1> SUFFICES ASSUME NEW o \in Living(objs) \cap names
               PROVE  \E k \in DOMAIN Listed(names) : k[1] = o /\ k[2] # None
    BY DEF Covers
  <1>1. Has(servers, objs[o].srv)
    BY DEF RefsIntact
  <1>2. objs[o].srv[1] \in Servers
    BY LivingRows DEF Living, RowTypes, ObjectRow, Ids
  <1>3. <<o, objs[o].srv[1]>> \in DOMAIN Listed(names)
    BY <1>1 DEF Listed
  <1> QED
    BY <1>2, <1>3, DbAssumption

LEMMA CoversMore ==
    ASSUME NEW f, NEW g, NEW names, Covers(names, f) \/ Covers(names, g)
    PROVE  Covers(names, Overlay(f, g))
  BY DEF Covers, Overlay

\* What a quiet export has read when it goes on.
LEMMA ExportedNext ==
    ASSUME DbInv, fk, NEW p \in Procs, Exported(pc[p], local[p]), Begins(p) \/ Exports(p)
    PROVE  Exported(pc'[p], local'[p])
  <1>0. \A step \in Steps : \A what : Goto(p, step, what) => pc'[p] = step /\ local'[p] = what
    BY DEF DbInv, Goto, ControlTypes, LocalOK
  <1>1. PICK l : l = local[p]
    OBVIOUS
  <1>2. RowTypes /\ RefsIntact /\ Holds(pc[p], l) /\ Exported(pc[p], l)
    BY <1>1 DEF DbInv, LocalOK
  <1>3. ASSUME End(p)
        PROVE  Exported(pc'[p], local'[p])
    BY <1>0, <1>3 DEF End, Steps, Exported
  <1>4. ASSUME NEW doc, ExportServers(p, doc)
        PROVE  Exported(pc'[p], local'[p])
    BY <1>0, <1>4 DEF ExportServers, Begin, Steps, Exported
  <1>5. CASE Begins(p) /\ ~ \E doc \in Docs : ExportServers(p, doc)
    <2>1. pc'[p] \in {"patch", "patchObj", "insertObj", "insertCol"}
      BY <1>0, <1>5 DEF Begins, ReadServer, ReadObject, LookupServer, CheckTable, Begin, Steps
    <2> QED
      BY <2>1 DEF Exported
  <1>6. CASE ExportTables(p)
    <2>1. PICK os : os = Listed(Tables)
      OBVIOUS
    <2>2. pc'[p] = "functions" /\ local'[p] = [doc |-> l.doc, srv |-> l.srv, objs |-> os]
          /\ pc[p] = "tables"
      BY <1>0, <1>1, <1>6, <2>1 DEF ExportTables, Steps
    <2>3. Covers(Tables, os)
      BY <1>2, <2>1, ListedCovers, ObjectsApart
    <2> QED
      BY <1>2, <2>2, <2>3 DEF Exported
  <1>7. CASE ExportFunctions(p)
    <2>1. PICK os : os = Listed(Funcs)
      OBVIOUS
    <2>2. pc'[p] = "secrets" /\ local'[p] = [l EXCEPT !.objs = Overlay(@, os)]
          /\ pc[p] = "functions"
      BY <1>0, <1>1, <1>7, <2>1 DEF ExportFunctions, Steps
    <2>3. Covers(Tables, l.objs) /\ l = [doc |-> l.doc, srv |-> l.srv, objs |-> l.objs]
      BY <1>2, <2>2 DEF Exported, Holds
    <2>4. Covers(Funcs, os)
      BY <1>2, <2>1, ListedCovers, ObjectsApart
    <2>5. Covers(Tables, Overlay(l.objs, os)) /\ Covers(Funcs, Overlay(l.objs, os))
      BY <2>3, <2>4, CoversMore
    <2>6. local'[p].srv = l.srv /\ local'[p].objs = Overlay(l.objs, os)
      BY <2>2, <2>3
    <2> QED
      BY <1>2, <2>2, <2>5, <2>6 DEF Exported
  <1>8. CASE ExportSecrets(p) /\ ~End(p)
    <2> DEFINE used == {s \in DOMAIN l.srv : l.srv[s].cred # None}
               alone(s) == \A r \in used : l.srv[r].cred = l.srv[s].cred => r = s
               entry(s) == [opt |-> l.srv[s].opt, on |-> l.srv[s].on,
                            secret |-> IF s \in used /\ alone(s)
                                       THEN SecretOf(l.srv[s].cred) ELSE None]
    <2>0. PICK ss : ss = [s \in DOMAIN l.srv |-> entry(s)]
      OBVIOUS
    <2>1. pc'[p] = "columns" /\ local'[p] = [l EXCEPT !.srv = ss]
          /\ DOMAIN ss = DOMAIN l.srv /\ pc[p] = "secrets"
      <3>1. Goto(p, "columns", [l EXCEPT !.srv = [s \in DOMAIN @ |-> entry(s)]])
            /\ pc[p] = "secrets"
        BY <1>1, <1>8 DEF ExportSecrets
      <3>2. "columns" \in Steps
        BY DEF Steps
      <3> QED
        BY <1>0, <2>0, <3>1, <3>2
    <2>2. l = [doc |-> l.doc, srv |-> l.srv, objs |-> l.objs]
      BY <1>2, <2>1 DEF Holds
    <2>3. local'[p].srv = ss /\ local'[p].objs = l.objs
      BY <2>1, <2>2
    <2> QED
      BY <1>2, <2>1, <2>3 DEF Exported
  <1>9. CASE ExportColumns(p) /\ ~End(p)
    <2> DEFINE of(o)  == {c.name : c \in {d \in cols : d.table = <<o, objs[o].gen>>}}
               tables == {k \in DOMAIN l.objs : k[1] \in Tables}
               entry(k) == IF k \in tables THEN [l.objs[k] EXCEPT !.cols = of(k[1])] ELSE l.objs[k]
    <2>0. PICK os : os = [k \in DOMAIN l.objs |-> entry(k)]
      OBVIOUS
    <2>1. pc'[p] = "apply" /\ local'[p] = [l EXCEPT !.objs = os]
          /\ DOMAIN os = DOMAIN l.objs /\ pc[p] = "columns"
      <3>1. Goto(p, "apply",
                 [l EXCEPT !.objs = [k \in DOMAIN @ |->
                    IF k \in tables THEN [@[k] EXCEPT !.cols = of(k[1])] ELSE @[k]]])
            /\ pc[p] = "columns"
        BY <1>1, <1>9 DEF ExportColumns
      <3>2. "apply" \in Steps
        BY DEF Steps
      <3> QED
        BY <1>0, <2>0, <3>1, <3>2
    <2>2. l = [doc |-> l.doc, srv |-> l.srv, objs |-> l.objs]
      BY <1>2, <2>1 DEF Holds
    <2>3. local'[p].srv = l.srv /\ local'[p].objs = os
      BY <2>1, <2>2
    <2>4. Covers(Tables, os) /\ Covers(Funcs, os)
      BY <1>2, <2>1 DEF Exported, Covers
    <2> QED
      BY <1>2, <2>1, <2>3, <2>4 DEF Exported
  <1> QED
    BY <1>3, <1>4, <1>5, <1>6, <1>7, <1>8, <1>9 DEF Begins, Exports

\* A quiet merge acknowledges and keeps everything there was.
LEMMA AckMerge ==
    ASSUME DbInv, fk, AckRows, NEW p \in Procs, quiet[p] => Exported(pc[p], local[p]),
           ApplyMerge(p), ~overlapped'
    PROVE  AckRows'
  <1>1. PICK l : l = local[p]
    OBVIOUS
  <1>2. PICK doc : doc = Merged(l)
    OBVIOUS
  <1>3. RowTypes /\ ControlTypes /\ pc[p] = "apply" /\ Holds("apply", l)
    BY <1>1 DEF DbInv, LocalOK, ApplyMerge
  <1>4. CASE ~Importable(doc)
    BY <1>1, <1>2, <1>4 DEF ApplyMerge, NoWrite, rows, AckRows
  <1>5. CASE Importable(doc)
    <2>1. /\ Install(p, doc) /\ quiet[p]
          /\ acked' = acked \cup DOMAIN l.doc.servers \cup ObjectNames(l.doc)
      BY <1>1, <1>2, <1>5 DEF ApplyMerge
    <2>2. DOMAIN l.srv = Living(servers) /\ Covers(Tables, l.objs) /\ Covers(Funcs, l.objs)
      BY <1>1, <1>3, <2>1 DEF Exported
    <2>3. ServersFit(doc.servers) /\ ObjectsFit(doc.objs, Owners)
      BY <1>2, <1>3, MergedFits
    <2>4. /\ \A s \in DOMAIN doc.servers : servers'[s] # None
          /\ \A o \in ObjectNames(doc) : objs'[o] # None
      BY <1>3, <1>5, <2>1, <2>3, InstallSound
    <2>5. DOMAIN doc.servers = DOMAIN l.doc.servers \cup Living(servers)
      BY <1>2, <2>2 DEF Merged, Overlay
    <2>6. PICK ks : ks = {k \in DOMAIN l.objs : k[2] # None}
      OBVIOUS
    <2>7. DOMAIN doc.objs = DOMAIN l.doc.objs \cup ks
      BY <1>2, <2>6 DEF Merged, Overlay, Restrict
    <2>8. ObjectNames(l.doc) \subseteq ObjectNames(doc)
      BY <2>7 DEF ObjectNames
    <2>9. Living(objs) \subseteq ObjectNames(doc)
      <3> SUFFICES ASSUME NEW o \in Living(objs) PROVE o \in ObjectNames(doc)
        OBVIOUS
      <3>1. o \in Tables \/ o \in Funcs
        BY <1>3 DEF Living, RowTypes, Objects
      <3>2. PICK k \in DOMAIN l.objs : k[1] = o /\ k[2] # None
        BY <2>2, <3>1 DEF Covers
      <3> QED
        BY <2>6, <2>7, <3>2 DEF ObjectNames
    <2>10. l.doc \in Docs
      BY <1>3 DEF Holds
    <2>11. ASSUME NEW x \in acked', x \in Servers
           PROVE  servers'[x] # None
      <3>1. x \notin ObjectNames(l.doc)
        BY <2>10, <2>11, DocNames, DbAssumption
      <3>2. x \in DOMAIN doc.servers
        BY <1>3, <2>1, <2>5, <2>11, <3>1 DEF AckRows, Living, RowTypes
      <3> QED
        BY <2>4, <3>2
    <2>12. ASSUME NEW x \in acked', x \notin Servers
           PROVE  objs'[x] # None
      <3>1. x \notin DOMAIN l.doc.servers
        BY <2>10, <2>12, DocNames
      <3>2. x \in acked => x \in Objects /\ objs[x] # None
        BY <1>3, <2>12 DEF AckRows, ControlTypes
      <3>3. x \in ObjectNames(doc)
        BY <1>3, <2>1, <2>8, <2>9, <2>12, <3>1, <3>2 DEF Living, RowTypes
      <3> QED
        BY <2>4, <3>3
    <2> QED
      BY <2>11, <2>12 DEF AckRows
  <1> QED
    BY <1>4, <1>5

\* A request that is quiet and under way saw every row as it still is: only its
\* own reads moved it, and nothing was written.
LEMMA StaysQuiet ==
    ASSUME DbInv, NEW p \in Procs, StepOf(p), NEW q \in Procs, quiet'[q],
           pc'[q] \notin {"idle", "inline"}
    PROVE  /\ Kept /\ fk' = fk /\ quiet[q]
           /\ \/ q # p /\ pc'[q] = pc[q] /\ local'[q] = local[q]
              \/ q = p /\ (Begins(p) \/ Exports(p))
  <1>1. ControlTypes /\ DOMAIN local = Procs /\ Holds(pc[p], local[p]) /\ LocalOK /\ RowTypes
    BY DEF DbInv, LocalOK
  <1>2. CASE OneStep(p) \/ Inlines(p) \/ (Ends(p) /\ Wrote(p))
    <2>1. Wrote(p) /\ \/ UNCHANGED pc /\ pc[p] = "idle"
                      \/ Moves(p) /\ pc'[p] \in {"idle", "inline"}
      <3>1. CASE OneStep(p)
        <4>1. pc[p] = "idle"
          BY <3>1 DEF OneStep, CredentialApi, DeleteCredential, CreateCredential, One,
                      DeleteServer, CreateServer, DeleteObject,
                      DeleteColumn, ImportReplace
        <4> QED
          BY <1>1, <3>1, <4>1, OneStepControl
      <3>2. CASE Ends(p) /\ Wrote(p)
        BY <1>1, <3>2, EndsControl
      <3>3. CASE Inlines(p)
        BY <1>1, <3>3, InlinesStep
      <3> QED
        BY <1>2, <3>1, <3>2, <3>3
    <2>2. q = p \/ pc[q] = "idle"
      BY <2>1 DEF Wrote
    <2> QED
      BY <1>1, <2>1, <2>2, MovesAlone
  <1>3. CASE Begins(p) \/ Exports(p) \/ (Ends(p) /\ NoWrite(p) /\ Kept)
    <2>1. Moves(p) /\ Kept
      BY <1>1, <1>3, BeginsStep, ExportsStep, EndsControl
    <2>2. fk' = fk /\ (quiet[q] \/ (q = p /\ pc'[p] = "idle"))
      BY <1>1, <1>3 DEF Begins, ReadServer, ReadObject, LookupServer, CheckTable, ExportServers,
                        Begin, history, Exports, ExportTables, ExportFunctions, ExportSecrets,
                        ExportColumns, NoWrite, ControlTypes
    <2>3. q = p => Begins(p) \/ Exports(p)
      BY <1>1, <1>3, EndsControl
    <2> QED
      BY <1>1, <2>1, <2>2, <2>3, MovesAlone
  <1> QED
    BY <1>1, <1>2, <1>3, StepCases, EndsControl

LEMMA QuietStep ==
    ASSUME DbInv, QuietOK, NEW p \in Procs, StepOf(p)
    PROVE  QuietOK'
  <1> SUFFICES ASSUME fk', NEW q \in Procs, quiet'[q], pc'[q] \notin {"idle", "inline"}
               PROVE  Exported(pc[q], local[q])'
    BY DEF QuietOK, Exported
  <1>1. Kept /\ fk /\ Exported(pc[q], local[q])
    BY StaysQuiet DEF QuietOK
  <1>2. Exported(pc'[q], local'[q])
    BY <1>1, StaysQuiet, ExportedNext
  <1> QED
    BY <1>1, <1>2 DEF Kept, Exported, Covers, Living

LEMMA AckStep ==
    ASSUME AckInv, NEW p \in Procs, StepOf(p)
    PROVE  AckInv'
  <1>1. DbInv /\ QuietOK /\ RowTypes /\ ControlTypes /\ Holds(pc[p], local[p])
        /\ DbInv' /\ QuietOK'
    BY DbStep, QuietStep DEF AckInv, DbInv, LocalOK
  <1>2. AckedStays <=> (fk /\ ~overlapped => AckRows)
    BY DEF AckedStays, AckRows
  <1>3. AckedStays' <=> (fk' /\ ~overlapped' => AckRows')
    BY DEF AckedStays, AckRows
  <1>4. fk' = fk /\ (overlapped => overlapped')
    <2>1. CASE OneStep(p)
      <3>1. overlapped' = overlapped
        BY <2>1 DEF OneStep, CredentialApi, DeleteCredential, CreateCredential, DeleteServer,
                    CreateServer, DeleteObject, DeleteColumn, ImportReplace
      <3>2. fk' = fk
        BY <1>1, <2>1, OneStepControl, WroteControl
      <3> QED
        BY <3>1, <3>2
    <2>2. CASE Begins(p) \/ Exports(p)
      <3>1. overlapped' = overlapped
        BY <2>2 DEF Begins, ReadServer, ReadObject, LookupServer, CheckTable, ExportServers,
                    Begin, history, Exports, ExportTables, ExportFunctions, ExportSecrets,
                    ExportColumns, NoWrite
      <3>2. fk' = fk
        BY <2>2 DEF Begins, ReadServer, ReadObject, LookupServer, CheckTable, ExportServers,
                    Begin, Exports, ExportTables, ExportFunctions, ExportSecrets,
                    ExportColumns, NoWrite
      <3> QED
        BY <3>1, <3>2
    <2>3. CASE Ends(p)
      <3>1. fk' = fk
        BY <1>1, <2>3, EndsControl DEF Wrote, NoWrite
      <3>2. CASE NoWrite(p)
        BY <3>1, <3>2 DEF NoWrite
      <3>3. CASE WriteServer(p) \/ InsertObject(p) \/ WriteObject(p) \/ InsertColumn(p)
        BY <3>1, <3>2, <3>3 DEF WriteServer, InsertObject, WriteObject, InsertColumn
      <3>4. CASE ApplyMerge(p)
        BY <3>1, <3>2, <3>4 DEF ApplyMerge, Install
      <3>5. CASE RefuseInline(p)
        BY <3>2, <3>5 DEF RefuseInline
      <3> QED
        BY <2>3, <3>3, <3>4, <3>5 DEF Ends
    <2>4. CASE Inlines(p)
      BY <1>1, <2>4, InlinesStep, WroteControl
    <2> QED
      BY <2>1, <2>2, <2>3, <2>4, StepCases
  <1>5. ASSUME fk, AckRows, ~overlapped'
        PROVE  AckRows'
    <2>1. CASE OneStep(p)
      BY <1>1, <1>5, <2>1, AckOneStep
    <2>2. CASE Begins(p) \/ Exports(p)
      <3>1. UNCHANGED <<servers, objs, acked>>
        BY <2>2 DEF Begins, ReadServer, ReadObject, LookupServer, CheckTable, ExportServers,
                    Begin, rows, history, Exports, ExportTables, ExportFunctions, ExportSecrets,
                    ExportColumns, NoWrite
      <3> QED
        BY <1>5, <3>1 DEF AckRows
    <2>3. CASE Ends(p)
      <3>1. quiet[p] => Exported(pc[p], local[p])
        BY <1>1, <1>5 DEF QuietOK
      <3> QED
        BY <1>1, <1>5, <2>3, <3>1, AckEnds, AckMerge DEF Ends
    <2>4. CASE Inlines(p)
      <3>1. UNCHANGED <<servers, objs, acked>>
        BY <1>1, <2>4, InlinesStep
      <3> QED
        BY <1>5, <3>1 DEF AckRows
    <2> QED
      BY <2>1, <2>2, <2>3, <2>4, StepCases
  <1>6. AckedStays'
    BY <1>2, <1>3, <1>4, <1>5 DEF AckInv
  <1> QED
    BY <1>1, <1>6 DEF AckInv

(***************************************************************************)
(* With foreign keys, a server, table or function that was created and not *)
(* deleted is there, unless a merge import was applied that overlapped     *)
(* another write.  Every import that is alone keeps what it does not name: *)
(* the export of ImportDeclarative, read in five steps, has it all.        *)
(***************************************************************************)
THEOREM AcknowledgedStays == Spec => []AckedStays
  <1>1. AckInv /\ [Next]_vars => AckInv'
    <2> SUFFICES ASSUME AckInv, [Next]_vars PROVE AckInv'
      OBVIOUS
    <2>1. CASE Next
      BY <2>1, NextIsStep, AckStep
    <2>2. CASE UNCHANGED vars
      <3>1. DbInv'
        BY DbInductive DEF AckInv
      <3>2. AckedStays' /\ QuietOK'
        BY <2>2 DEF vars, AckInv, AckedStays, QuietOK, Exported, Covers, Living
      <3> QED
        BY <3>1, <3>2 DEF AckInv
    <2> QED
      BY <2>1, <2>2
  <1>2. AckInv => AckedStays
    BY DEF AckInv
  <1> QED
    BY <1>1, <1>2, InitAck, PTL DEF Spec

(***************************************************************************)
(* What a quiet merge keeps                                                *)
(*                                                                         *)
(* QuietMergeKeeps rests on more than the names: CopiedOK says that what   *)
(* the export of a quiet merge has read so far agrees with the rows, value *)
(* by value, with or without foreign keys.                                 *)
(***************************************************************************)
Alone(s) == \A r \in Living(servers) : servers[r].cred = servers[s].cred => r = s

ServersCopied(ss) ==
    /\ DOMAIN ss = Living(servers)
    /\ \A s \in Living(servers) :
         /\ ss[s].opt = servers[s].opt
         /\ servers[s].cred # None /\ Alone(s) =>
              ss[s].secret = creds[servers[s].cred[1]].secret /\ ss[s].secret # None

KeyOf(o) == <<o, objs[o].srv[1]>>

ObjectsRead(names, os) ==
    \A o \in Living(objs) \cap names : Has(servers, objs[o].srv) =>
        /\ KeyOf(o) \in DOMAIN os
        /\ os[KeyOf(o)].remote = objs[o].remote /\ os[KeyOf(o)].opt = objs[o].opt

ColumnsCopied(os) ==
    \A o \in Living(objs) : Has(servers, objs[o].srv) =>
        os[KeyOf(o)].cols = ColumnNames(cols, objs, o)

Copied(step, l) ==
    /\ step \in {"tables", "functions", "secrets"} =>
         l.srv = [s \in Living(servers) |-> servers[s]]
    /\ step \in {"columns", "apply"} => ServersCopied(l.srv)
    /\ step = "functions" => l.objs = Listed(Tables)
    /\ step \in {"secrets", "columns", "apply"} => ObjectsRead(Objects, l.objs)
    /\ step = "apply" => ColumnsCopied(l.objs)

CopiedOK == \A p \in Procs : quiet[p] => Copied(pc[p], local[p])

LEMMA ListedRead ==
    ASSUME RowTypes, NEW names \in SUBSET Objects
    PROVE  /\ ObjectsRead(names, Listed(names))
           /\ \A k \in DOMAIN Listed(names) : k[1] \in names
  <1> DEFINE owner(o) == IF Has(servers, objs[o].srv) THEN objs[o].srv[1] ELSE None
             ks == {<<o, owner(o)>> : o \in Living(objs) \cap names}
  <1>1. Listed(names) = [k \in ks |->
                           [remote |-> objs[k[1]].remote, opt |-> objs[k[1]].opt, cols |-> {}]]
    BY DEF Listed
  <1>2. \A k \in ks : k[1] \in names
    OBVIOUS
  <1>3. ASSUME NEW o \in Living(objs) \cap names, Has(servers, objs[o].srv)
        PROVE  KeyOf(o) \in ks /\ KeyOf(o)[1] = o
    BY <1>3 DEF KeyOf
  <1>4. \A o \in Living(objs) \cap names : Has(servers, objs[o].srv) =>
          /\ KeyOf(o) \in DOMAIN Listed(names)
          /\ Listed(names)[KeyOf(o)].remote = objs[o].remote
          /\ Listed(names)[KeyOf(o)].opt = objs[o].opt
    BY <1>1, <1>3
  <1> QED
    BY <1>1, <1>2, <1>4 DEF ObjectsRead

\* The export of the functions adds to that of the tables.
LEMMA AllRead ==
    ASSUME RowTypes
    PROVE  ObjectsRead(Objects, Overlay(Listed(Tables), Listed(Funcs)))
  <1>1. PICK ts, fs : ts = Listed(Tables) /\ fs = Listed(Funcs)
    OBVIOUS
  <1>2. /\ ObjectsRead(Tables, ts) /\ ObjectsRead(Funcs, fs)
        /\ \A k \in DOMAIN ts : k[1] \in Tables
    BY <1>1, ListedRead, ObjectsApart
  <1>3. \A o : KeyOf(o)[1] = o
    BY DEF KeyOf
  <1>4. ASSUME NEW o \in Living(objs) \cap Objects, Has(servers, objs[o].srv)
        PROVE  /\ KeyOf(o) \in DOMAIN Overlay(ts, fs)
               /\ Overlay(ts, fs)[KeyOf(o)].remote = objs[o].remote
               /\ Overlay(ts, fs)[KeyOf(o)].opt = objs[o].opt
    <2>1. CASE o \in Tables
      <3>1. KeyOf(o) \in DOMAIN ts
            /\ ts[KeyOf(o)].remote = objs[o].remote /\ ts[KeyOf(o)].opt = objs[o].opt
        BY <1>2, <1>4, <2>1 DEF ObjectsRead
      <3> QED
        BY <3>1 DEF Overlay
    <2>2. CASE o \in Funcs
      <3>1. KeyOf(o) \in DOMAIN fs
            /\ fs[KeyOf(o)].remote = objs[o].remote /\ fs[KeyOf(o)].opt = objs[o].opt
        BY <1>2, <1>4, <2>2 DEF ObjectsRead
      <3>2. KeyOf(o) \notin DOMAIN ts
        BY <1>2, <1>3, <2>2, ObjectsApart
      <3> QED
        BY <3>1, <3>2 DEF Overlay
    <2> QED
      BY <2>1, <2>2 DEF Objects
  <1> QED
    BY <1>1, <1>4 DEF ObjectsRead

\* ExportSecrets keeps the secret of a server that is alone with its credential.
LEMMA SecretsCopied ==
    ASSUME DbInv, NEW p \in Procs, Copied(pc[p], local[p]), ExportSecrets(p), pc'[p] # "idle"
    PROVE  Copied(pc'[p], local'[p])
  <1>1. PICK l : l = local[p]
    OBVIOUS
  <1> DEFINE used == {s \in DOMAIN l.srv : l.srv[s].cred # None}
             alone(s) == \A r \in used : l.srv[r].cred = l.srv[s].cred => r = s
             entry(s) == [opt |-> l.srv[s].opt, on |-> l.srv[s].on,
                          secret |-> IF s \in used /\ alone(s)
                                     THEN SecretOf(l.srv[s].cred) ELSE None]
  <1>2. PICK ss : ss = [s \in DOMAIN l.srv |-> entry(s)]
    OBVIOUS
  <1>3. RowTypes /\ Holds("secrets", l) /\ Copied("secrets", l) /\ pc[p] = "secrets"
    BY <1>1 DEF DbInv, LocalOK, ExportSecrets
  <1>4. Goto(p, "columns", [l EXCEPT !.srv = ss]) /\ \A s \in used : Has(creds, l.srv[s].cred)
    <2>1. \/ Goto(p, "columns", [l EXCEPT !.srv = [s \in DOMAIN @ |-> entry(s)]])
             /\ \A s \in used : Has(creds, l.srv[s].cred)
          \/ End(p)
      BY <1>1 DEF ExportSecrets
    <2>2. ~End(p)
      BY DEF End, Goto, DbInv, ControlTypes
    <2> QED
      BY <1>2, <2>1, <2>2
  <1>5. pc'[p] = "columns" /\ local'[p] = [l EXCEPT !.srv = ss]
    BY <1>4 DEF Goto, DbInv, ControlTypes, LocalOK
  <1>6. l = [doc |-> l.doc, srv |-> l.srv, objs |-> l.objs]
    BY <1>3 DEF Holds
  <1>7. local'[p].srv = ss /\ local'[p].objs = l.objs
    BY <1>5, <1>6
  <1>8. DOMAIN l.srv = Living(servers) /\ \A s \in Living(servers) : l.srv[s] = servers[s]
    BY <1>3 DEF Copied
  <1>9. ServersCopied(ss)
    <2>1. DOMAIN ss = Living(servers) /\ \A s \in Living(servers) : ss[s] = entry(s)
      BY <1>2, <1>8
    <2>2. ASSUME NEW s \in Living(servers)
          PROVE  ss[s].opt = servers[s].opt
      BY <1>8, <2>1
    <2>3. ASSUME NEW s \in Living(servers), servers[s].cred # None, Alone(s)
          PROVE  ss[s].secret = creds[servers[s].cred[1]].secret /\ ss[s].secret # None
      <3>1. s \in used /\ l.srv[s].cred = servers[s].cred
        BY <1>8, <2>3
      <3>2. alone(s)
        BY <1>8, <2>3 DEF Alone
      <3>3. ss[s].secret = creds[servers[s].cred[1]].secret
        BY <2>1, <3>1, <3>2 DEF SecretOf
      <3>4. Has(creds, servers[s].cred)
        BY <1>4, <3>1
      <3>5. servers[s].cred[1] \in CredNames
        <4>1. s \in Servers /\ servers[s] \in ServerRow
          BY <1>3, LivingRows DEF Living, RowTypes
        <4> QED
          BY <2>3, <4>1 DEF ServerRow, Ids
      <3>6. creds[servers[s].cred[1]].secret \in Secrets
        BY <1>3, <3>4, <3>5, LivingRows DEF Has, CredRow
      <3> QED
        BY <3>3, <3>6, DbAssumption
    <2> QED
      BY <2>1, <2>2, <2>3 DEF ServersCopied
  <1> QED
    BY <1>3, <1>5, <1>7, <1>9 DEF Copied

\* ExportColumns looks up the columns of the table each entry stands for.
LEMMA ColumnsRead ==
    ASSUME DbInv, NEW p \in Procs, Copied(pc[p], local[p]), ExportColumns(p), pc'[p] # "idle"
    PROVE  Copied(pc'[p], local'[p])
  <1>1. PICK l : l = local[p]
    OBVIOUS
  <1> DEFINE of(o)  == {c.name : c \in {d \in cols : d.table = <<o, objs[o].gen>>}}
             tables == {k \in DOMAIN l.objs : k[1] \in Tables}
             entry(k) == IF k \in tables THEN [l.objs[k] EXCEPT !.cols = of(k[1])] ELSE l.objs[k]
  <1>2. PICK os : os = [k \in DOMAIN l.objs |-> entry(k)]
    OBVIOUS
  <1>3. RowTypes /\ Holds("columns", l) /\ Copied("columns", l) /\ pc[p] = "columns"
    BY <1>1 DEF DbInv, LocalOK, ExportColumns
  <1>4. Goto(p, "apply", [l EXCEPT !.objs = os])
    <2>1. \/ Goto(p, "apply",
                  [l EXCEPT !.objs = [k \in DOMAIN @ |->
                     IF k \in tables THEN [@[k] EXCEPT !.cols = of(k[1])] ELSE @[k]]])
          \/ End(p)
      BY <1>1 DEF ExportColumns
    <2>2. ~End(p)
      BY DEF End, Goto, DbInv, ControlTypes
    <2> QED
      BY <1>2, <2>1, <2>2
  <1>5. pc'[p] = "apply" /\ local'[p] = [l EXCEPT !.objs = os]
    BY <1>4 DEF Goto, DbInv, ControlTypes, LocalOK
  <1>6. l = [doc |-> l.doc, srv |-> l.srv, objs |-> l.objs]
    BY <1>3 DEF Holds
  <1>7. local'[p].srv = l.srv /\ local'[p].objs = os
    BY <1>5, <1>6
  <1>8. ObjectsFit(l.objs, Owners) /\ ObjectsRead(Objects, l.objs)
    BY <1>3 DEF Holds, Copied
  <1>9. ASSUME NEW k \in DOMAIN l.objs
        PROVE  /\ os[k].remote = l.objs[k].remote /\ os[k].opt = l.objs[k].opt
               /\ k[1] \in Tables => os[k].cols = of(k[1])
               /\ k[1] \in Funcs => os[k].cols = {}
    <2>1. l.objs[k] \in DocObject /\ (k[1] \in Funcs => l.objs[k].cols = {})
      BY <1>8 DEF ObjectsFit
    <2>2. l.objs[k] = [remote |-> l.objs[k].remote, opt |-> l.objs[k].opt, cols |-> l.objs[k].cols]
      BY <2>1 DEF DocObject
    <2> QED
      BY <1>2, <2>1, <2>2, ObjectsApart
  <1>10. \A o : KeyOf(o)[1] = o
    BY DEF KeyOf
  <1>11. ObjectsRead(Objects, os)
    BY <1>2, <1>8, <1>9 DEF ObjectsRead
  <1>12. ASSUME NEW o \in Living(objs), Has(servers, objs[o].srv)
         PROVE  os[KeyOf(o)].cols = ColumnNames(cols, objs, o)
    <2>1. o \in Objects /\ KeyOf(o) \in DOMAIN l.objs
      BY <1>3, <1>8, <1>12 DEF ObjectsRead, Living, RowTypes
    <2>2. CASE o \in Tables
      <3>1. os[KeyOf(o)].cols = of(KeyOf(o)[1])
        BY <1>9, <1>10, <2>1, <2>2
      <3>2. of(KeyOf(o)[1]) = ColumnNames(cols, objs, o)
        BY <1>10 DEF ColumnNames
      <3> QED
        BY <3>1, <3>2
    <2>3. CASE o \in Funcs
      <3>1. \A c \in cols : c.table # <<o, objs[o].gen>>
        BY <1>3, <2>3, ObjectsApart DEF RowTypes, ColumnRow, Ids
      <3> QED
        BY <1>9, <1>10, <2>1, <2>3, <3>1 DEF ColumnNames
    <2> QED
      BY <2>1, <2>2, <2>3 DEF Objects
  <1> QED
    BY <1>3, <1>5, <1>7, <1>11, <1>12 DEF Copied, ColumnsCopied

\* What a quiet merge has copied when it goes on.
LEMMA CopiedNext ==
    ASSUME DbInv, NEW p \in Procs, Copied(pc[p], local[p]), Begins(p) \/ Exports(p),
           pc'[p] # "idle"
    PROVE  Copied(pc'[p], local'[p])
  <1>0. \A step \in Steps : \A what : Goto(p, step, what) => pc'[p] = step /\ local'[p] = what
    BY DEF DbInv, Goto, ControlTypes, LocalOK
  <1>1. PICK l : l = local[p]
    OBVIOUS
  <1>2. RowTypes /\ Holds(pc[p], l) /\ Copied(pc[p], l)
    BY <1>1 DEF DbInv, LocalOK
  <1>3. ASSUME NEW doc, ExportServers(p, doc)
        PROVE  Copied(pc'[p], local'[p])
    <2>1. PICK ss : ss = [s \in Living(servers) |-> servers[s]]
      OBVIOUS
    <2>2. pc'[p] = "tables" /\ local'[p] = [doc |-> doc, srv |-> ss]
      BY <1>0, <1>3, <2>1 DEF ExportServers, Begin, Steps
    <2> QED
      BY <2>1, <2>2 DEF Copied
  <1>4. CASE Begins(p) /\ ~ \E doc \in Docs : ExportServers(p, doc)
    <2>1. pc'[p] \in {"patch", "patchObj", "insertObj", "insertCol"}
      BY <1>0, <1>4 DEF Begins, ReadServer, ReadObject, LookupServer, CheckTable, Begin, Steps
    <2> QED
      BY <2>1 DEF Copied
  <1>5. CASE ExportTables(p)
    <2>1. PICK os : os = Listed(Tables)
      OBVIOUS
    <2>2. pc'[p] = "functions" /\ local'[p] = [doc |-> l.doc, srv |-> l.srv, objs |-> os]
          /\ pc[p] = "tables"
      BY <1>0, <1>1, <1>5, <2>1 DEF ExportTables, Steps
    <2> QED
      BY <1>2, <2>1, <2>2 DEF Copied
  <1>6. CASE ExportFunctions(p)
    <2>1. PICK os : os = Overlay(l.objs, Listed(Funcs))
      OBVIOUS
    <2>2. pc'[p] = "secrets" /\ local'[p] = [l EXCEPT !.objs = os] /\ pc[p] = "functions"
      BY <1>0, <1>1, <1>6, <2>1 DEF ExportFunctions, Steps
    <2>3. l = [doc |-> l.doc, srv |-> l.srv, objs |-> l.objs]
      BY <1>2, <2>2 DEF Holds
    <2>4. local'[p].srv = l.srv /\ local'[p].objs = os
      BY <2>2, <2>3
    <2>5. l.objs = Listed(Tables) /\ l.srv = [s \in Living(servers) |-> servers[s]]
      BY <1>2, <2>2 DEF Copied
    <2>6. ObjectsRead(Objects, os)
      BY <1>2, <2>1, <2>5, AllRead
    <2> QED
      BY <2>2, <2>4, <2>5, <2>6 DEF Copied
  <1>7. CASE ExportSecrets(p) \/ ExportColumns(p)
    BY <1>7, SecretsCopied, ColumnsRead
  <1> QED
    BY <1>3, <1>4, <1>5, <1>6, <1>7 DEF Begins, Exports

\* Where no row changes, what was copied still agrees with the rows.
LEMMA CopiedKept ==
    ASSUME Kept, NEW step, NEW l, Copied(step, l)
    PROVE  Copied(step, l)'
  <1>1. servers' = servers /\ objs' = objs /\ creds' = creds /\ cols' = cols
    BY DEF Kept
  <1>2. Living(servers)' = Living(servers) /\ Listed(Tables)' = Listed(Tables)
    BY <1>1 DEF Living, Listed, Has
  <1>3. ServersCopied(l.srv) => ServersCopied(l.srv)'
    BY <1>1, <1>2 DEF ServersCopied, Alone
  <1>4. ObjectsRead(Objects, l.objs) => ObjectsRead(Objects, l.objs)'
    BY <1>1 DEF ObjectsRead, KeyOf, Living, Has
  <1>5. ColumnsCopied(l.objs) => ColumnsCopied(l.objs)'
    <2>1. ASSUME NEW o
          PROVE  /\ ColumnNames(cols', objs', o) = ColumnNames(cols, objs, o)
                 /\ KeyOf(o)' = KeyOf(o)
                 /\ Has(servers', objs'[o].srv) <=> Has(servers, objs[o].srv)
      BY <1>1, Zenon DEF KeyOf
    <2>2. Living(objs') = Living(objs)
      BY <1>1
    <2> QED
      BY <2>1, <2>2 DEF ColumnsCopied
  <1> QED
    BY <1>1, <1>2, <1>3, <1>4, <1>5 DEF Copied

LEMMA CopiedStep ==
    ASSUME DbInv, CopiedOK, NEW p \in Procs, StepOf(p)
    PROVE  CopiedOK'
  <1> SUFFICES ASSUME NEW q \in Procs, quiet'[q], pc'[q] \notin {"idle", "inline"}
               PROVE  Copied(pc[q], local[q])'
    BY DEF CopiedOK, Copied
  <1>1. Kept /\ Copied(pc[q], local[q])
    BY StaysQuiet DEF CopiedOK
  <1>2. Copied(pc'[q], local'[q])
    BY <1>1, StaysQuiet, CopiedNext
  <1>3. PICK step, l : step = pc'[q] /\ l = local'[q]
    OBVIOUS
  <1> QED
    BY <1>1, <1>2, <1>3, CopiedKept DEF Copied

\* What Install writes for the servers and the objects of a document.
LEMMA InstalledServer ==
    ASSUME NEW p \in Procs, NEW doc, Install(p, doc), ServersFit(doc.servers),
           NEW s \in DOMAIN doc.servers
    PROVE  /\ servers'[s].opt = doc.servers[s].opt
           /\ doc.servers[s].secret # None =>
                /\ servers'[s].cred = <<s, NewGen>>
                /\ creds'[s].secret = doc.servers[s].secret
  <1> DEFINE cred(n) == doc.servers[n].secret # None
             row(n)  == [gen |-> NewGen, opt |-> doc.servers[n].opt,
                         cred |-> IF cred(n) THEN <<n, NewGen>> ELSE None,
                         on |-> StoredEnabled(doc.servers[n].on)]
  <1>1. /\ creds' = [n \in CredNames |->
                       IF n \in DOMAIN doc.servers /\ cred(n)
                       THEN [gen |-> NewGen, secret |-> doc.servers[n].secret] ELSE None]
        /\ servers' = [n \in Servers |-> IF n \in DOMAIN doc.servers THEN row(n) ELSE None]
    BY DEF Install
  <1>2. s \in Servers /\ s \in CredNames /\ doc.servers[s] \in DocServer
    BY DEF ServersFit, CredNames
  <1>3. servers'[s] = row(s)
    BY <1>1, <1>2
  <1>4. cred(s) => creds'[s] = [gen |-> NewGen, secret |-> doc.servers[s].secret]
    BY <1>1, <1>2
  <1> QED
    BY <1>3, <1>4

LEMMA InstalledObject ==
    ASSUME NEW p \in Procs, NEW doc, Install(p, doc), Importable(doc),
           ObjectsFit(doc.objs, Owners), NEW k \in DOMAIN doc.objs
    PROVE  /\ objs'[k[1]].srv[1] = k[2]
           /\ objs'[k[1]].remote = doc.objs[k].remote /\ objs'[k[1]].opt = doc.objs[k].opt
           /\ ColumnNames(cols', objs', k[1]) = doc.objs[k].cols
  <1> DEFINE key(o) == CHOOSE j \in DOMAIN doc.objs : j[1] = o
             row(o) == [gen |-> NewGen, srv |-> <<key(o)[2], NewGen>>,
                        remote |-> doc.objs[key(o)].remote, opt |-> doc.objs[key(o)].opt]
             new(j) == {[table |-> <<j[1], NewGen>>, name |-> c] : c \in doc.objs[j].cols}
  <1>1. /\ objs' = [o \in Objects |-> IF o \in ObjectNames(doc) THEN row(o) ELSE None]
        /\ cols' = UNION {new(j) : j \in DOMAIN doc.objs}
    BY DEF Install
  <1>2. k[1] \in Objects /\ k[1] \in ObjectNames(doc)
    BY DEF ObjectsFit, ObjectNames
  <1>3. \A j \in DOMAIN doc.objs : j[1] = k[1] => j = k
    BY DEF Importable
  <1>4. key(k[1]) = k
    BY <1>3
  <1>5. objs'[k[1]] = [gen |-> NewGen, srv |-> <<k[2], NewGen>>,
                       remote |-> doc.objs[k].remote, opt |-> doc.objs[k].opt]
    BY <1>1, <1>2, <1>4
  <1>6. PICK g : g = NewGen
    OBVIOUS
  <1>7. \A d : d \in cols' /\ d.table = <<k[1], g>> <=>
          \E c \in doc.objs[k].cols : d = [table |-> <<k[1], g>>, name |-> c]
    <2>1. \A d : d \in cols' <=> \E j \in DOMAIN doc.objs : \E c \in doc.objs[j].cols :
                                   d = [table |-> <<j[1], g>>, name |-> c]
      BY <1>1, <1>6
    <2>2. \A j \in DOMAIN doc.objs : <<j[1], g>> = <<k[1], g>> => j = k
      BY <1>3
    <2> QED
      BY <2>1, <2>2
  <1>8. ColumnNames(cols', objs', k[1]) = doc.objs[k].cols
    <2>1. PICK kept : kept = {d \in cols' : d.table = <<k[1], g>>}
      OBVIOUS
    <2>2. ColumnNames(cols', objs', k[1]) = {d.name : d \in kept}
      BY <1>5, <1>6, <2>1 DEF ColumnNames
    <2>3. \A d : d \in kept <=>
            \E c \in doc.objs[k].cols : d = [table |-> <<k[1], g>>, name |-> c]
      BY <1>7, <2>1
    <2>4. \A d \in kept : d.name \in doc.objs[k].cols
      BY <2>3
    <2>5. ASSUME NEW c \in doc.objs[k].cols
          PROVE  \E d \in kept : d.name = c
      <3>1. [table |-> <<k[1], g>>, name |-> c] \in kept
        BY <2>3
      <3> QED
        BY <3>1
    <2> QED
      BY <2>2, <2>4, <2>5
  <1> QED
    BY <1>5, <1>8

LEMMA QuietMergeStep ==
    ASSUME DbInv, CopiedOK, NEW p \in Procs, QuietMerge(p)
    PROVE  /\ \A s \in Living(servers) \ DOMAIN local[p].doc.servers : KeptServer(s)
           /\ \A o \in Living(objs) :
                Unnamed(local[p].doc, o) /\ Has(servers, objs[o].srv) => KeptObject(o)
  <1>1. PICK l : l = local[p]
    OBVIOUS
  <1>2. PICK doc : doc = Merged(l)
    OBVIOUS
  <1>3. RowTypes /\ ControlTypes /\ pc[p] = "apply" /\ Holds("apply", l)
    BY <1>1 DEF DbInv, LocalOK, QuietMerge, ApplyMerge
  <1>4. Importable(doc) /\ Install(p, doc)
    BY <1>1, <1>2 DEF QuietMerge, ApplyMerge, NoWrite
  <1>5. ServersFit(doc.servers) /\ ObjectsFit(doc.objs, Owners)
    BY <1>2, <1>3, MergedFits
  <1>6. /\ \A s \in DOMAIN doc.servers : servers'[s] # None
        /\ \A o \in ObjectNames(doc) : objs'[o] # None
    BY <1>3, <1>4, <1>5, InstallSound
  <1>7. ServersCopied(l.srv) /\ ObjectsRead(Objects, l.objs) /\ ColumnsCopied(l.objs)
    BY <1>1, <1>3 DEF CopiedOK, QuietMerge, Copied
  <1>8. ASSUME NEW s \in Living(servers), s \notin DOMAIN l.doc.servers
        PROVE  KeptServer(s)
    <2>1. s \in DOMAIN doc.servers /\ doc.servers[s] = l.srv[s]
      BY <1>2, <1>7, <1>8 DEF Merged, Overlay, ServersCopied
    <2>2. servers'[s] # None /\ servers'[s].opt = servers[s].opt
      BY <1>4, <1>5, <1>6, <1>7, <2>1, InstalledServer DEF ServersCopied
    <2>3. ASSUME servers[s].cred # None, Alone(s)
          PROVE  /\ servers'[s].cred # None
                 /\ creds'[servers'[s].cred[1]].secret = creds[servers[s].cred[1]].secret
      <3>1. doc.servers[s].secret = creds[servers[s].cred[1]].secret
            /\ doc.servers[s].secret # None
        BY <1>7, <2>1, <2>3 DEF ServersCopied
      <3>2. servers'[s].cred = <<s, NewGen>> /\ creds'[s].secret = doc.servers[s].secret
        BY <1>4, <1>5, <2>1, <3>1, InstalledServer
      <3>3. <<s, NewGen>> \in Ids(CredNames)
        <4>1. NewGen \in Gens
          BY <1>3, <1>4, WroteControl DEF Install
        <4> QED
          BY <1>5, <2>1, <4>1 DEF Ids, CredNames, ServersFit
      <3> QED
        BY <3>1, <3>2, <3>3, DocAssumption
    <2> QED
      BY <2>2, <2>3 DEF KeptServer, Alone
  <1>9. ASSUME NEW o \in Living(objs), Unnamed(l.doc, o), Has(servers, objs[o].srv)
        PROVE  KeptObject(o)
    <2>1. PICK k : k = KeyOf(o)
      OBVIOUS
    <2>2. o \in Objects /\ objs[o].srv[1] \in Servers
      BY <1>3, LivingRows DEF Living, RowTypes, ObjectRow, Ids
    <2>3. k[1] = o /\ k[2] = objs[o].srv[1] /\ k[2] # None /\ k \notin DOMAIN l.doc.objs
      BY <1>9, <2>1, <2>2, DbAssumption DEF KeyOf, Unnamed
    <2>4. /\ k \in DOMAIN l.objs
          /\ l.objs[k].remote = objs[o].remote /\ l.objs[k].opt = objs[o].opt
          /\ l.objs[k].cols = ColumnNames(cols, objs, o)
      BY <1>7, <1>9, <2>1, <2>2 DEF ObjectsRead, ColumnsCopied
    <2>5. k \in DOMAIN doc.objs /\ doc.objs[k] = l.objs[k]
      <3>1. PICK ks : ks = {j \in DOMAIN l.objs : j[2] # None}
        OBVIOUS
      <3>2. k \in ks
        BY <2>3, <2>4, <3>1
      <3>3. doc.objs = Overlay(l.doc.objs, Restrict(l.objs, ks))
        BY <1>2, <3>1 DEF Merged
      <3> QED
        BY <2>3, <3>2, <3>3 DEF Overlay, Restrict
    <2>6. k[1] \in ObjectNames(doc)
      BY <2>5 DEF ObjectNames
    <2>7. /\ objs'[k[1]].srv[1] = k[2]
          /\ objs'[k[1]].remote = doc.objs[k].remote /\ objs'[k[1]].opt = doc.objs[k].opt
          /\ ColumnNames(cols', objs', k[1]) = doc.objs[k].cols
      BY <1>4, <1>5, <2>5, InstalledObject
    <2>8. objs'[o] # None
      BY <1>6, <2>3, <2>6
    <2>9. /\ objs'[o].srv[1] = objs[o].srv[1]
          /\ objs'[o].remote = objs[o].remote /\ objs'[o].opt = objs[o].opt
          /\ ColumnNames(cols', objs', o) = ColumnNames(cols, objs, o)
      BY <2>3, <2>4, <2>5, <2>7
    <2> QED
      BY <2>8, <2>9 DEF KeptObject
  <1> QED
    BY <1>1, <1>8, <1>9

LEMMA CopiedInductive == DbInv /\ CopiedOK /\ [Next]_vars => CopiedOK'
  <1> SUFFICES ASSUME DbInv, CopiedOK, [Next]_vars PROVE CopiedOK'
    OBVIOUS
  <1>1. CASE Next
    BY <1>1, NextIsStep, CopiedStep
  <1>2. CASE UNCHANGED vars
    <2>1. Kept /\ UNCHANGED <<pc, local, quiet>>
      BY <1>2 DEF vars, Kept
    <2> SUFFICES ASSUME NEW q \in Procs, quiet'[q] PROVE Copied(pc[q], local[q])'
      BY DEF CopiedOK
    <2>2. Copied(pc[q], local[q])
      BY <2>1 DEF CopiedOK
    <2>3. PICK step, l : step = pc[q] /\ l = local[q]
      OBVIOUS
    <2> QED
      BY <2>1, <2>2, <2>3, CopiedKept
  <1> QED
    BY <1>1, <1>2

(***************************************************************************)
(* A merge import that overlaps no other write keeps every server, table   *)
(* and function the client's document does not name, with or without       *)
(* foreign keys: what the five queries of the export read one after the    *)
(* other, and what is not read but carried through MergeDeclarativeDocs    *)
(* and replaceSnapshot under new IDs, is what the rows were.               *)
(***************************************************************************)
THEOREM QuietMergesKeep == Spec => QuietMergeKeeps
  <1>1. Init => CopiedOK
    BY DEF Init, CopiedOK, Copied
  <1>2. DbInv /\ CopiedOK /\ [Next]_vars =>
          [\A p \in Procs : QuietMerge(p) =>
             /\ \A s \in Living(servers) \ DOMAIN local[p].doc.servers : KeptServer(s)
             /\ \A o \in Living(objs) :
                  Unnamed(local[p].doc, o) /\ Has(servers, objs[o].srv) => KeptObject(o)]_vars
    BY QuietMergeStep
  <1> QED
    BY <1>1, <1>2, CopiedInductive, AlwaysDbInv, PTL DEF Spec, QuietMergeKeeps

=============================================================================

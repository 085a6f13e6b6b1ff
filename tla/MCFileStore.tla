---------------------------- MODULE MCFileStore ----------------------------
(* FileStore on small sets of names and files.                             *)
EXTENDS FileStore

CONSTANTS a, b, c1, t, x, y, env

FileOf(creds, servers, objs) == [creds |-> creds, servers |-> servers, objs |-> objs]
At(D, v) == [n \in D |-> v]
Inline(v) == [data |-> v, name |-> None, enabled |-> TRUE]
Named(n)  == [data |-> None, name |-> n, enabled |-> TRUE]

\* One server with an inline secret and a table.
OneServer == FileOf(Nothing, At({a}, Inline(env)), At({<<t, a>>}, 1))

\* Two servers that name one top-level credential, as in drivers.yaml.example.
SharedFile == FileOf(At({c1}, x), At({a, b}, Named(c1)), Nothing)

\* Imported: another secret and a table for b; a table of a server the document
\* does not have.
ImportB == FileOf(Nothing, At({b}, [data |-> y, enabled |-> FALSE]), At({<<t, b>>}, 2))
ImportTable == FileOf(Nothing, Nothing, At({<<t, a>>}, 2))

\* env is ${VAR}; VAR is set to x.
MCExpand == [v \in {x, y, env} |-> IF v = env THEN x ELSE v]

MCImports == {ImportB, ImportTable}
MCFiles == {Empty, OneServer, SharedFile}
MCOneFile == {Absent, OneServer}
MCEmptyFile == {Empty}
MCNoFile == {Absent}

\* Another file of the directory: none, one with a server of its own, one with an
\* object on the server of drivers.yaml.
Beside  == FileOf(Nothing, At({b}, Inline(y)), At({<<t, b>>}, 2))
Leaning == FileOf(Nothing, Nothing, At({<<t, a>>}, 2))
MCOther == {Absent, Beside, Leaning}

\* drivers.yaml is there at first where the other file leans on it or nothing is
\* beside it: what else it may hold a mutation writes.
MCInit ==
    /\ Init
    /\ main = OneServer <=> left = Absent /\ other # Beside
    /\ left = Absent \/ other = Absent

\* Of the directory whose other file leans on drivers.yaml one mutation less.
MCNext == Next /\ (other = Leaning => ops' < MaxOps)
MCSpec == MCInit /\ [][MCNext]_vars

\* A directory whose drivers.yaml an earlier New has written.
MCWritten == Init /\ left = Absent
MCWrittenSpec == MCWritten /\ [][Next]_vars
=============================================================================

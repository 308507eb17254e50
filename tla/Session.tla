------------------------------ MODULE Session ------------------------------
(***************************************************************************)
(* One server-side session: what the engines do with the transaction       *)
(* vocabulary keelson-exec sends (BEGIN, SAVEPOINT, RELEASE, ROLLBACK TO,   *)
(* COMMIT, ROLLBACK) and with an ordinary statement.  The engines are       *)
(* outside the repository; they are modelled from how the code uses them:   *)
(* every command answers Ok or an error, and the error of a statement is    *)
(* either "refused" (the statement alone failed) or "conflict" (one of the  *)
(* TxConflict kinds, where the transaction lost).                           *)
(*                                                                         *)
(* A session holds a stack of frames, the transaction's own and one per     *)
(* savepoint, each with the writes made since it was pushed.  A command is  *)
(* a set of possible answers, each a reply, the session afterwards and the  *)
(* writes it made durable.                                                  *)
(***************************************************************************)
EXTENDS Naturals, Sequences, FiniteSets, FiniteSetsExt

VARIABLE family      \* the engine behind the connection

Families == {"Postgres", "MySql", "Sqlite"}

\* The name of the transaction's own frame; savepoints are named 1, 2, ...
TxFrame == 0

Frame(name) == [name |-> name, work |-> {}]

\* No transaction is open: an ordinary statement commits by itself.
IdleSession == [tx |-> "idle", frames |-> <<>>]

OpenSession == [tx |-> "active", frames |-> <<Frame(TxFrame)>>]

\* The connection is gone, and whatever was open went with it.
Gone == [tx |-> "gone", frames |-> <<>>]

\* Every write the session holds that is not durable yet.
Pending(s) == UNION {s.frames[i].work : i \in DOMAIN s.frames}

Answer(reply, s, kept) == [reply |-> reply, session |-> s, kept |-> kept]
Ok(s) == Answer("ok", s, {})

\* PostgreSQL refuses everything after an error until it is rolled back; the
\* other two engines undo the failed statement and carry on.
Refused(s) ==
    Answer("refused",
           IF family = "Postgres" /\ s.tx = "active"
             THEN [s EXCEPT !.tx = "aborted"] ELSE s,
           {})

\* A conflict aborts a PostgreSQL transaction like any error.  Elsewhere only
\* the statement is undone (a lock wait that timed out, a busy database), or the
\* engine rolls the whole transaction back (an InnoDB deadlock victim), which
\* leaves the session outside one while the client still holds its Transaction.
Conflicted(s) ==
    IF family = "Postgres" THEN {Answer("conflict", [s EXCEPT !.tx = "aborted"], {})}
    ELSE {Answer("conflict", s, {}), Answer("conflict", IdleSession, {})}

\* The frames of savepoint n, the innermost of that name being the last.
Named(s, n) == {i \in DOMAIN s.frames : s.frames[i].name = n}

\* The frames below position i, the work from i upwards merged into the top.
MergeDown(s, i) ==
    [j \in 1 .. i - 1 |->
        IF j < i - 1 THEN s.frames[j]
        ELSE [s.frames[j] EXCEPT
                !.work = @ \union UNION {s.frames[k].work : k \in i .. Len(s.frames)}]]

-----------------------------------------------------------------------------
(* The commands.                                                           *)

Begin(s) ==
    IF s.tx = "idle" THEN {Ok(OpenSession)}
    ELSE CASE family = "Postgres" -> {Ok(s)}  \* a warning: already in a transaction
           [] family = "MySql"    -> {Answer("ok", OpenSession, Pending(s))} \* implicit commit
           [] OTHER               -> {Refused(s)}

\* MySQL deletes an older savepoint of the same name, the others shadow it.
\* Outside a transaction PostgreSQL refuses, MySQL forgets the savepoint at
\* once, and SQLite opens a transaction whose outermost frame it is.
Savepoint(s, n) ==
    CASE s.tx = "active" ->
           LET base == IF family = "MySql" /\ Named(s, n) # {}
                         THEN LET i == Max(Named(s, n))
                              IN  MergeDown([s EXCEPT !.frames = SubSeq(@, 1, i)], i)
                                    \o SubSeq(s.frames, i + 1, Len(s.frames))
                         ELSE s.frames
           IN  {Ok([s EXCEPT !.frames = Append(base, Frame(n))])}
      [] s.tx = "idle" /\ family = "MySql"  -> {Ok(s)}
      [] s.tx = "idle" /\ family = "Sqlite" ->
           {Ok([tx |-> "active", frames |-> <<Frame(n)>>])}
      [] OTHER -> {Refused(s)}

\* Releasing SQLite's outermost savepoint is a COMMIT.
Release(s, n) ==
    IF s.tx = "active" /\ Named(s, n) # {}
      THEN LET i == Max(Named(s, n))
           IN  {IF i = 1 THEN Answer("ok", IdleSession, Pending(s))
                ELSE Ok([s EXCEPT !.frames = MergeDown(s, i)])}
      ELSE {Refused(s)}

\* Also the way back from PostgreSQL's aborted state.  The savepoint stays.
RollbackTo(s, n) ==
    IF s.tx \in {"active", "aborted"} /\ Named(s, n) # {}
      THEN {Ok([tx |-> "active",
                frames |-> Append(SubSeq(s.frames, 1, Max(Named(s, n)) - 1), Frame(n))])}
      ELSE {Refused(s)}

\* An aborted PostgreSQL transaction answers COMMIT with a rollback and no
\* error.  A commit that fails leaves nothing open, except on SQLite where a
\* busy COMMIT may be retried.
Commit(s) ==
    CASE s.tx = "active" ->
           {Answer("ok", IdleSession, Pending(s)),
            Answer("conflict", IF family = "Sqlite" THEN s ELSE IdleSession, {})}
      [] s.tx = "idle" /\ family = "Sqlite" -> {Refused(s)}
      [] OTHER -> {Ok(IdleSession)}

Rollback(s) ==
    IF s.tx = "idle" /\ family = "Sqlite" THEN {Refused(s)} ELSE {Ok(IdleSession)}

\* A statement that makes write w.
Statement(s, w) ==
    CASE s.tx = "active" ->
           {Ok([s EXCEPT !.frames[Len(s.frames)].work = @ \union {w}]), Refused(s)}
             \union Conflicted(s)
      [] s.tx = "idle" -> {Answer("ok", s, {w}), Refused(s)}
      [] OTHER -> {Refused(s)}

\* What a client may hear: one of the answers, or an error because the
\* connection died before the command arrived or after it was carried out.
Heard(s, answers) ==
    IF s.tx = "gone" THEN {Answer("refused", Gone, {})}
    ELSE answers \union {Answer("refused", Gone, {})}
                 \union {Answer("refused", Gone, a.kept) : a \in answers}
=============================================================================

------------------------------ MODULE SqlFacade ------------------------------
(***************************************************************************)
(* PgStore.execute (src/server/storage.py): one statement written for       *)
(* SQLite, and its parameters, on their way to PostgreSQL.  The text is     *)
(* rewritten, parameters are converted by the position of the columns       *)
(* named in it and by what they look like, placeholders are numbered.       *)
(*                                                                         *)
(* A text is a sequence of tokens.  A placeholder is written with the type  *)
(* that PostgreSQL wants at its place; the code sees only a question mark.  *)
(***************************************************************************)
EXTENDS Integers, Sequences, SequencesExt

CONSTANTS
    Statements     \* what the routes and loops execute

\* A statement lists items, a column each with the text of its value, and what
\* follows them: [verb, column, value, rest, keyed].  A column is "bool", "time",
\* "text" or "int" in the schema; "bool*" is one BOOLEAN_COLUMNS leaves out.
VARIABLES
    statement,
    given,     \* the parameters
    sent       \* what asyncpg gets: text and parameters, once executed

vars == <<statement, given, sent>>

Placeholder == {"?bool", "?bool*", "?time", "?text", "?int", "?span"}
Asked(place) == CASE place \in {"?bool", "?bool*"} -> "bool" [] place = "?time" -> "time"
                  [] place = "?text" -> "text" [] place = "?int" -> "int"
                  [] place = "?span" -> "span"

\* How the callers write a value for each of them: flags as 0/1 or as booleans,
\* times as ISO strings with a "T", spans as "-10 minutes".
Written(place) == CASE place \in {"?bool", "?bool*"} -> {"0/1", "bool"} [] place = "?time" -> {"iso"}
                    [] place = "?text" -> {"string"} [] place = "?int" -> {"0/1", "number"}
                    [] place = "?span" -> {"span"}

Text(s) == FlattenSeq([i \in DOMAIN s.value |-> s.value[i] \o <<",">>]) \o s.rest

\* The parameters a text asks for: its question marks with an even number of
\* quotes before them.
Quotes(text, i) == Len(SelectSeq(SubSeq(text, 1, i), LAMBDA t : t = "'"))
Places(text) ==
    FlattenSeq([i \in DOMAIN text |->
        IF text[i] \in Placeholder /\ Quotes(text, i) % 2 = 0 THEN <<text[i]>> ELSE <<>>])

Init ==
    /\ statement \in Statements
    /\ LET places == Places(Text(statement))
       IN  \E flags \in {"0/1", "bool"}, numbers \in {"0/1", "number"} :
               given = [k \in DOMAIN places |->
                           CASE Asked(places[k]) = "bool" -> flags
                             [] Asked(places[k]) = "int" -> numbers
                             [] OTHER -> CHOOSE v \in Written(places[k]) : TRUE]
    /\ sent = <<>>

-----------------------------------------------------------------------------
(* Rewriting *)

Opens(t) == t \in {"(", "datetime(", "julianday(", "EXTRACT("}

\* The position of the parenthesis that closes the one at p, or 0.
Closing(text, p) ==
    LET Depth(q) == Len(SelectSeq(SubSeq(text, p, q), Opens))
                    - Len(SelectSeq(SubSeq(text, p, q), LAMBDA t : t = ")"))
        Closes(q) == q > p /\ Depth(q) = 0
    IN  IF \E q \in DOMAIN text : Closes(q)
        THEN CHOOSE q \in DOMAIN text : Closes(q) /\ \A r \in (p + 1)..(q - 1) : ~Closes(r)
        ELSE 0

\* The time meant by what is inside datetime(...) or julianday(...).
Moment(inner) ==
    CASE inner[1] # "'now'" -> inner
      [] inner = <<"'now'">> -> <<"NOW()">>
      [] Len(inner) = 3 /\ inner[3] \in Placeholder -> <<"NOW()", "+", inner[3], "::interval">>
      [] OTHER -> <<"NOW()", "+", "INTERVAL", inner[3]>>

Replacement(call, inner) ==
    IF call = "datetime(" THEN Moment(inner)
    ELSE <<"EXTRACT(">> \o Moment(inner) \o <<")", "/ 86400.0">>

\* The text with every such call rewritten; one that is not closed ends the search.
WithoutCalls(call, text) ==
    LET From[p \in 1..(Len(text) + 1)] ==
            IF p > Len(text) THEN <<>>
            ELSE IF text[p] # call THEN <<text[p]>> \o From[p + 1]
            ELSE LET q == Closing(text, p)
                 IN  IF q = 0 THEN SubSeq(text, p, Len(text))
                     ELSE Replacement(call, SubSeq(text, p + 1, q - 1)) \o From[q + 1]
    IN  From[1]

\* "= 1" after the name of a boolean column becomes "= TRUE".
BooleanLiterals(text) ==
    [i \in DOMAIN text |-> IF text[i] = "bool = 1" THEN "bool = TRUE" ELSE text[i]]

Rewrite(text) == BooleanLiterals(WithoutCalls("julianday(", WithoutCalls("datetime(", text)))

\* INSERT OR REPLACE with a known key and no parentheses among its values.
\* INSERT OR IGNORE is left as it is, which PostgreSQL does not parse.
Verb(s) == IF s.verb = "replace" /\ s.keyed /\ \A i \in DOMAIN s.value : \A j \in DOMAIN s.value[i] : ~Opens(s.value[i][j])
           THEN "upsert" ELSE s.verb

Rewritten(s) == [s EXCEPT !.verb = Verb(s), !.rest = Rewrite(@),
                          !.value = [i \in DOMAIN @ |-> Rewrite(@[i])]]

-----------------------------------------------------------------------------
(* Parameters *)

\* The columns an INSERT names, or the pieces between the commas of a SET: a
\* comma inside COALESCE(?, column) makes a piece of its own.
Named(s) ==
    CASE s.verb \in {"insert", "replace", "upsert"} -> s.column
      [] s.verb = "update" ->
            FlattenSeq([i \in DOMAIN s.column |->
                <<s.column[i]>> \o [j \in 1..Len(SelectSeq(s.value[i], LAMBDA t : t = ",")) |-> "none"]])
      [] OTHER -> <<>>

\* Parameter i is taken to be for the i-th of them.
ByPosition(s, params, kind, from, to) ==
    [i \in DOMAIN params |->
        IF i <= Len(Named(s)) /\ Named(s)[i] = kind /\ params[i] = from THEN to ELSE params[i]]

CoerceBool(s, params) == ByPosition(s, params, "bool", "0/1", "bool")
CoerceTimestamp(s, params) == ByPosition(s, params, "time", "iso", "datetime")

\* Mutant of ByLooks: only spans are converted wherever they are.
SpansOnly(params) == [i \in DOMAIN params |-> IF params[i] = "span" THEN "timedelta" ELSE params[i]]

\* Strings that look like a span or a time are converted wherever they are.
ByLooks(params) ==
    [i \in DOMAIN params |-> CASE params[i] = "span" -> "timedelta"
                               [] params[i] = "iso" -> "datetime"
                               [] OTHER -> params[i]]

\* translate_placeholders: what the numbered places ask for, in order.  Nothing
\* inside a quoted literal is a placeholder.
Translate(text) ==
    FoldLeft(LAMBDA acc, t : [quoted |-> acc.quoted # (t = "'"),
                              places |-> IF ~acc.quoted /\ t \in Placeholder
                                         THEN Append(acc.places, t) ELSE acc.places],
             [quoted |-> FALSE, places |-> <<>>], text).places

\* RETURNING id is appended to every plain INSERT, upserts included.
Returning(s) == s.verb \in {"insert", "upsert"}

Execute ==
    LET s == Rewritten(statement) IN
    /\ sent = <<>>
    /\ sent' = [verb   |-> s.verb,
                places |-> Translate(Text(s)),
                params |-> ByLooks(CoerceTimestamp(s, CoerceBool(s, given))),
                returning |-> Returning(s)]
    /\ UNCHANGED <<statement, given>>

Next == Execute

Spec == Init /\ [][Next]_vars

-----------------------------------------------------------------------------
\* The type asyncpg takes for each.
Takes == [bool |-> "bool", time |-> "datetime", span |-> "timedelta", text |-> "string"]

\* Every variable has its type.
TypeOK ==
    /\ statement \in Statements
    /\ DOMAIN given = DOMAIN Places(Text(statement))
    /\ sent = <<>> \/ sent.verb \in {"insert", "upsert", "replace", "ignore", "update", "delete", "select"}

\* "Map the named columns in the statement to their parameter positions and
\* coerce only those positions" (_coerce_bool_params): positions are off by
\* every fixed value and every comma in a call, and still each parameter of
\* each statement reaches asyncpg as the type its place asks for, as a number
\* is never taken for a flag; the columns BOOLEAN_COLUMNS leaves out excepted.
ParametersFit ==
    sent # <<>> =>
        /\ sent.places = Places(Text(statement))
        /\ \A k \in DOMAIN sent.places :
               CASE sent.places[k] = "?bool*" -> TRUE
                 [] Asked(sent.places[k]) = "int" -> sent.params[k] \in {"0/1", "number"}
                 [] OTHER -> sent.params[k] = Takes[Asked(sent.places[k])]
=============================================================================

------------------------------- MODULE Books -------------------------------
(***************************************************************************)
(* books-service: bottle's default server serves one request at a time,    *)
(* and all of them use the one session `db` that app.py opens when it is   *)
(* imported.  A request whose SQL raises anything but ValueError leaves    *)
(* that session in a transaction that must be rolled back; only POST       *)
(* /books does so for every exception.                                     *)
(*                                                                         *)
(* Requests are atomic, but for DELETE: it counts active trades in one     *)
(* step and deactivates the book in another, and trade-action-service      *)
(* writes the trades table in between.  Of a book its name and is_active   *)
(* are kept.  The module is composed with its callers in TradeDesk.        *)
(*                                                                         *)
(* An operator whose comment says "Slip:" is a bug one could plausibly     *)
(* make in the definition that follows it; no specification uses it.       *)
(***************************************************************************)
EXTENDS Naturals, Sequences, FiniteSets

CONSTANTS Book, Name, TradeId,
          NoRow,      \* a book_id or trade_id that is not in its table
          NoName,     \* a payload without name or expected_asset_class
          NoBook,     \* no DELETE is under way
          MaxBatch,   \* bound: books created by one request
          MaxFaults   \* bound: SQL statements that raise

VARIABLES book,     \* the books table
          trade,    \* the trades table, written by trade-action-service
          session,  \* "clean", or "failed": its transaction must be rolled back
          deleting, \* the book delete_book has counted the trades of
          faults    \* history: statements that raised

Rows == {b \in Book : book[b] # NoRow}
NamesIn(B) == {book[b].name : b \in B}

Init == /\ book = [b \in Book |-> NoRow]
        /\ session = "clean"
        /\ deleting = NoBook
        /\ faults = 0

\* Slip: the service runs under ThreadedServer, like its siblings.
FreeThreaded == TRUE
\* The single thread has no other request in work.
Free == deleting = NoBook
Usable == session = "clean"

Raised == faults < MaxFaults /\ faults' = faults + 1
\* A statement raises and nobody rolls back: the database is down, book_id is
\* not a UUID, a column value has the wrong type.
Breaks == Raised /\ session' = "failed" /\ UNCHANGED book
\* `except ValueError`: rolled back.
Refuse == session' = "clean" /\ UNCHANGED <<book, faults>>
\* After the commit an audit entry is written in a session of its own; should
\* that raise, the answer is 500 and the commit stands.
Audited == UNCHANGED faults \/ Raised

\* What get_all_books returns.
Listed == {b \in Rows : book[b].active}

\* GET /books answers `answer`; its callers treat an error like an empty list.
GetBooks(answer) ==
    /\ Free
    /\ \/ Usable /\ answer = Listed /\ UNCHANGED <<book, session, faults>>
       \/ Usable /\ answer = {} /\ Breaks
       \/ ~Usable /\ answer = {} /\ UNCHANGED <<book, session, faults>>
    /\ UNCHANGED deleting

\* GET /books/<book_id>
GetBook == Free /\ Usable /\ Breaks /\ UNCHANGED deleting

Payloads == UNION {[1..n -> Name \cup {NoName}] : n \in 1..MaxBatch}
Acceptable(names) ==
    /\ \A i \in DOMAIN names : names[i] \notin NamesIn(Rows) \cup {NoName}
    /\ \A i, j \in DOMAIN names : i # j => names[i] # names[j]

\* POST /books, create_books_batch: all books or none.
\* Slip: like PUT and DELETE it rolls back for ValueError only, and does not
\* close the session.
CreateBooksKeepsSession ==
    /\ Free
    /\ \/ \E names \in Payloads :
            \/ /\ Usable /\ Acceptable(names)
               /\ \E id \in [DOMAIN names -> Book \ Rows] :
                    /\ \A i, j \in DOMAIN names : i # j => id[i] # id[j]
                    /\ book' = [b \in Book |->
                          IF \E i \in DOMAIN names : id[i] = b
                          THEN [name |-> names[CHOOSE i \in DOMAIN names : id[i] = b],
                                active |-> TRUE]
                          ELSE book[b]]
               /\ Audited
            \/ (~Usable \/ ~Acceptable(names)) /\ UNCHANGED <<book, faults>>
       \/ Raised /\ UNCHANGED book
    /\ UNCHANGED <<session, deleting>>
CreateBooks ==
    /\ Free
    /\ \/ \E names \in Payloads :
            \/ /\ Usable /\ Acceptable(names)
               /\ \E id \in [DOMAIN names -> Book \ Rows] :
                    /\ \A i, j \in DOMAIN names : i # j => id[i] # id[j]
                    /\ book' = [b \in Book |->
                          IF \E i \in DOMAIN names : id[i] = b
                          THEN [name |-> names[CHOOSE i \in DOMAIN names : id[i] = b],
                                active |-> TRUE]
                          ELSE book[b]]
               /\ Audited
            \/ (~Usable \/ ~Acceptable(names)) /\ UNCHANGED <<book, faults>>
       \/ Raised /\ UNCHANGED book
    /\ session' = "clean"
    /\ UNCHANGED deleting

\* PUT /books/<book_id>, update_book: unlike DELETE it deactivates a book
\* whatever trades it has.
UpdateBook(b) ==
    /\ Free /\ Usable
    /\ \/ \E name \in Name, active \in BOOLEAN :
            IF b \in Rows /\ name \notin NamesIn(Rows \ {b})
            THEN /\ book' = [book EXCEPT ![b] = [name |-> name, active |-> active]]
                 /\ Audited /\ UNCHANGED session
            ELSE Refuse
       \/ Breaks
    /\ UNCHANGED deleting

ActiveTrades(b) ==
    {t \in TradeId : trade[t] # NoRow /\ trade[t].book = b /\ trade[t].status = "ACTIVE"}

\* DELETE /books/<book_id>: delete_book looks the book up and counts ...
CountTrades(b) ==
    /\ Free /\ Usable
    /\ \/ b \in Rows /\ ActiveTrades(b) = {} /\ deleting' = b
          /\ UNCHANGED <<book, session, faults>>
       \/ (b \notin Rows \/ ActiveTrades(b) # {}) /\ Refuse /\ UNCHANGED deleting
       \/ Breaks /\ UNCHANGED deleting

\* ... and then sets is_active and commits.
Deactivate ==
    /\ deleting # NoBook
    /\ \/ /\ book' = [book EXCEPT ![deleting].active = FALSE]
          /\ Audited /\ UNCHANGED session
       \/ Breaks
    /\ deleting' = NoBook
=============================================================================

------------------------------ MODULE AccessLog ------------------------------
(***************************************************************************)
(* The access log: which lines are written and how a field is escaped.     *)
(*                                                                         *)
(* Source: crates/wicket-core/src/proxy.rs (AccessLogger and the functions *)
(* it formats with).  A text is the sequence of its characters, of which   *)
(* only the ones that are escaped and their escapes are told apart.        *)
(***************************************************************************)
EXTENDS Naturals, Sequences, SequencesExt

\* str::replace of one character by a text.
replace(text, char, by) ==
    FlattenSeq([i \in DOMAIN text |-> IF text[i] = char THEN by ELSE <<text[i]>>])

\* Both formats escape alike, one character after the other, the backslash
\* first.
escape(text) ==
    LET t1 == replace(text, "\\", <<"\\", "\\">>)
        t2 == replace(t1, "quote", <<"\\", "quote">>)
        t3 == replace(t2, "newline", <<"\\", "n">>)
        t4 == replace(t3, "return", <<"\\", "r">>)
    IN replace(t4, "tab", <<"\\", "t">>)

\* A logger exists if both the access log and log files are enabled.
from_config(logging) == logging.access /\ logging.files

Quoted(text) == <<"quote">> \o text \o <<"quote">>

\* An entry is [remote, request, named]: the client's address, the method,
\* URI and protocol, and the texts the rest of the line is made of.  The
\* numbers, the time and the names of the JSON fields are left out.
format_combined_access_log(entry) ==
    escape(entry.remote)
    \o Quoted(FlattenSeq([i \in DOMAIN entry.request |-> escape(entry.request[i])]))
    \o FlattenSeq([i \in DOMAIN entry.named |-> Quoted(escape(entry.named[i]))])

format_json_access_log(entry) ==
    LET texts == <<entry.remote>> \o entry.request \o entry.named
    IN FlattenSeq([i \in DOMAIN texts |-> Quoted(escape(texts[i]))])

\* AccessLogger::write: a line under the lock of the writer.
write(format, entry) ==
    (IF format = "combined" THEN format_combined_access_log(entry) ELSE format_json_access_log(entry))
    \o <<"newline">>
=============================================================================

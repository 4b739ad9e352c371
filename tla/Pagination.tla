-------------------------------- MODULE Pagination --------------------------------
(***************************************************************************)
(* Page tokens (pagination/cursor.go, page.go) and a service whose lists   *)
(* are paged with them, some by offset and some by the last key.           *)
(*                                                                         *)
(* A sealed token is its cursor and the key that sealed it: AES-GCM opens  *)
(* it with that key only, and nobody else makes one.  A binding is the     *)
(* query it was computed from, namespace and scope: SHA-256 of the two.    *)
(***************************************************************************)
EXTENDS Integers, FiniteSets, FiniteSetsExt

CONSTANTS
    CipherKey,          \* keys the service may be configured with
    Query,              \* a namespace and a scope
    Position,           \* keys of rows, in order; 0 is the empty string
    MaxOffset,          \* bound on the rows of a list
    MaxIssued,          \* bound on the tokens given out
    Sizes,              \* page sizes callers ask for
    DefaultPageSize, MaxPageSize,
    NoToken             \* the empty page token

Token == [key : CipherKey, offset : 0 .. MaxOffset, position : Position, binding : Query]

ASSUME PaginationAssumption ==
    /\ Position \subseteq Nat /\ 0 \in Position
    /\ MaxOffset \in Nat /\ MaxIssued \in Nat /\ Sizes \subseteq Int
    /\ MaxPageSize \in Nat \ {0} /\ DefaultPageSize \in 1 .. MaxPageSize
    /\ NoToken \notin Token

VARIABLES
    codec,      \* the key of the service's CursorCodec
    issued,     \* the tokens given out, with the list and the place they continue, and
                \* the key the service had
    answer      \* what the service answered last, and with which key

pageVars == <<codec, issued, answer>>

NoAnswer == [kind |-> "none"]

PagesInit == codec \in CipherKey /\ issued = {} /\ answer = NoAnswer

(***************************************************************************)
(* CursorCodec.                                                            *)
(***************************************************************************)

encode(offset, position, binding) ==
    [key |-> codec, offset |-> offset, position |-> position, binding |-> binding]

EncodeOffset(offset, binding) == encode(offset, 0, binding)

\* It refuses an empty position.
EncodeKeyset(position, binding) == encode(0, position, binding)

Opens(token, binding) ==
    token.key = codec /\ token.offset >= 0 /\ token.binding = binding

\* Mutated form of AcceptsOffset: any token of the query that opens is an offset.
AcceptsOffsetOfAnyCursor(token, binding) == token # NoToken => Opens(token, binding)

\* DecodeOffset and DecodeKeyset take an empty token for the start, and refuse the
\* tokens of each other.
AcceptsOffset(token, binding) ==
    token # NoToken => Opens(token, binding) /\ token.position = 0

AcceptsKeyset(token, binding) ==
    token # NoToken => Opens(token, binding) /\ token.position # 0 /\ token.offset = 0

DecodedOffset(token) == IF token = NoToken THEN 0 ELSE token.offset
DecodedPosition(token) == IF token = NoToken THEN 0 ELSE token.position

\* normalizePageSize, for sizes that are not negative.
PageSize(asked) == IF asked = 0 THEN DefaultPageSize ELSE Min({asked, MaxPageSize})

(***************************************************************************)
(* The service: Resolve and ResolveKeyset, then the repository's page.     *)
(***************************************************************************)

Presented == {i.token : i \in issued} \cup {NoToken}

Answer(kind, query, token, from) ==
    answer' = [kind |-> kind, query |-> query, token |-> token, from |-> from,
               key |-> codec]

\* A token for the rest of the list, when there is a rest.
Issue(kind, query, token, from) ==
    /\ Cardinality(issued) < MaxIssued
    /\ issued' = issued \cup
                    {[token |-> token, kind |-> kind, query |-> query, from |-> from,
                      key |-> codec]}

ListByOffset(query, token, asked) ==
    /\ asked >= 0 /\ AcceptsOffset(token, query)
    /\ LET from == DecodedOffset(token)
           to   == from + PageSize(asked)
       IN  /\ Answer("offset", query, token, from)
           /\ \/ UNCHANGED issued
              \/ to <= MaxOffset /\ Issue("offset", query, EncodeOffset(to, query), to)
    /\ UNCHANGED codec

ListByKey(query, token, asked) ==
    /\ asked >= 0 /\ AcceptsKeyset(token, query)
    /\ LET from == DecodedPosition(token)
       IN  /\ Answer("keyset", query, token, from)
           /\ \/ UNCHANGED issued
              \/ \E to \in Position :
                   to > from /\ Issue("keyset", query, EncodeKeyset(to, query), to)
    /\ UNCHANGED codec

\* ErrInvalidPageToken or ErrInvalidPageSize.
Refuse(query, token, asked) ==
    /\ \/ asked < 0
       \/ ~AcceptsOffset(token, query)
       \/ ~AcceptsKeyset(token, query)
    /\ answer' = NoAnswer
    /\ UNCHANGED <<codec, issued>>

\* The service restarts with another key.
ChangeKey ==
    /\ codec' \in CipherKey \ {codec}
    /\ UNCHANGED <<issued, answer>>

PagesNext ==
    \/ \E query \in Query, token \in Presented, asked \in Sizes :
         ListByOffset(query, token, asked) \/ ListByKey(query, token, asked)
         \/ Refuse(query, token, asked)
    \/ ChangeKey

PagesSpec == PagesInit /\ [][PagesNext]_pageVars

(***************************************************************************)
(* Properties.                                                             *)
(***************************************************************************)

\* Whatever token is presented to whatever list, an answer that is given continues a
\* page of the same list at the place where that page ended, and that page was answered
\* with the same key: tokens of other queries, of the other kind of list or of another
\* key never move a list (cursor.go decode, DecodeOffset, DecodeKeyset).
AnswersContinueTheirList ==
    answer.kind # "none" /\ answer.token # NoToken =>
      \E i \in issued :
        /\ i.token = answer.token
        /\ i.kind = answer.kind /\ i.query = answer.query /\ i.from = answer.from
        /\ i.key = answer.key
==================================================================================

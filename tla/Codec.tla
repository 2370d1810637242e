------------------------------- MODULE Codec --------------------------------
(***************************************************************************)
(* The texts of the messages: how a command becomes a text, and what is    *)
(* read from it at each station: typed at the client, split and sent as    *)
(* RESP, turned into a [CLIENT] text by the node that receives it,         *)
(* forwarded to the LEADER, prepared, and sent once more in a recovery.    *)
(*                                                                         *)
(* A text is a sequence of tokens: the tags that are searched for, the     *)
(* separators, and the pieces of words between them; a number is one       *)
(* token.  find is a search for a token.  A Task reads a text into an      *)
(* array on its stack that nobody clears and cuts at the first zero byte,  *)
(* which recv does not write.  Stacks of threads that have ended are used  *)
(* again, so what an earlier, longer text left there follows.  Where its   *)
(* rest begins depends on lengths in bytes: at any token, or inside one.   *)
(***************************************************************************)
EXTENDS Integers, Sequences, SequencesExt, FiniteSetsExt

CONSTANTS
  Lines,       \* the lines that may be typed, sequences of tokens
  Numerals,    \* the numerals, from "0"
  Announced,   \* messages that nodes send of themselves, records
  Room,        \* tokens the array takes (MAXT)
  MaxTexts     \* bound: texts sent and received

VARIABLES
  wire,        \* the text being sent, or <<>>
  stack,       \* what the array of the next Task holds
  got,         \* the fields of the last text received, or Nothing
  cmd,         \* the text they were read from
  typed,       \* history: the line that got stems from, or <<>>
  written,     \* history: the entry the LEADER has written for it, in the
               \* state in which it was sent, or Nothing
  sent,        \* history: the message that was sent, or Nothing
  cut,         \* history: a text did not fit into the array
  texts        \* texts received so far

vars == <<wire, stack, got, cmd, typed, written, sent, cut, texts>>

Nothing == [type |-> ""]

-----------------------------------------------------------------------------
\* string::find, from a position on; 0 stands for npos
FindFrom(text, tokens, from) ==
  LET found == {p \in from .. Len(text) : text[p] \in tokens}
  IN  IF found = {} THEN 0 ELSE Min(found)

Find(text, token) == FindFrom(text, {token}, 1)

\* substr between two positions; a negative length means all the rest
Between(text, p, q) ==
  SubSeq(text, p + 1, IF q > p THEN q - 1 ELSE Len(text))

Numeral(n) == Numerals[n + 1]

Atoi(text) ==
  IF text = <<>> \/ \A n \in DOMAIN Numerals : Numerals[n] # text[1] THEN 0
  ELSE (CHOOSE n \in DOMAIN Numerals : Numerals[n] = text[1]) - 1

-----------------------------------------------------------------------------
(***************************************************************************)
(* The client: split at the blanks, and the RESP array.                    *)
(***************************************************************************)
split(txt) ==
  LET blank == SetToSortSeq({p \in DOMAIN txt : txt[p] = " "}, <)
      ends  == <<0>> \o blank \o <<Len(txt) + 1>>
  IN  [i \in 1 .. Len(blank) + 1 |-> Between(txt, ends[i], ends[i + 1])]

getStringMessage(raw) == <<"$", Numeral(Len(raw)), "CRLF">> \o raw \o <<"CRLF">>

getRESPArry(raw) ==
  <<"*", Numeral(Len(raw)), "CRLF">>
    \o FlattenSeq([i \in DOMAIN raw |-> getStringMessage(raw[i])])

\* Mutant: the words are joined without a comma.
JoinTight(words) == FlattenSeq(words)

Join(words) ==
  FlattenSeq([i \in DOMAIN words |->
                IF i = Len(words) THEN words[i] ELSE Append(words[i], ",")])

\* RESP2Reup: a length is looked for behind the next "$", wherever that is.
RESPWords(ts) ==
  LET Word(at, i) ==
        LET tp   == FindFrom(ts, {"$"}, at.tp + 1)
            pos1 == FindFrom(ts, {"CRLF"}, at.pos1 + 1)
            l    == Atoi(Between(ts, tp, pos1))
            last == Min({pos1 + l, Len(ts)})
        IN  [tp |-> tp, pos1 |-> FindFrom(ts, {"CRLF"}, pos1 + 1),
             list |-> Append(at.list, SubSeq(ts, pos1 + 1, last))]
      first == Find(ts, "CRLF")
      num   == Atoi(Between(ts, 1, first))
  IN  FoldLeft(Word, [tp |-> 1, pos1 |-> first, list |-> <<>>],
               [i \in 1 .. num |-> i]).list

RESP2Reup(ts) ==
  LET list == RESPWords(ts)
  IN  <<"[CLIENT]", "/add:", "ip", "/port:", "8010", "/op:">> \o list[1]
        \o <<"/res:">> \o Join(Tail(list)) \o <<"/">>

-----------------------------------------------------------------------------
(***************************************************************************)
(* The texts a Participant builds.                                         *)
(***************************************************************************)

Text(m) ==
  <<m.type, "/add:", m.add, "/port:", m.port, "/posi:", m.pos, "/index:", m.index>>
    \o (IF m.type = "[PRE]" THEN <<"/op:">> \o m.op ELSE <<>>)
    \o <<"/res:">> \o m.res \o <<"/">>

\* Mutant: the state is put in front of the old value.
EntryTextSwapped(e) ==
  <<"{", "op:">> \o e.op \o <<"val:">> \o e.val
    \o <<"state:", e.state, "oldval:">> \o e.old \o <<"}">>

\* An entry of the log, as it travels in the field res of a heartbeat
EntryText(e) ==
  <<"{", "op:">> \o e.op \o <<"val:">> \o e.val
    \o <<"oldval:">> \o e.old \o <<"state:", e.state, "}">>

-----------------------------------------------------------------------------
(***************************************************************************)
(* commandParser and reComPar.                                             *)
(***************************************************************************)
Types == <<"[PRE]", "[ROLL]", "[COM]", "[PRERE]", "[ROLLRE]", "[COMRE]", "[HEART]",
           "[HEARTRE]", "[VOTE]", "[VOTERE]", "[CLIENT]">>

Slashed == {"/", "/add:", "/port:", "/posi:", "/index:", "/op:", "/res:"}

\* Mutant: a field reaches to the next blank or to the end of the text.
EndOfText(text, p) == FindFrom(text, {" "}, p + 1)

EndOf(text, p) == FindFrom(text, Slashed, p + 1)

commandParser(text) ==
  LET type  == SelectSeq(Types, LAMBDA t : Find(text, t) # 0)
      add   == Find(text, "/add:")
      port  == Find(text, "/port:")
      pos   == Find(text, "/posi:")
      index == Find(text, "/index:")
      op    == Find(text, "/op:")
      res   == Find(text, "/res:")
      all   == [type |-> Head(type), add |-> Between(text, add, port),
                port |-> Between(text, port, pos), pos |-> Between(text, pos, index),
                index |-> Between(text, index, res), op |-> Between(text, op, res),
                res |-> Between(text, res, EndOf(text, res))]
  IN  CASE type = <<>>                -> Nothing
        [] Head(type) = "[PRE]"    -> all
        [] Head(type) = "[CLIENT]" ->
             [all EXCEPT !.port = <<>>, !.pos = <<>>, !.index = <<>>]
        [] OTHER                      -> [all EXCEPT !.op = <<>>]

reComPar(res) ==
  LET op    == Find(res, "op:")      val   == Find(res, "val:")
      old   == Find(res, "oldval:")  state == Find(res, "state:")
  IN  [op  |-> Between(res, op, val),         val   |-> Between(res, val, old),
       old |-> Between(res, old, state),      state |-> Between(res, state, Find(res, "}"))]

Carrying(m) == m.type \in {"[CLIENT]", "[PRE]"} \/ (m.type = "[HEART]" /\ Find(m.res, "{") # 0)

\* getState of an entry that is committed, and of one that is prepared
States == {"0", "1"}

\* The entry a node writes for a message: committed at once only where a
\* heartbeat says so, otherwise prepared.
Entry(m) ==
  IF m.type = "[HEART]"
  THEN LET e == reComPar(m.res)
       IN  [e EXCEPT !.state = IF @ = <<"0">> THEN "0" ELSE "1"]
  ELSE [op |-> m.op, val |-> m.res, old |-> <<>>, state |-> "1"]

-----------------------------------------------------------------------------
Init ==
  /\ wire = <<>> /\ stack = <<>> /\ got = Nothing /\ cmd = <<>>
  /\ typed = <<>> /\ written = Nothing /\ sent = Nothing /\ cut = FALSE
  /\ texts = 0

\* main of the client, for one line
Type(line) ==
  /\ wire = <<>>
  /\ typed' = line
  /\ wire' = getRESPArry(split(line))
  /\ written' = Nothing /\ sent' = Nothing /\ cut' = FALSE
  /\ UNCHANGED <<stack, got, cmd, texts>>

\* A message of the two phases, of the election, or a heartbeat
Announce(m) ==
  /\ wire = <<>>
  /\ sent' = m
  /\ wire' = Text(m)
  /\ typed' = <<>> /\ written' = Nothing /\ cut' = FALSE
  /\ UNCHANGED <<stack, got, cmd, texts>>

\* What may follow a text in the array.  "..." is a torn token.
Rests ==
  {<<>>} \cup {tear \o SubSeq(stack, k, Len(stack)) :
                 tear \in {<<>>, <<"...">>}, k \in 2 .. Len(stack)}

\* Task, getCommand and PCommandParser
Receive ==
  /\ wire # <<>>
  /\ texts' = texts + 1
  /\ \E rest \in Rests :
       /\ rest # <<>> => Len(wire) + Len(rest) <= Room
       /\ stack' = SubSeq(wire, 1, Min({Len(wire), Room})) \o rest
  /\ cmd' = IF stack'[1] = "*" THEN RESP2Reup(stack') ELSE stack'
  /\ got' = commandParser(cmd')
  /\ cut' = (cut \/ Len(wire) > Room)
  /\ wire' = <<>>
  /\ UNCHANGED <<typed, written, sent>>

Send(m) ==
  /\ wire = <<>>
  /\ wire' = Text(m)
  /\ sent' = m
  /\ UNCHANGED <<stack, got, cmd, typed, cut, texts>>

\* performComm, not LEADER: a command goes on as it was received.
Forward ==
  /\ got.type = "[CLIENT]"
  /\ wire = <<>>
  /\ wire' = cmd
  /\ sent' = Nothing
  /\ UNCHANGED <<stack, got, cmd, typed, written, cut, texts>>

\* performComm, LEADER: the command is written, and prepareAll called.
Prepare ==
  /\ got.type = "[CLIENT]"
  /\ written' = Entry(got)
  /\ Send([type |-> "[PRE]", add |-> "ip", port |-> "8001", pos |-> "1", index |-> "1",
           op |-> got.op, res |-> got.res])

\* performComm, LEADER: the entry, committed by now or not, is sent to a node
\* that asks for it.
Recover(state) ==
  /\ written # Nothing
  /\ got.type \in {"[PRE]", "[HEART]"} /\ Carrying(got)
  /\ Send([type |-> "[HEART]", add |-> "ip", port |-> "8001", pos |-> "0", index |-> "1",
           op |-> <<>>, res |-> EntryText([Entry(got) EXCEPT !.state = state])])
  /\ written' = [written EXCEPT !.state = state]

Next ==
  \/ Receive
  \/ /\ texts < MaxTexts
     /\ \/ \E line \in Lines : Type(line)
        \/ \E m \in Announced : Announce(m)
        \/ Forward
        \/ Prepare
        \/ \E state \in States : Recover(state)

Spec == Init /\ [][Next]_vars

-----------------------------------------------------------------------------
\* What a line means, read off the line itself: the first word is the
\* operation, the others are joined by commas.
Meant(line) ==
  LET p == Find(line, " ")
  IN  [op  |-> SubSeq(line, 1, p - 1),
       val |-> [i \in 1 .. Len(line) - p |->
                  IF line[p + i] = " " THEN "," ELSE line[p + i]]]

\* A line of words without what the texts and the search for a type use
\* themselves
Plain(line) == \A i \in DOMAIN line : line[i] \notin Slashed \cup {"$"} \cup Range(Types)

\* ... and without what reComPar looks for behind the value (parser.cc:124-138).
\* An entry in a heartbeat is read amiss otherwise: "oldval:" ends the value,
\* "state:" or "}" let a committed entry look prepared, or the reverse.
Unframed(line) == \A i \in DOMAIN line : line[i] \notin {"oldval:", "state:", "}"}

Arrived == wire = <<>> /\ got # Nothing /\ ~cut

\* Whether its words can be told from what the text of got adds to them
Distinct(line) == got.type = "[HEART]" => Unframed(line)

\* Whatever an earlier text has left in the array, and wherever the command
\* has come through, what a node reads is the command that was typed.
CommandSurvives ==
  Arrived /\ typed # <<>> /\ Plain(typed) /\ Distinct(typed) =>
    Carrying(got) /\ Entry(got).op = Meant(typed).op /\ Entry(got).val = Meant(typed).val

\* Also where a word holds "/" or "$", and the LEADER has read only a part of
\* it, it is this part that followers prepare and that recovery brings, with
\* no old value, and committed if and only if it was sent so.
ReplicasAgree ==
  Arrived /\ written # Nothing /\ Distinct(typed) => Carrying(got) /\ Entry(got) = written

\* What ends in "/" is read as it was sent, however the text goes on behind it
\* (parser.cc:8).  A PRE is read with its op in the index, where atoi stops.
FieldsSurvive ==
  Arrived /\ sent # Nothing =>
    /\ got.type = sent.type
    /\ got.add = <<sent.add>> /\ got.port = <<sent.port>> /\ got.pos = <<sent.pos>>
    /\ Atoi(got.index) = Atoi(<<sent.index>>)
    /\ got.res = sent.res
    /\ got.type = "[PRE]" => got.op = sent.op
=============================================================================

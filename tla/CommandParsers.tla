----------------------------- MODULE CommandParsers ---------------------------
(***************************************************************************)
(* Protocol/ClientCommandParser.cpp, Protocol/BetCommandParser.cpp and the *)
(* room number of Handle_Join_Chatting_Room: what a client may send and    *)
(* what the server takes it for.                                           *)
(*                                                                         *)
(* A text is a sequence of tokens: a command word as it is in Constants.h, *)
(* or one character.  No word is a prefix of another command's word, so    *)
(* startsWith is about the first token.  The readers of numbers are two:   *)
(* std::from_chars for bets, std::stoi for rooms.                          *)
(***************************************************************************)
EXTENDS Integers, Sequences, FiniteSetsExt

CONSTANTS MAX_INT,     \* the largest int, 2^31 - 1 in the code
          Digits,      \* bound of the model: the digits a text may have
          MaxLength    \* bound of the model: tokens of a text

Digit == [d \in {"0", "1", "2", "3", "4", "5", "6", "7", "8", "9"} |->
             CASE d = "0" -> 0 [] d = "1" -> 1 [] d = "2" -> 2 [] d = "3" -> 3
               [] d = "4" -> 4 [] d = "5" -> 5 [] d = "6" -> 6 [] d = "7" -> 7
               [] d = "8" -> 8 [] d = "9" -> 9]

ASSUME BoundsAssumption ==
    MAX_INT \in Nat /\ MaxLength \in Nat /\ Digits \subseteq DOMAIN Digit

VARIABLE text

FixedCommands == [GET_ROOMS |-> "/Get_Chatting_Room", EXIT_ROOM |-> "/Exit_Room",
                  LOGIN |-> "/Login", USER_UPDATE |-> "/User_Update",
                  CLOSE_SOCKET |-> "/Close_Socket"]
PrefixCommands == [CREATE_ROOM |-> "/Create_Chatting_Room ",
                   JOIN_ROOM |-> "/Join_Chatting_Room ",
                   ROOM_EVENT |-> "/Room_Event ", GAME_EVENT |-> "/Game_Client_Event "]
FixedBets == [DIE |-> "Die", SPECIAL |-> "SPECIAL "]
ChipBets == [FRONT |-> "Front ", BOTH |-> "Both ", BACK |-> "Back "]

Characters == Digits \cup {"-", "+", " ", "x"}
Words(table) == {table[type] : type \in DOMAIN table}
Tokens == Characters \cup Words(FixedCommands) \cup Words(PrefixCommands)
              \cup Words(FixedBets) \cup Words(ChipBets)

None == [type |-> "none"]

\* The command of a table that word stands for.
Named(table, word) == CHOOSE type \in DOMAIN table : table[type] = word
StartsWith(s, table) == s # <<>> /\ s[1] \in Words(table)
-------------------------------------------------------------------------------
(* Numbers.                                                                *)

\* How many tokens of set stand in a row from place i on.
Run(s, i, set) ==
    Max({k \in 0..(Len(s) - i + 1) : \A j \in i..(i + k - 1) : s[j] \in set})

\* The number its digits make, up to place i.
Value(s) ==
    LET upTo[i \in 0..Len(s)] == IF i = 0 THEN 0 ELSE 10 * upTo[i - 1] + Digit[s[i]]
    IN upTo[Len(s)]

\* Reads a number from place i with one of the signs given: the value, if there
\* is one that an int can hold, and the place after it.
ReadInt(s, i, signs) ==
    LET signed == i <= Len(s) /\ s[i] \in signs
        first  == IF signed THEN i + 1 ELSE i
        count  == IF first <= Len(s) THEN Run(s, first, DOMAIN Digit) ELSE 0
        size   == Value(SubSeq(s, first, first + count - 1))
        value  == IF signed /\ s[i] = "-" THEN - size ELSE size
    IN [ok |-> count > 0 /\ value \in (- MAX_INT - 1)..MAX_INT,
        value |-> value, end |-> first + count]

\* std::from_chars: no space, no sign +.
FromChars(s) == ReadInt(s, 1, {"-"})

\* std::stoi: leading spaces are skipped and either sign is read.
Stoi(s) == ReadInt(s, 1 + (IF s = <<>> THEN 0 ELSE Run(s, 1, {" "})), {"-", "+"})

\* Mutant of IsWhole: whatever follows the number is ignored.
IsStart(s, read) == read.ok

\* Both callers refuse a text that is not the number from end to end.
IsWhole(s, read) == read.ok /\ read.end = Len(s) + 1

\* parseCount
ParseCount(s) == IF s # <<>> /\ IsWhole(s, FromChars(s)) THEN {FromChars(s).value} ELSE {}

\* The number of Handle_Join_Chatting_Room.
RoomNumber(s) == IF IsWhole(s, Stoi(s)) THEN {Stoi(s).value} ELSE {}
-------------------------------------------------------------------------------
(* Commands.                                                               *)

\* Mutant of Payload: one more character is dropped.
PayloadShort(s) == IF Len(s) < 2 THEN <<>> ELSE SubSeq(s, 3, Len(s))

\* extractPayload
Payload(s) == Tail(s)

\* ClientCommandParser::parse: anything else is chat.
ParseClientCommand(s) ==
    IF Len(s) = 1 /\ StartsWith(s, FixedCommands)
    THEN [type |-> Named(FixedCommands, s[1]), payload |-> <<>>]
    ELSE IF StartsWith(s, PrefixCommands)
    THEN [type |-> Named(PrefixCommands, s[1]), payload |-> Payload(s)]
    ELSE [type |-> "CHAT", payload |-> s]

\* BetCommandParser::parse; None is nullopt.
ParseBetCommand(s) ==
    IF Len(s) = 1 /\ StartsWith(s, FixedBets)
    THEN [type |-> Named(FixedBets, s[1]), count |-> 0]
    ELSE IF StartsWith(s, ChipBets) /\ ParseCount(Payload(s)) # {}
    THEN [type |-> Named(ChipBets, s[1]), count |-> CHOOSE n \in ParseCount(Payload(s)) : TRUE]
    ELSE None

Init == text = <<>>

\* A client makes its text a token longer.
Next == Len(text) < MaxLength /\ \E t \in Tokens : text' = Append(text, t)

Spec == Init /\ [][Next]_text
-------------------------------------------------------------------------------
(* Properties.                                                             *)

\* What std::to_string writes for a natural number.
Decimal(n) ==
    LET last(k) == CHOOSE d \in DOMAIN Digit : Digit[d] = k % 10
        decimal[k \in 0..n] ==
            IF k < 10 THEN <<last(k)>> ELSE Append(decimal[k \div 10], last(k))
    IN decimal[n]

Copies(token, k) == [i \in 1..k |-> token]

\* Every way to write an int: the reference for both readers.
Spellings(blanks, plus) ==
    {[number |-> n, text |-> Copies(" ", b) \o sign \o Copies("0", z) \o Decimal(n)] :
        n \in 0..MAX_INT, b \in blanks, z \in 0..MaxLength, sign \in plus}
    \cup
    {[number |-> - n, text |-> Copies(" ", b) \o <<"-">> \o Copies("0", z) \o Decimal(n)] :
        n \in 0..MAX_INT + 1, b \in blanks, z \in 0..MaxLength}

CountSpellings == Spellings({0}, {<<>>})
RoomSpellings == Spellings(0..MaxLength, {<<>>, <<"+">>})

Spelled(spellings) == {p.number : p \in {q \in spellings : q.text = text}}

\* A count is taken exactly when the text is the decimal form of an int, leading
\* zeros aside, from its first to its last character, and so is the number of a
\* room, which may have spaces and a sign before it: no overflow, no number with
\* something behind it, no empty text ever becomes a bet or a room
\* (BetCommandParser.cpp:18-40, ClientHandle.cpp:255-278).
NumbersAreExact ==
    /\ ParseCount(text) = Spelled(CountSpellings)
    /\ RoomNumber(text) = Spelled(RoomSpellings)

\* Nothing of a text is lost on its way to a handler: command word and payload
\* make it up again, and a command word with anything behind it that takes no
\* payload is chat (ClientCommandParser.cpp:20-108).
NothingIsLost ==
    LET command == ParseClientCommand(text)
    IN text = (IF command.type = "CHAT" THEN command.payload
               ELSE IF command.type \in DOMAIN FixedCommands
               THEN <<FixedCommands[command.type]>>
               ELSE <<PrefixCommands[command.type]>> \o command.payload)
===============================================================================

--------------------------------- MODULE Deck ---------------------------------
(***************************************************************************)
(* TwofacedPoker/Game/Deck.cpp.  The deck is a shuffled deque from whose   *)
(* front cards are taken, refilled when a card is wanted and none is left. *)
(* Only which cards remain matters to a player who cannot see the order,   *)
(* so the deck is the set of the remaining cards and the shuffle is the    *)
(* free choice of the next one.                                            *)
(***************************************************************************)
EXTENDS Foundation

CONSTANT FACES   \* the highest face of a card, 10 in the code

ASSUME FacesAssumption == FACES \in Nat /\ FACES >= 2

\* resupplyCard: every ordered pair of two different faces.
FullDeck == {card \in (1..FACES) \X (1..FACES) : card[1] # card[2]}

\* DealCard refills an empty deck before it takes a card.
Supply(deck) == IF deck = {} THEN FullDeck ELSE deck

\* Mutant of DealCard: the card stays in the deck.
PeekCard(deck, card) == Supply(deck)

\* What is left when card, the front of the shuffled deque, has been taken.
DealCard(deck, card) == Supply(deck) \ {card}
===============================================================================

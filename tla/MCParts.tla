------------------------------ MODULE MCParts ------------------------------
(* Parts of the server that share nothing, checked in one run: the world   *)
(* of a game, the credential of a connector, the feed of a turn, the       *)
(* architect chat of a package, and the histories of the game master and   *)
(* of the characters.                                                      *)
EXTENDS MCWorld, GrokAuth, TurnFeed, Architect, History, Exchange

CONSTANT Second   \* a request that takes no part in the login scene

VARIABLE part

others == <<vars, grokVars, feedVars, architectVars>>
partsVars == <<others, historyVars, exchangeVars, part>>

PartsInit ==
  /\ part \in {"world", "refresh", "login", "feed", "architect", "history", "exchange"}
  /\ Init /\ GrokInit /\ FeedInit /\ ArchitectInit /\ HistoryInit /\ ExchangeInit
  /\ part = "world" => Small
  /\ part # "world" => People /\ ~ Items /\ canon.player = square
  /\ part # "architect" => package = "present"
  /\ part # "history" => keptGm.messages = << >>
  /\ part # "exchange" => \A n \in Npcs : keptTalk.history[n] = << >> /\ keptTalk.player = keptTalk.at[n]

(* Two scenes of the credential: two requests while it ages and no login   *)
(* or logout is made; and one request, a login and a logout.               *)
Refresh == UNCHANGED <<handler, leaving>> /\ GrokNext
Login == GrokNext /\ req'[Second].stage = "idle" /\ aged' = aged

PartsNext ==
  /\ \/ part = "world" /\ Next /\ Small' /\ UNCHANGED <<grokVars, feedVars, architectVars, historyVars, exchangeVars>>
     \/ part = "refresh" /\ Refresh /\ UNCHANGED <<vars, feedVars, architectVars, historyVars, exchangeVars>>
     \/ part = "login" /\ Login /\ UNCHANGED <<vars, feedVars, architectVars, historyVars, exchangeVars>>
     \/ part = "feed" /\ FeedNext /\ UNCHANGED <<vars, grokVars, architectVars, historyVars, exchangeVars>>
     \/ part = "architect" /\ ArchitectNext /\ UNCHANGED <<vars, grokVars, feedVars, historyVars, exchangeVars>>
     \/ part = "history" /\ HistoryNext /\ UNCHANGED <<others, exchangeVars>>
     \/ part = "exchange" /\ ExchangeNext /\ UNCHANGED <<others, historyVars>>
  /\ UNCHANGED part

PartsSpec == PartsInit /\ [][PartsNext]_partsVars

(* Every variable has its type. *)
PartsTypeOK == WorldTypeOK /\ GrokTypeOK /\ FeedTypeOK /\ ArchitectTypeOK /\ HistoryTypeOK /\ ExchangeTypeOK
=============================================================================

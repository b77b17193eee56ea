------------------------------- MODULE MCCore -------------------------------
(***************************************************************************)
(* The components that have safety properties only, explored by one run:   *)
(*   positions    of indices in a text node (SwTextNode),                  *)
(*   attributes   of its text that nest (NestingHints),                    *)
(*   paragraphs   that it is split into and joined with (ContentIdxStore), *)
(*   clients      of SwModify (ModifyClient),                              *)
(*   jobs         of the office's termination (FinalThreadManager).        *)
(* part is the component that a behaviour is of; the others stay in an     *)
(* initial state.  What an edit does to positions and to attributes is in  *)
(* separate loops of SwTextNode::Update that do not read each other.       *)
(***************************************************************************)
EXTENDS MCSwTextNode, ModifyClient, FinalThreadManager

CONSTANTS
  Attrs, MaxText, MaxPiece, MaxHints, MaxSize,
  Bkmks, UnoCrsrs, ShellCrsrs, MaxParagraphs, MaxChars, MaxUsed,
  parent, derived

VARIABLES
  part,
  text, hints, strained,
  nodes, at, used

MCAttrs == {<<"INETFMT", 1>>, <<"INETFMT", 2>>, <<"CJK_RUBY", 1>>, <<"META", 1>>, <<"META", 2>>}
MCDepth == [m \in Modifies |-> IF m = parent THEN 0 ELSE 1]

Hints == INSTANCE NestingHints WITH MaxLen <- MaxText
Paragraphs == INSTANCE ContentIdxStore WITH MaxText <- MaxChars, None <- Null

hintVars == <<text, hints, strained>>
paragraphVars == <<nodes, at, used>>

PartsInit ==
  /\ part \in {"positions", "attributes", "paragraphs", "clients", "jobs"}
  /\ Init /\ Hints!Init /\ ClientsInit
  /\ FinalInit /\ (part = "jobs" \/ pausedBy["save"] = "none")
  /\ IF part = "paragraphs" THEN Paragraphs!Init
     ELSE nodes = <<>> /\ at = <<>> /\ used = {}

\* The properties of the attributes claim nothing of what follows the edits that
\* strained names, and those are never taken off it: it need not be explored.
PartsNext ==
  /\ UNCHANGED part
  /\ \/ /\ part = "positions" /\ Next
        /\ UNCHANGED <<hintVars, paragraphVars, clientVars, finalVars>>
     \/ /\ part = "attributes" /\ Hints!Next /\ strained = {}
        /\ UNCHANGED <<vars, paragraphVars, clientVars, finalVars>>
     \/ /\ part = "paragraphs" /\ Paragraphs!Next
        /\ UNCHANGED <<vars, hintVars, clientVars, finalVars>>
     \/ /\ part = "clients" /\ ClientsNext
        /\ UNCHANGED <<vars, hintVars, paragraphVars, finalVars>>
     \/ /\ part = "jobs" /\ FinalNext
        /\ UNCHANGED <<vars, hintVars, paragraphVars, clientVars>>

PartsSpec ==
  /\ PartsInit
  /\ [][PartsNext]_<<vars, hintVars, paragraphVars, clientVars, finalVars, part>>

-----------------------------------------------------------------------------
(* The properties of the two modules that are instantiated, under the names *)
(* they have there; a comment at each says what it is about.                *)

\* The hints can be written as nested elements (NestingHints).
HintsSound == part = "attributes" => Hints!HintsSound

\* Splitting them is invisible (CharAttributes).
ImplementsCharAttributes == Hints!ImplementsCharAttributes

\* Positions stay with the text when paragraphs are split and joined
\* (ContentIdxStore).
ObjectsStayWithText == Paragraphs!ObjectsStayWithText
=============================================================================

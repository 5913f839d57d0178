--------------------------- MODULE CommandHandler ---------------------------
(***************************************************************************)
(* CommandHandler::handle (src/control_node/command_handler.cpp): one      *)
(* request to one reply and the handler's new state.  A request is         *)
(* abstracted to the words handle splits it into: the verb, the GET        *)
(* target or the SET key and value, and whether SET had an '='.  Words     *)
(* come from a small vocabulary in any letter case, possibly padded with   *)
(* blanks; toupper and trim are the tables Caps and Trimmed over it.       *)
(* Replies keep their kind and fields, not their text layout.              *)
(***************************************************************************)
EXTENDS StatsManager, TLC

CONSTANTS
    Caps,        \* std::toupper on the vocabulary: a word -> its upper case
    Trimmed,     \* trim on the vocabulary: a padded word -> the bare word
    NoValue      \* an absent config_ entry

Upper(w) == IF w \in DOMAIN Caps THEN Caps[w] ELSE w
Trim(w) == IF w \in DOMAIN Trimmed THEN Trimmed[w] ELSE w

\* The Severity names set_level accepts.
LogLevels == {"DEBUG", "INFO", "WARN", "ALARM", "ERROR", "FATAL"}

\* A request as handle sees it.  An empty request has verb "".
Request == [verb : STRING, arg : STRING, hasEq : BOOLEAN, key : STRING,
            value : STRING]

\* The handler's state: config_, crc_enabled_, and the logger's level.
HandlerInit == [config |-> [k \in {} |-> NoValue], crc |-> TRUE,
                logLevel |-> "INFO"]

Reply(kind, a, b) == [kind |-> kind, a |-> a, b |-> b]

\* config_[key] = value, on a map whose keys are the keys set so far.
SetConfig(h, k, v) == [h EXCEPT !.config = (k :> v) @@ @]

(***************************************************************************)
(* handle_get: HEALTH and STATS read the statistics (each under the        *)
(* StatsManager's shared lock, so each read is one snapshot of global).    *)
(***************************************************************************)
HandleGet(h, req, g) ==
    LET what == Upper(req.arg) IN
    [h |-> h,
     reply |-> IF what = "HEALTH" THEN Reply("HEALTH", Health(g), "")
               ELSE IF what = "STATS" THEN Reply("STATS", g, "")
               ELSE Reply("ERR", "UNKNOWN_COMMAND", "")]

(***************************************************************************)
(* handle_set: KEY=VALUE, the key trimmed and upper-cased.  LOG_LEVEL and  *)
(* CRC check their value (upper-cased) and store the normalised one;       *)
(* any other key stores the trimmed value as given.                        *)
(***************************************************************************)
HandleSet(h, req) ==
    LET key == Upper(Trim(req.key))
        value == Trim(req.value)
        vu == Upper(value)
    IN
    IF ~req.hasEq THEN [h |-> h, reply |-> Reply("ERR", "INVALID_SET_SYNTAX", "")]
    ELSE IF key = "LOG_LEVEL" THEN
        IF vu \in LogLevels
          THEN [h |-> SetConfig([h EXCEPT !.logLevel = vu], key, vu),
                reply |-> Reply("OK", key, vu)]
          ELSE [h |-> h, reply |-> Reply("ERR", "INVALID_LOG_LEVEL", "")]
    ELSE IF key = "CRC" THEN
        IF vu \in {"ON", "OFF"}
          THEN [h |-> SetConfig([h EXCEPT !.crc = (vu = "ON")], key, vu),
                reply |-> Reply("OK", key, vu)]
          ELSE [h |-> h, reply |-> Reply("ERR", "INVALID_CRC_VALUE", "")]
    ELSE [h |-> SetConfig(h, key, value), reply |-> Reply("OK", key, value)]

\* handle: empty request, then the verb (upper-cased) GET or SET.
Handle(h, req, g) ==
    IF req.verb = "" THEN [h |-> h, reply |-> Reply("ERR", "EMPTY_COMMAND", "")]
    ELSE IF Upper(req.verb) = "GET" THEN HandleGet(h, req, g)
    ELSE IF Upper(req.verb) = "SET" THEN HandleSet(h, req)
    ELSE [h |-> h, reply |-> Reply("ERR", "UNKNOWN_COMMAND", "")]

(***************************************************************************)
(* A request whose handling writes config_ (and crc_enabled_ or the log    *)
(* level): a SET that gets past handle_set's early returns, i.e. one with  *)
(* an '=' and, for LOG_LEVEL and CRC, a value that key accepts.            *)
(***************************************************************************)
Writes(req) ==
    LET key == Upper(Trim(req.key))
        vu == Upper(Trim(req.value))
    IN
    /\ req.verb # ""
    /\ Upper(req.verb) = "SET"
    /\ req.hasEq
    /\ key = "LOG_LEVEL" => vu \in LogLevels
    /\ key = "CRC" => vu \in {"ON", "OFF"}

=============================================================================

------------------------------- MODULE Errors -------------------------------
(***************************************************************************)
(* errors.go: MapNotFound maps an error to a sentinel by what it wraps.    *)
(* An error is the set of causes that errors.Is or errors.As finds in it;  *)
(* {} is nil.  A missing key comes alone; a failure of the transport may   *)
(* wrap several causes, such as a socket timeout and the deadline that set *)
(* it, or a cancelled context and a closed client.                         *)
(***************************************************************************)
EXTENDS Naturals

VARIABLES err,        \* what a command failed with
          sentinel    \* what the caller is given
errorVars == <<err, sentinel>>

\* The cases of the switch in their order, and their sentinels.
Cases == <<"Nil", "Canceled", "DeadlineExceeded", "ErrClosed", "netTimeout">>
SentinelOf(notFound) ==
    [Nil |-> notFound, Canceled |-> "ErrCanceled", DeadlineExceeded |-> "ErrTimeout",
     ErrClosed |-> "ErrClosed", netTimeout |-> "ErrTimeout"]

FirstCase_DeadlineFirst(e) ==
    IF "DeadlineExceeded" \in e THEN "DeadlineExceeded"
    ELSE CHOOSE c \in e : \E i \in DOMAIN Cases :
            Cases[i] = c /\ \A j \in 1..(i - 1) : Cases[j] \notin e

FirstCase(e) ==
    CHOOSE c \in e : \E i \in DOMAIN Cases :
        Cases[i] = c /\ \A j \in 1..(i - 1) : Cases[j] \notin e

\* An error that no case knows is handed on as it is.
Known == {Cases[i] : i \in DOMAIN Cases}
MapNotFound(e, notFound) ==
    IF e = {} THEN "nil"
    ELSE IF e \cap Known = {} THEN "unchanged"
    ELSE SentinelOf(notFound)[FirstCase(e)]

ErrorsInit == err = {} /\ sentinel = "nil"
ErrorsNext ==
    /\ err = {} /\ err' \in {{"Nil"}} \cup SUBSET ({"other"} \cup (Known \ {"Nil"}))
    /\ \E notFound \in {"ErrCacheMiss", "ErrTokenNotFound"} :
          sentinel' = MapNotFound(err', notFound)

ErrorsSpec == ErrorsInit /\ [][ErrorsNext]_errorVars

ErrorsTypeOK ==
    /\ err \subseteq Known \cup {"other"}
    /\ sentinel \in {"nil", "unchanged", "ErrCacheMiss", "ErrTokenNotFound", "ErrCanceled",
                     "ErrTimeout", "ErrClosed"}

\* Each sentinel blames what happened: a key is missing only when Redis said so, a timeout
\* is raised, for the alarms, only when something was slow and nobody cancelled
\* (errors.go 37-41), and nothing that is known is handed on bare.
BlameIsRight ==
    /\ sentinel \in {"ErrCacheMiss", "ErrTokenNotFound"} <=> "Nil" \in err
    /\ sentinel = "ErrTimeout" =>
          err \cap {"DeadlineExceeded", "netTimeout"} # {} /\ "Canceled" \notin err
    /\ sentinel = "ErrCanceled" <=> "Canceled" \in err
    /\ sentinel = "ErrClosed" => "ErrClosed" \in err
    /\ sentinel = "unchanged" => err \cap Known = {}
    /\ sentinel = "nil" <=> err = {}

=============================================================================

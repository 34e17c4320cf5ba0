------------------------------- MODULE Filters -------------------------------
(***************************************************************************)
(* The filters of the list endpoints: which ones the client knows, which   *)
(* it refuses, which it puts on the wire, and which the server applies.    *)
(* The server takes any parameter and silently ignores the ones it does    *)
(* not know ("phantom"), so a filter that is dropped on either side gives  *)
(* an unfiltered list that looks filtered.                                 *)
(***************************************************************************)

(* What a caller may give: a number or a text the server understands, a    *)
(* key it does not know (source_type 9), a negative number, a date that is *)
(* not dd.mm.yyyy, or several pages where the call takes at most one.      *)
Values == {"good", "unknown", "negative", "malformed", "several"}

(* numbers: sent when above 0.  texts: sent as given.  dates: texts that   *)
(* are validated first.  phantom: refused when given at all.  variadic:    *)
(* the page is an optional last argument.                                  *)
Endpoint(numbers, texts, dates, phantom, variadic) ==
  [numbers |-> numbers, texts |-> texts, dates |-> dates, phantom |-> phantom, variadic |-> variadic]

ListPosts == Endpoint({"source_id", "schedule_id", "project_id", "page"},
                      {"is_published", "publication_date"}, {}, {"page_id", "account_id"}, FALSE)

ListSearchPosts ==
  Endpoint({"source_type", "page", "photos_amount", "video_duration"},
           {"text", "date_from", "date_to", "sort_by", "sort_direction", "content_types", "content_types_exclude"},
           {},
           {"min_likes", "min_views", "min_comments", "min_reposts", "min_involvement",
            "source_id", "source_resource_id", "owner_id"},
           FALSE)

ListAccounts == Endpoint({"source_id", "page"}, {}, {}, {}, FALSE)
ListPages == Endpoint({"source_id", "account_id", "page"}, {}, {}, {}, FALSE)
ListProjects == Endpoint({"page"}, {}, {}, {}, FALSE)
ListSchedules == Endpoint({"page"}, {}, {}, {}, FALSE)
ListWatermarks == Endpoint({"page"}, {}, {}, {}, FALSE)
ListNotifications == Endpoint({"page"}, {}, {}, {}, FALSE)
ListCrossPostings == Endpoint({"page"}, {}, {}, {}, FALSE)
ListProxies == Endpoint({"page"}, {}, {}, {}, TRUE)
ListSourceResources == Endpoint({"page"}, {}, {}, {}, TRUE)
ListSchedulePosts == Endpoint({"page"}, {}, {"date_from", "date_to"}, {}, FALSE)

Names(e) == e.numbers \cup e.texts \cup e.dates \cup e.phantom

(* The parameters whose value is one of a list of keys the server has.     *)
Keyed == {"source_type", "source_id", "photos_amount", "video_duration", "sort_by",
          "sort_direction", "content_types", "content_types_exclude"}

(* The forms a parameter can be given in. *)
Given(e, name) ==
  {"good"}
    \cup {v \in {"unknown"} : name \in Keyed}
    \cup {v \in {"negative"} : name \in e.numbers \cup e.phantom}
    \cup {v \in {"malformed"} : name \in e.dates \cup (e.texts \cap {"date_from", "date_to", "publication_date"})}
    \cup {v \in {"several"} : e.variadic /\ name = "page"}

(* Broken: the guards of before, which let a negative number through. *)
RefusesAboveZero(e, asked) ==
  \E a \in asked :
    \/ a.name \in e.phantom /\ a.value # "negative"
    \/ a.name \in e.dates /\ a.value = "malformed"
    \/ a.value = "several"

Refuses(e, asked) ==
  \E a \in asked :
    \/ a.name \in e.phantom
    \/ a.name \in e.numbers /\ a.value = "negative"
    \/ a.name \in e.dates /\ a.value = "malformed"
    \/ a.value = "several"

(* The parameters of the request: a number that is not positive is left    *)
(* out, any other is sent as it is, and so is a text: no key is checked.   *)
Sent(e, asked) ==
  {a \in asked : a.name \in e.texts \cup e.dates \/ a.value \in {"good", "unknown"}}

(* What the server is sure to apply: a good value of any parameter but the *)
(* phantoms.  The authors compared returned rows for some of them and      *)
(* assume it of text, sort_by, sort_direction, content_types,              *)
(* content_types_exclude, page, is_published, publication_date and the     *)
(* source, schedule and project ids of /posts (phantom_filter_test.go).    *)
(* A key it does not know is ignored, or answered with an error.           *)
Applied(e, sent) == {a \in sent : a.value = "good" /\ a.name \notin e.phantom}
=============================================================================

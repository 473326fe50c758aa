----------------------------- MODULE Directives -----------------------------
(* The directives of the fourteen kinds of object definitions: how the text *)
(* of each is taken in (add_object_property) and how the value is inherited *)
(* from a template (the resolve functions).                                 *)
(*                                                                          *)
(* Ways of taking in:                                                       *)
(*   key       a name that must be unique, kept as it is written            *)
(*   plain     a text, kept as it is written, the word null too             *)
(*   text      a text; null marks the directive as given without a value    *)
(*   command   the same; a leading ! marks it as important                  *)
(*   appended  as text, but a second line adds to the first             *)
(*   keyed     each line adds an entry to a list                            *)
(*   number    a number, a truth value or coordinates                       *)
(*   options   letters are added; n clears them                             *)
(*   fresh     the same, but every line begins with none                    *)
(*   undone    the same, but n also marks the directive as not given        *)
(* Ways of inheriting:                                                      *)
(*   nohave    if there is no value                                         *)
(*   text      if the directive is not given; given may mean no value       *)
(*   value     if the directive is not given                                *)
(*   additive  the same, and a value that begins with + is added to         *)
(*   keyed     entries whose key is not there yet                           *)
(*   command   a template's command may be important                        *)
EXTENDS Sequences, TLC

As(way, names) == [n \in names |-> way]

Kinds == {"timeperiod", "command", "contactgroup", "hostgroup", "servicegroup",
          "servicedependency", "serviceescalation", "contact", "host", "service",
          "hostdependency", "hostescalation", "hostextinfo", "serviceextinfo"}

-----------------------------------------------------------------------------
(* add_object_property, one case of its switch after the other              *)

TimeperiodDirectives ==
    As("key", {"timeperiod_name"}) @@ As("plain", {"alias", "exclusions", "timeranges"})
    @@ As("keyed", {"exceptions"})

CommandDirectives == As("key", {"command_name"}) @@ As("plain", {"command_line"})

ContactgroupDirectives ==
    As("key", {"contactgroup_name"}) @@ As("plain", {"alias"})
    @@ As("appended", {"members", "contactgroup_members"})

HostgroupDirectives ==
    As("key", {"hostgroup_name"}) @@ As("plain", {"alias"})
    @@ As("appended", {"members", "hostgroup_members"})
    @@ As("text", {"notes", "notes_url", "action_url"})

ServicegroupDirectives ==
    As("key", {"servicegroup_name"}) @@ As("plain", {"alias"})
    @@ As("appended", {"members", "servicegroup_members"})
    @@ As("text", {"notes", "notes_url", "action_url"})

ServicedependencyDirectives ==
    As("text", {"servicegroup_name", "hostgroup_name", "host_name", "service_description",
                "dependent_servicegroup_name", "dependent_hostgroup_name",
                "dependent_host_name", "dependent_service_description", "dependency_period"})
    @@ As("number", {"inherits_parent"})
    @@ As("undone", {"execution_failure_options", "notification_failure_options"})

ServiceescalationDirectives ==
    As("text", {"servicegroup_name", "hostgroup_name", "host_name", "service_description",
                "contact_groups", "contacts", "escalation_period"})
    @@ As("number", {"first_notification", "last_notification", "notification_interval"})
    @@ As("options", {"escalation_options"})

ContactTexts ==
    As("key", {"contact_name"}) @@ As("plain", {"alias"})
    @@ As("text", {"contact_groups", "email", "pager", "address", "host_notification_period",
                   "host_notification_commands", "service_notification_period",
                   "service_notification_commands"})

ContactSettings ==
    As("options", {"host_notification_options", "service_notification_options"})
    @@ As("number", {"host_notifications_enabled", "service_notifications_enabled",
                     "can_submit_commands", "retain_status_information",
                     "retain_nonstatus_information", "minimum_value"})
    @@ As("keyed", {"custom_variables"})

HostTexts ==
    As("key", {"host_name"}) @@ As("plain", {"alias", "address"})
    @@ As("text", {"display_name", "parents", "host_groups", "contact_groups", "contacts",
                   "notification_period", "check_command", "check_period", "event_handler",
                   "notes", "notes_url", "action_url", "icon_image", "icon_image_alt",
                   "vrml_image", "statusmap_image"})

HostNumbers ==
    As("number", {"initial_state", "check_timeout", "check_interval", "retry_interval",
                  "hourly_value", "max_check_attempts", "active_checks_enabled",
                  "passive_checks_enabled", "event_handler_enabled", "check_freshness",
                  "freshness_threshold", "low_flap_threshold", "high_flap_threshold",
                  "flap_detection_enabled"})

HostOptions ==
    As("fresh", {"flap_detection_options"})
    @@ As("options", {"notification_options", "stalking_options"})
    @@ As("number", {"notifications_enabled", "notification_interval",
                     "first_notification_delay", "process_perf_data", "2d_coords", "3d_coords",
                     "obsess", "retain_status_information", "retain_nonstatus_information"})
    @@ As("keyed", {"custom_variables"})

ServiceTexts ==
    As("text", {"host_name", "service_description", "display_name", "parents", "hostgroup_name",
                "service_groups", "check_period", "event_handler", "notification_period",
                "contact_groups", "contacts", "notes", "notes_url", "action_url",
                "icon_image", "icon_image_alt"})
    @@ As("command", {"check_command"})

ServiceNumbers ==
    As("number", {"initial_state", "check_timeout", "hourly_value", "max_check_attempts",
                  "check_interval", "retry_interval", "active_checks_enabled",
                  "passive_checks_enabled", "is_volatile", "obsess", "event_handler_enabled",
                  "check_freshness", "freshness_threshold", "low_flap_threshold",
                  "high_flap_threshold", "flap_detection_enabled"})

ServiceOptions ==
    As("fresh", {"flap_detection_options"})
    @@ As("options", {"notification_options", "stalking_options"})
    @@ As("number", {"notifications_enabled", "notification_interval",
                     "first_notification_delay", "process_perf_data",
                     "retain_status_information", "retain_nonstatus_information"})
    @@ As("keyed", {"custom_variables"})

HostdependencyDirectives ==
    As("text", {"hostgroup_name", "host_name", "dependent_hostgroup_name",
                "dependent_host_name", "dependency_period"})
    @@ As("number", {"inherits_parent"})
    @@ As("undone", {"notification_failure_options"})
    @@ As("options", {"execution_failure_options"})

HostescalationDirectives ==
    As("text", {"hostgroup_name", "host_name", "contact_groups", "contacts",
                "escalation_period"})
    @@ As("number", {"first_notification", "last_notification", "notification_interval"})
    @@ As("options", {"escalation_options"})

HostextinfoDirectives ==
    As("text", {"host_name", "hostgroup_name", "notes", "notes_url", "action_url", "icon_image",
                "icon_image_alt", "vrml_image", "statusmap_image"})
    @@ As("number", {"2d_coords", "3d_coords"})

ServiceextinfoDirectives ==
    As("text", {"host_name", "hostgroup_name", "service_description", "notes", "notes_url",
                "action_url", "icon_image", "icon_image_alt"})

TakenIn == [kind \in Kinds |->
    CASE kind = "timeperiod" -> TimeperiodDirectives
      [] kind = "command" -> CommandDirectives
      [] kind = "contactgroup" -> ContactgroupDirectives
      [] kind = "hostgroup" -> HostgroupDirectives
      [] kind = "servicegroup" -> ServicegroupDirectives
      [] kind = "servicedependency" -> ServicedependencyDirectives
      [] kind = "serviceescalation" -> ServiceescalationDirectives
      [] kind = "contact" -> ContactTexts @@ ContactSettings
      [] kind = "host" -> HostTexts @@ HostNumbers @@ HostOptions
      [] kind = "service" -> ServiceTexts @@ ServiceNumbers @@ ServiceOptions
      [] kind = "hostdependency" -> HostdependencyDirectives
      [] kind = "hostescalation" -> HostescalationDirectives
      [] kind = "hostextinfo" -> HostextinfoDirectives
      [] kind = "serviceextinfo" -> ServiceextinfoDirectives]

-----------------------------------------------------------------------------
(* The resolve functions.                                                   *)

resolve_timeperiod ==
    As("nohave", {"timeperiod_name", "alias", "exclusions", "timeranges"})
    @@ As("keyed", {"exceptions"})

resolve_command == As("nohave", {"command_name", "command_line"})

resolve_contactgroup ==
    As("nohave", {"contactgroup_name", "alias"})
    @@ As("additive", {"members", "contactgroup_members"})

resolve_hostgroup ==
    As("nohave", {"hostgroup_name", "alias"}) @@ As("additive", {"members", "hostgroup_members"})
    @@ As("text", {"notes", "notes_url", "action_url"})

resolve_servicegroup ==
    As("nohave", {"servicegroup_name", "alias"})
    @@ As("additive", {"members", "servicegroup_members"})
    @@ As("text", {"notes", "notes_url", "action_url"})

resolve_servicedependency ==
    As("additive", {"servicegroup_name", "hostgroup_name", "host_name", "service_description",
                    "dependent_servicegroup_name", "dependent_hostgroup_name",
                    "dependent_host_name", "dependent_service_description"})
    @@ As("text", {"dependency_period"})
    @@ As("value", {"inherits_parent", "execution_failure_options",
                    "notification_failure_options"})

resolve_serviceescalation ==
    As("additive", {"servicegroup_name", "hostgroup_name", "host_name", "service_description",
                    "contact_groups", "contacts"})
    @@ As("text", {"escalation_period"})
    @@ As("value", {"first_notification", "last_notification", "notification_interval",
                    "escalation_options"})

resolve_contact ==
    As("nohave", {"contact_name", "alias"})
    @@ As("text", {"email", "pager", "address", "host_notification_period",
                   "service_notification_period"})
    @@ As("additive", {"contact_groups", "host_notification_commands",
                       "service_notification_commands"})
    @@ As("keyed", {"custom_variables"})
    @@ [a \in DOMAIN ContactSettings |-> "value"]

resolve_host ==
    As("nohave", {"host_name", "alias", "address"})
    @@ As("additive", {"parents", "host_groups", "contact_groups", "contacts"})
    @@ As("text", {"display_name", "check_command", "check_period", "event_handler",
                   "notification_period", "notes", "notes_url", "action_url", "icon_image",
                   "icon_image_alt", "vrml_image", "statusmap_image"})
    @@ As("keyed", {"custom_variables"})
    @@ [a \in DOMAIN HostNumbers \cup DOMAIN HostOptions |-> "value"]

resolve_service ==
    As("additive", {"parents", "host_name", "hostgroup_name", "service_groups",
                    "contact_groups", "contacts"})
    @@ As("command", {"check_command"})
    @@ As("text", {"service_description", "display_name", "check_period", "event_handler",
                   "notification_period", "notes", "notes_url", "action_url", "icon_image",
                   "icon_image_alt"})
    @@ As("keyed", {"custom_variables"})
    @@ [a \in DOMAIN ServiceNumbers \cup DOMAIN ServiceOptions |-> "value"]

resolve_hostdependency ==
    As("additive", {"host_name", "dependent_host_name", "hostgroup_name",
                    "dependent_hostgroup_name"})
    @@ As("text", {"dependency_period"})
    @@ As("value", {"inherits_parent", "execution_failure_options",
                    "notification_failure_options"})

resolve_hostescalation ==
    As("additive", {"host_name", "hostgroup_name", "contact_groups", "contacts"})
    @@ As("text", {"escalation_period"})
    @@ As("value", {"first_notification", "last_notification", "notification_interval",
                    "escalation_options"})

resolve_hostextinfo ==
    As("text", {"host_name", "hostgroup_name", "notes", "notes_url", "action_url", "icon_image",
                "icon_image_alt", "vrml_image", "statusmap_image"})
    @@ As("value", {"2d_coords", "3d_coords"})

resolve_serviceextinfo ==
    As("text", {"host_name", "hostgroup_name", "service_description", "notes", "notes_url",
                "action_url", "icon_image", "icon_image_alt"})

Inherited == [kind \in Kinds |->
    CASE kind = "timeperiod" -> resolve_timeperiod
      [] kind = "command" -> resolve_command
      [] kind = "contactgroup" -> resolve_contactgroup
      [] kind = "hostgroup" -> resolve_hostgroup
      [] kind = "servicegroup" -> resolve_servicegroup
      [] kind = "servicedependency" -> resolve_servicedependency
      [] kind = "serviceescalation" -> resolve_serviceescalation
      [] kind = "contact" -> resolve_contact
      [] kind = "host" -> resolve_host
      [] kind = "service" -> resolve_service
      [] kind = "hostdependency" -> resolve_hostdependency
      [] kind = "hostescalation" -> resolve_hostescalation
      [] kind = "hostextinfo" -> resolve_hostextinfo
      [] kind = "serviceextinfo" -> resolve_serviceextinfo]

(* clean_additive_strings: of which directives a leading + is removed once  *)
(* all templates are applied.  The contacts of escalations keep theirs      *)
(* until inherit_object_properties.                                         *)
CleanedLists == [kind \in Kinds |->
    CASE kind = "contactgroup" -> {"members", "contactgroup_members"}
      [] kind = "hostgroup" -> {"members", "hostgroup_members"}
      [] kind = "servicegroup" -> {"members", "servicegroup_members"}
      [] kind = "servicedependency" ->
           {"servicegroup_name", "hostgroup_name", "host_name", "service_description",
            "dependent_servicegroup_name", "dependent_hostgroup_name", "dependent_host_name",
            "dependent_service_description"}
      [] kind = "serviceescalation" ->
           {"servicegroup_name", "hostgroup_name", "host_name", "service_description"}
      [] kind = "contact" ->
           {"contact_groups", "host_notification_commands", "service_notification_commands"}
      [] kind = "host" -> {"contact_groups", "contacts", "parents", "host_groups"}
      [] kind = "service" ->
           {"contact_groups", "contacts", "host_name", "hostgroup_name", "service_groups"}
      [] kind = "hostdependency" ->
           {"host_name", "dependent_host_name", "hostgroup_name", "dependent_hostgroup_name"}
      [] kind = "hostescalation" -> {"host_name", "hostgroup_name"}
      [] OTHER -> {}]

-----------------------------------------------------------------------------
(* The value of a directive in memory: whether it is marked as given, the   *)
(* value, a leading +, a leading !.                                         *)
Unset == [have |-> FALSE, null |-> TRUE, plus |-> FALSE, important |-> FALSE, items |-> <<>>]

(* The template's value, a leading + included, is taken by a directive that *)
(* is not given; a value with a leading + is added to it.                   *)
get_inherited_string(this, template) ==
    LET takes == this.null /\ ~this.have /\ ~template.null
        adds == ~this.null /\ this.plus /\ ~template.null
    IN  IF ~template.have THEN this
        ELSE [this EXCEPT
                !.have = TRUE,
                !.null = @ /\ ~takes,
                !.plus = IF takes \/ adds THEN template.plus ELSE @,
                !.items = IF takes THEN template.items
                          ELSE IF adds THEN template.items \o @ ELSE @]

inherit_str_nohave(this, template) ==
    IF this.null /\ ~template.null
    THEN [this EXCEPT !.null = FALSE, !.items = template.items, !.plus = template.plus] ELSE this

inherit_str(this, template) ==
    IF ~this.have /\ template.have
    THEN [inherit_str_nohave(this, template) EXCEPT !.have = TRUE] ELSE this

inherit(this, template) ==
    IF ~this.have /\ template.have
    THEN [template EXCEPT !.important = this.important] ELSE this

=============================================================================

------------------------------ MODULE RouteTable ------------------------------
(***************************************************************************)
(* The resource classes of app/ressources as they are declared: for each   *)
(* class and each of its routes the decorators from the inside to the      *)
(* outside (the order in which Python applies them), what FastAPI passes   *)
(* to the endpoint by keyword, the dependencies of the router, and how the *)
(* body of the endpoint can end: "ok", or an exception it may raise.       *)
(***************************************************************************)
EXTENDS Sequences

\* A decorator, with the objects it was given.
Permission(ps) == [kind |-> "permission", do |-> ps]
Handler(hs) == [kind |-> "handler", do |-> hs]
Pipe(ps) == [kind |-> "pipe", do |-> ps]
Guard(gs) == [kind |-> "guard", do |-> gs]
Ping(ss) == [kind |-> "ping", do |-> ss]
Roles(rs) == [kind |-> "roles", do |-> rs]
Limiter == [kind |-> "limit", do |-> <<"GlobalLimiter">>]

JWTRoute == Permission(<<"JWTRouteHTTPPermission">>)
Route(ds, ks, es) == [decorators |-> ds, takes |-> ks, ends |-> es]
Class(ds, deps, rs) == [decorators |-> ds, depends |-> deps, routes |-> rs]

\* What trigger_task_from_scheduler does for a task that passed the pipe: a
\* schedule may refuse its options (ValueError) or miss one (TypeError), and
\* the broker may be out of reach.
Triggered == {"ok", "CelerySchedulerOptionError", "TypeError", "Exception"}

LiveChatRessource ==
  Class(<<Handler(<<"ServiceAvailabilityHandler">>), Roles(<<"CHAT">>)>>, {},
        [invoke_chat_permission |->
           Route(<<Handler(<<"WebSocketHandler">>), JWTRoute, Ping(<<"JWTAuthService">>)>>,
                 {"ws_path", "authPermission"}, {"ok", "WSPathNotFoundError"})])

\* The build of the template refuses the data, finds no validator, or unpacks
\* the None that inject returns.
EmailTemplateRessource ==
  Class(<<Ping(<<"EmailSenderService">>), Pipe(<<"CeleryTaskPipe">>), JWTRoute,
          Handler(<<"ServiceAvailabilityHandler", "CeleryTaskHandler">>), Roles(<<"RELAY">>)>>,
        {"request_id"},
        [send_emailTemplate |->
           Route(<<Guard(<<"CeleryTaskGuard">>), Pipe(<<"TemplateParamsPipe">>),
                   Handler(<<"TemplateHandler">>), Permission(<<"JWTAssetPermission">>),
                   Roles(<<"MFA_OTP">>)>>,
                 {"template", "scheduler", "x_request_id", "authPermission"},
                 {"TypeError", "AttributeError", "TemplateValidationError"}),
         send_customEmail |->
           Route(<<Guard(<<"CeleryTaskGuard">>), Limiter>>,
                 {"scheduler", "request", "x_request_id", "authPermission"}, Triggered)])

\* sms_chat is limited, and has no parameter called request.
OnGoingSMSRessource ==
  Class(<<JWTRoute, Handler(<<"ServiceAvailabilityHandler">>), Ping(<<"SMSService">>)>>, {},
        [sms_relay_otp |-> Route(<<Roles(<<"MFA_OTP">>)>>, {"authPermission"}, {"ok"}),
         sms_chat |-> Route(<<Limiter>>, {"model", "authPermission"}, {"ok"}),
         sms_simple_message |->
           Route(<<Handler(<<"CeleryTaskHandler">>), Guard(<<"CeleryTaskGuard">>),
                   Pipe(<<"CeleryTaskPipe">>), Roles(<<"RELAY">>)>>,
                 {"scheduler", "authPermission"}, {"ok"}),
         sms_template |->
           Route(<<Permission(<<"JWTAssetPermission">>),
                   Pipe(<<"TemplateParamsPipe", "CeleryTaskPipe">>), Guard(<<"CeleryTaskGuard">>),
                   Roles(<<"RELAY">>), Handler(<<"CeleryTaskHandler">>)>>,
                 {"template", "scheduler", "authPermission"}, {"ok"})])

IncomingSMSRessource ==
  Class(<<>>, {"twilio_token"},
        [sms_chat |-> Route(<<>>, {"authPermission"}, {"ok"})])

\* The four fax and SIP classes declare no route at all.
NoRoutes == Class(<<>>, {}, [f \in {} |-> Route(<<>>, {}, {})])

OnGoingCallRessources ==
  Class(<<JWTRoute>>, {},
        [voice_relay_otp |-> Route(<<Roles(<<"MFA_OTP">>)>>, {}, {"ok"}),
         voice_template |-> Route(<<Roles(<<"RELAY">>)>>, {"template"}, {"ok"})])

IncomingCallRessources ==
  Class(<<JWTRoute, Roles(<<"CHAT">>)>>, {},
        [voice_relay_otp |-> Route(<<>>, {}, {"ok"})])

\* _create_tokens indexes models and keys of a dict as if they were dicts.
AdminRessource ==
  Class(<<Handler(<<"ServiceAvailabilityHandler">>), JWTRoute, Roles(<<"ADMIN">>)>>,
        {"admin_token"},
        [blacklist_tokens |->
           Route(<<Guard(<<"CeleryTaskGuard", "OnlyOnce">>), Pipe(<<"CeleryTaskPipe">>), Limiter>>,
                 {"client_id", "request", "scheduler", "authPermission"}, Triggered),
         invalidate_all_tokens |->
           Route(<<Limiter>>, {"request", "authPermission"},
                 {"ServiceNotAvailableError", "TypeError"}),
         issue_auth_token |->
           Route(<<Limiter>>, {"authModel", "request", "authPermission"},
                 {"ServiceNotAvailableError", "TypeError"}),
         refresh_auth_token |->
           Route(<<Roles(<<"REFRESH">>), Pipe(<<"AuthPermissionPipe">>), Limiter>>,
                 {"tokens", "request", "authPermission"},
                 {"ServiceNotAvailableError", "TypeError"})])

\* seek_result finds a pending task behind every id; encode_ws_token is
\* called with one argument too few.
RedisBackendRessource ==
  Class(<<Ping(<<"CeleryService">>), Handler(<<"ServiceAvailabilityHandler">>), JWTRoute,
          Roles(<<"REDIS">>)>>, {},
        [check_task |-> Route(<<Handler(<<"CeleryTaskHandler">>)>>,
                              {"task_id", "authPermission"}, {"ok", "Exception"}),
         cancel_task |-> Route(<<Handler(<<"CeleryTaskHandler">>)>>,
                               {"task_id", "authPermission"}, {"ok", "Exception"}),
         check_schedule |-> Route(<<Handler(<<"CeleryTaskHandler">>)>>,
                                  {"schedule_id", "authPermission"},
                                  {"ok", "CeleryTaskNotFoundError", "Exception"}),
         delete_schedule |-> Route(<<Handler(<<"CeleryTaskHandler">>)>>,
                                   {"schedule_id", "authPermission"},
                                   {"ok", "CeleryTaskNotFoundError", "Exception"}),
         invoke_notify_permission |->
           Route(<<Handler(<<"WebSocketHandler">>), Ping(<<"JWTAuthService">>)>>,
                 {"ws_path", "authPermission"}, {"WSPathNotFoundError", "TypeError"})])

\* The classes in the order in which ressources/__init__.py imports them.
ImportOrder ==
  <<"LiveChatRessource", "EmailTemplateRessource", "OnGoingSMSRessource",
    "IncomingSMSRessource", "IncomingSipRessource", "OutgoingSipRessource",
    "IncomingFaxRessource", "OutgoingFaxRessource", "OnGoingCallRessources",
    "IncomingCallRessources", "AdminRessource", "RedisBackendRessource">>

Declarations ==
  [LiveChatRessource |-> LiveChatRessource, EmailTemplateRessource |-> EmailTemplateRessource,
   OnGoingSMSRessource |-> OnGoingSMSRessource, IncomingSMSRessource |-> IncomingSMSRessource,
   IncomingSipRessource |-> NoRoutes, OutgoingSipRessource |-> NoRoutes,
   IncomingFaxRessource |-> NoRoutes, OutgoingFaxRessource |-> NoRoutes,
   OnGoingCallRessources |-> OnGoingCallRessources,
   IncomingCallRessources |-> IncomingCallRessources,
   AdminRessource |-> AdminRessource, RedisBackendRessource |-> RedisBackendRessource]
=============================================================================

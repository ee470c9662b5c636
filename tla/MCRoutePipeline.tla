--------------------------- MODULE MCRoutePipeline ---------------------------
\* The classes as they are declared; one request that may be any call and one
\* that competes with it for a limit, from the same address or another one.
EXTENDS RoutePipeline, RouteTable
CONSTANTS r1, r2

TwoRequests == {r1, r2}
EveryRoute == [r \in TwoRequests |->
    IF r = r1 THEN Calls
    ELSE {<<"AdminRessource", "invalidate_all_tokens">>,
          <<"EmailTemplateRessource", "send_customEmail">>}]
AllMiddlewares == {"SecurityMiddleWare", "JWTAuthMiddleware", "BackgroundTaskMiddleware"}

Grant(all, custom) == [all |-> all, custom |-> custom]
Client(address, key, token, admin, rs, allowed) ==
    [address |-> address, key |-> key, token |-> token, admin |-> admin, roles |-> rs,
     allowed |-> allowed]
Nothing == [c \in {} |-> Grant(FALSE, {})]
SomeClients ==
    {Client("here", FALSE, "none", FALSE, {}, Nothing),
     Client("here", TRUE, "none", FALSE, {}, Nothing),
     Client("here", TRUE, "refused", TRUE, {"ADMIN"}, Nothing),
     Client("here", TRUE, "valid", TRUE, {"PUBLIC", "ADMIN", "MFA_OTP"}, Nothing),
     Client("there", TRUE, "valid", TRUE,
            {"PUBLIC", "RELAY", "CHAT", "REDIS", "REFRESH"}, Nothing),
     Client("here", TRUE, "valid", FALSE, {"CUSTOM"},
            [EmailTemplateRessource |-> Grant(FALSE, {"send_customEmail"}),
             RedisBackendRessource |-> Grant(TRUE, {})])}
=============================================================================

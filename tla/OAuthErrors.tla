----------------------------- MODULE OAuthErrors -----------------------------
(***************************************************************************)
(* How a provider's refusal is classified: by OAuthErrorHandler            *)
(* (lib/oauth/index.ts) and by the functions it replaces                   *)
(* (lib/oauth-errors.ts).  Messages and titles are left out.               *)
(***************************************************************************)
EXTENDS Integers

CONSTANT None \* no status code

ErrorTypes == {"CONFIGURATION_ERROR", "NETWORK_ERROR", "AUTHENTICATION_FAILED",
               "TOKEN_EXCHANGE_FAILED", "TOKEN_REFRESH_FAILED", "PERMISSION_DENIED",
               "STATE_MISMATCH", "INVALID_REQUEST", "RATE_LIMITED",
               "SERVICE_UNAVAILABLE", "UNKNOWN_ERROR"}

-----------------------------------------------------------------------------
(* The unified service.                                                      *)

DetermineErrorType(status) ==
  CASE status \in {400, 404} -> "INVALID_REQUEST"
    [] status = 401 -> "AUTHENTICATION_FAILED"
    [] status = 403 -> "PERMISSION_DENIED"
    [] status = 429 -> "RATE_LIMITED"
    [] status \in 500..504 -> "SERVICE_UNAVAILABLE"
    [] OTHER -> "UNKNOWN_ERROR"

\* What a provider's words decide before the status code does.
Worded(error, invalid, otherwise) ==
  CASE error = "access_denied" -> "AUTHENTICATION_FAILED"
    [] error \in invalid -> "INVALID_REQUEST"
    [] OTHER -> otherwise

ParseGitHubError(error, status) ==
  Worded(error, {"redirect_uri_mismatch", "invalid_request"}, DetermineErrorType(status))

ParseGitLabError(error, status) ==
  Worded(error, {"invalid_request", "unauthorized_client", "unsupported_grant_type"},
         DetermineErrorType(status))

ParseJiraError(error, status) ==
  Worded(error, {"invalid_request", "unauthorized_client", "invalid_client"},
         DetermineErrorType(status))

ParseOAuthProviderError(provider, error, status) ==
  CASE provider = "github" -> ParseGitHubError(error, status)
    [] provider = "gitlab" -> ParseGitLabError(error, status)
    [] provider = "jira" -> ParseJiraError(error, status)
    [] OTHER -> DetermineErrorType(status)

IsRetryableError(type) ==
  type \in {"NETWORK_ERROR", "TOKEN_REFRESH_FAILED", "RATE_LIMITED", "SERVICE_UNAVAILABLE"}

Severity(type) ==
  CASE type \in {"CONFIGURATION_ERROR", "PERMISSION_DENIED"} -> "warning"
    [] type \in {"RATE_LIMITED", "SERVICE_UNAVAILABLE"} -> "info"
    [] OTHER -> "error"

-----------------------------------------------------------------------------
(* The functions it replaces.                                                *)

OldDetermineErrorType(status) ==
  CASE status \in {400, 404} -> "INVALID_REQUEST"
    [] status = 401 -> "AUTHENTICATION_FAILED"
    [] status = 403 -> "PERMISSION_DENIED"
    [] status = 429 -> "RATE_LIMITED"
    [] status \in {500, 501, 502, 503, 504} -> "SERVICE_UNAVAILABLE"
    [] OTHER -> "UNKNOWN_ERROR"

OldInvalidWords ==
  [github |-> {"redirect_uri_mismatch", "invalid_request"},
   gitlab |-> {"invalid_request", "unauthorized_client", "unsupported_grant_type"},
   jira |-> {"invalid_request", "unauthorized_client", "invalid_client"}]

OldParseOAuthProviderError(provider, error, status) ==
  LET otherwise == OldDetermineErrorType(status) IN
  IF provider \in DOMAIN OldInvalidWords
  THEN Worded(error, OldInvalidWords[provider], otherwise) ELSE otherwise

OldIsRetryableError(type) ==
  type \in {"NETWORK_ERROR", "TOKEN_REFRESH_FAILED", "RATE_LIMITED", "SERVICE_UNAVAILABLE"}

\* getErrorDisplayProps.
OldSeverity(type) ==
  CASE type \in {"CONFIGURATION_ERROR", "PERMISSION_DENIED"} -> "warning"
    [] type \in {"RATE_LIMITED", "SERVICE_UNAVAILABLE"} -> "info"
    [] OTHER -> "error"

\* The severity that useErrorDetails shows for the same errors
\* (app/components/hooks/useErrorDetails.ts).
ShownSeverity(type) ==
  CASE type \in {"CONFIGURATION_ERROR", "PERMISSION_DENIED", "AUTHENTICATION_FAILED"} -> "warning"
    [] type \in {"RATE_LIMITED", "SERVICE_UNAVAILABLE"} -> "info"
    [] OTHER -> "error"

-----------------------------------------------------------------------------
Words == {"access_denied", "redirect_uri_mismatch", "invalid_request", "unauthorized_client",
          "unsupported_grant_type", "invalid_client", "server_error"}
StatusCodes == {None, 200, 400, 401, 403, 404, 422, 429, 500, 502, 504, 505}

\* The new classification is the old one for every provider, word and status, and
\* what is shown as a mere note ("info") can be retried; a denial never can, nor
\* does the browser show a denial as an error.
ErrorsKeepTheirMeaning ==
  /\ \A p \in {"github", "gitlab", "jira", "other"}, e \in Words, s \in StatusCodes :
       LET type == ParseOAuthProviderError(p, e, s) IN
       /\ type \in ErrorTypes
       /\ type = OldParseOAuthProviderError(p, e, s)
       /\ e = "access_denied" /\ p # "other" => ~IsRetryableError(type)
  /\ \A type \in ErrorTypes :
       /\ IsRetryableError(type) <=> OldIsRetryableError(type)
       /\ Severity(type) = OldSeverity(type)
       /\ ShownSeverity(type) = "info" => IsRetryableError(type)
       /\ ShownSeverity(type) = Severity(type) \/ type = "AUTHENTICATION_FAILED"
=============================================================================

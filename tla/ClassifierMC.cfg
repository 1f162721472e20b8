CONSTANTS
    Methods = {"", "b2_authorize_account", "b2_upload_file", "b2_upload_part", "b2_download_file_by_name", "b2_get_upload_part_url", "b2_finish_large_file"}
    Statuses = {200, 400, 401, 404, 408, 429, 500, 502, 503}
    HeaderChars = {"-", "+", "0", "7", "x"}
    MaxHeaderLen = 2
SPECIFICATION Spec
INVARIANT UnchangedUpdateKeepsSettings
INVARIANT UnreadableBodyKeepsPolicy
INVARIANT ActionMatchesSpecRules
INVARIANT TransportFailurePolicy
INVARIANT BodyLengthDeclared
INVARIANT DownloadDeliversWindow

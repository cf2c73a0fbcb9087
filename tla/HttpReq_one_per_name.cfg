\* Set-Cookies of one name by two hosts.
CONSTANTS
  Name = {"id"}
  Host <- MCHost
  Path <- MCPath
  Size <- MCSize
  EndsIn <- MCEndsIn
  StartsWith <- MCStartsWith
  Unset = Unset
  MaxCookies = 2
SPECIFICATION Spec
INVARIANT OnePerName

\* Set-Cookies of two names by two hosts.
CONSTANTS
  Name = {"id", "lang"}
  Host <- MCHost
  Path <- MCPath
  Size <- MCSize
  EndsIn <- MCEndsIn
  StartsWith <- MCStartsWith
  Unset = Unset
  MaxCookies = 3
SPECIFICATION Spec
INVARIANTS
  TypeOK
  HeaderExact

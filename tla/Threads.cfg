\* One request that may be started twice, and redirects until they are used up;
\* one sound and one music component, two tracks, playlists of two;
\* three threads, two blocks of memory, and an array of two tables.
SPECIFICATION ThreadsSpec
CONSTANTS
  Requests = {r1}
  NoRequest = none
  HttpJobs = {j1, j2}
  MaxHops = 2
  MaxAddrs = 2
  Sounds = {s1}
  Musics = {m1}
  Tracks = {t1, t2}
  NoTrack = silence
  Frames = 1
  MaxTracks = 2
  Addresses = {"b1", "b2"}
  LastThread = 2
  InitialTables = 2
  Asked = {1, 2}
  Overhead = 1
  LuaLimit = 3
INVARIANTS
  HttpSafe HttpNothingLost SoundReadsLive PlaysCurrentTrack
  MemorySound
PROPERTY NoThreadHangs
CHECK_DEADLOCK FALSE
